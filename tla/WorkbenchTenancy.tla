--------------------------- MODULE WorkbenchTenancy ---------------------------
(***************************************************************************)
(* Several workbenches, in several namespaces, served by one operator.     *)
(* They share the jobs and deployments of the cluster, which each finds by *)
(* the label workbench=<name>: findJobs and deleteDeployments list every   *)
(* namespace, DeleteAllOf is confined to one, and the sweep compares names *)
(* of jobs only.                                                           *)
(*                                                                         *)
(* Jobs and deployments are listed and looked up in the informers' caches, *)
(* which may be behind; what a teardown misses there is left to the        *)
(* garbage collector, under a workbench made again under the same name or  *)
(* not.                                                                    *)
(*                                                                         *)
(* Simplifications: one worker (the default of the controller); the        *)
(* workbench is read as it is; calls fail only when they are refused; a    *)
(* finalizer from the start and a server that is ready:                    *)
(* WorkbenchReconciler has the rest for one workbench.  An informer that   *)
(* catches up does so at once, and an update is refused when the job is no *)
(* longer like the one read.  An operator marked "Mutant" is a plausible   *)
(* mistake in the definition next to it; no other definition uses it.      *)
(***************************************************************************)
EXTENDS Naturals

CONSTANTS
    Workbenches, Names, Namespaces,
    Name,        \* the name of a workbench
    Home,        \* its namespace
    Apps,        \* keys of spec.apps, each with its application's name
    JobNames,
    JobName,     \* the job name of <<workbench name, app>>
    MaxEdits     \* bound on the users' edits

Nobody == "nobody"

ASSUME TenancyAssumption ==
    /\ Name \in [Workbenches -> Names]
    /\ Home \in [Workbenches -> Namespaces]
    /\ \A v, w \in Workbenches : Name[v] = Name[w] /\ Home[v] = Home[w] => v = w
    /\ JobName \in [Names \X Apps -> JobNames]
    /\ MaxEdits \in Nat
    /\ Nobody \notin Workbenches

VARIABLES
    phase,        \* of each workbench
    spec,         \* the desired state of its apps
    jobs,         \* the jobs, by namespace and name
    servers,      \* the workbenches whose deployment exists
    seenJobs,     \* the jobs in the cache
    seenServers,  \* the workbenches whose deployment is in the cache
    orphans,      \* the jobs made for a workbench that is gone, by namespace and name
    strays,       \* the deployments made for a workbench that is gone
    queued,       \* the workqueue
    pc,           \* the next call of the running pass, or "idle"
    pass,         \* the memory of the running pass
    edits

desired == <<phase, spec>>
caches == <<seenJobs, seenServers>>
worker == <<queued, pc, pass>>
vars == <<desired, jobs, servers, caches, orphans, strays, worker, edits>>

AppStates == {"none", "Running", "Stopped"}
Keys == Namespaces \X JobNames

\* owner: the workbench that the controller reference and the label name.
Job == [owner : Workbenches \cup {Nobody}, suspend : BOOLEAN]
NoJob == [owner |-> Nobody, suspend |-> FALSE]

\* The workbench and the spec a pass works on, the apps to visit, foundJobNames,
\* and the extra jobs.
Pass == [wb : Workbenches, spec : [Apps -> AppStates], todo : SUBSET Apps,
         found : SUBSET JobNames, doomed : SUBSET Keys]
\* A record, so that TLC can compare it with any pass.
NoPass == [running |-> FALSE]

-----------------------------------------------------------------------------
Goto(step, p) == pc' = step /\ pass' = p /\ UNCHANGED queued

Return(requeue) ==
    /\ pc' = "idle"
    /\ pass' = NoPass
    /\ queued' = IF requeue THEN queued \cup {pass.wb} ELSE queued

\* A step of the running pass.
PassMoves == pc # "idle" /\ <<pc, pass>> # <<pc', pass'>>

\* Mutants: the label is not asked for.
AnyJobs(w) == {k \in Keys : seenJobs[k] # NoJob}
AnyServers(w) == seenServers

\* The jobs and deployments under a workbench's label in the caches, whatever their
\* namespace.
ListedJobs(w) == {k \in Keys : seenJobs[k] # NoJob /\ Name[seenJobs[k].owner] = Name[w]}
ListedServers(w) == {v \in seenServers : Name[v] = Name[w]}

\* Those under its label at home, in the API server: DeleteAllOf takes them.
JobsOf(w) ==
    {k \in Keys : jobs[k] # NoJob /\ Name[jobs[k].owner] = Name[w] /\ k[1] = Home[w]}
ServersOf(w) == {v \in servers : Name[v] = Name[w] /\ Home[v] = Home[w]}

JobKey(w, a) == <<Home[w], JobName[<<Name[w], a>>]>>

-----------------------------------------------------------------------------
(* Reconcile. *)

InPass == UNCHANGED <<spec, caches, edits>>

Begin(w) ==
    /\ pc = "idle" /\ w \in queued
    /\ queued' = queued \ {w}
    /\ LET p == [wb |-> w, spec |-> spec[w], todo |-> {a \in Apps : spec[w][a] # "none"},
                 found |-> {}, doomed |-> {}]
       IN CASE phase[w] = "live"        -> pc' = "server" /\ pass' = p
            [] phase[w] = "terminating" -> pc' = "listJobs" /\ pass' = p
            [] OTHER                    -> UNCHANGED <<pc, pass>>
    /\ UNCHANGED <<phase, jobs, servers, orphans, strays>> /\ InPass

\* A deployment that is there and not in the cache is created in vain, which is
\* logged only.
CreateServer ==
    /\ pc = "server"
    /\ servers' = IF pass.wb \in seenServers THEN servers ELSE servers \cup {pass.wb}
    /\ Goto("apps", pass)
    /\ UNCHANGED <<phase, jobs, orphans, strays>> /\ InPass

\* createJob and updateJob: found by name, whoever owns it.  A creation is refused if
\* there is a job, an update if the job is not the one in the cache.
EnsureJob ==
    /\ pc = "apps"
    /\ \E a \in pass.todo :
         LET k == JobKey(pass.wb, a)
             stopped == pass.spec[a] # "Running"
             visited == [pass EXCEPT !.todo = @ \ {a}]
             counted == [visited EXCEPT !.found = @ \cup {k[2]}]
         IN CASE seenJobs[k] = NoJob /\ stopped ->
                   jobs' = jobs /\ Goto("apps", visited)
              [] seenJobs[k] = NoJob /\ ~stopped /\ jobs[k] = NoJob ->
                   /\ jobs' = [jobs EXCEPT ![k] = [owner |-> pass.wb, suspend |-> FALSE]]
                   /\ Goto("apps", counted)
              [] seenJobs[k] # NoJob /\ seenJobs[k].suspend = stopped ->
                   jobs' = jobs /\ Goto("apps", counted)
              [] seenJobs[k] # NoJob /\ seenJobs[k].suspend # stopped /\ jobs[k] = seenJobs[k] ->
                   jobs' = [jobs EXCEPT ![k].suspend = stopped] /\ Goto("apps", counted)
              [] OTHER ->
                   jobs' = jobs /\ Return(TRUE)
    /\ UNCHANGED <<phase, servers, orphans, strays>> /\ InPass

ListExtraJobs ==
    /\ pc = "apps" /\ pass.todo = {}
    /\ LET extra == {k \in ListedJobs(pass.wb) : k[2] \notin pass.found}
       IN IF extra = {} THEN Return(FALSE) ELSE Goto("sweep", [pass EXCEPT !.doomed = extra])
    /\ UNCHANGED <<phase, jobs, servers, orphans, strays>> /\ InPass

\* deleteJob: whatever job has the name by now; one that is gone is an error.
DeleteExtraJob ==
    /\ pc = "sweep"
    /\ \E k \in pass.doomed :
         /\ jobs' = [jobs EXCEPT ![k] = NoJob]
         /\ orphans' = orphans \ {k}
         /\ IF jobs[k] = NoJob \/ pass.doomed = {k}
            THEN Return(jobs[k] = NoJob)
            ELSE Goto("sweep", [pass EXCEPT !.doomed = @ \ {k}])
    /\ UNCHANGED <<phase, servers, strays>> /\ InPass

\* deleteJobs: what is listed in any namespace counts, what is at home goes.
ListJobs ==
    /\ pc = "listJobs"
    /\ Goto(IF ListedJobs(pass.wb) = {} THEN "listServers" ELSE "deleteJobs", pass)
    /\ UNCHANGED <<phase, jobs, servers, orphans, strays>> /\ InPass

DeleteJobs ==
    /\ pc = "deleteJobs"
    /\ LET deleted == JobsOf(pass.wb)
       IN /\ jobs' = [k \in Keys |-> IF k \in deleted THEN NoJob ELSE jobs[k]]
          /\ orphans' = orphans \ deleted
    /\ Return(TRUE)
    /\ UNCHANGED <<phase, servers, strays>> /\ InPass

\* deleteDeployments: likewise.
ListServers ==
    /\ pc = "listServers"
    /\ Goto(IF ListedServers(pass.wb) = {} THEN "removeFinalizer" ELSE "deleteServers", pass)
    /\ UNCHANGED <<phase, jobs, servers, orphans, strays>> /\ InPass

DeleteServers ==
    /\ pc = "deleteServers"
    /\ servers' = servers \ ServersOf(pass.wb)
    /\ strays' = strays \ ServersOf(pass.wb)
    /\ Return(TRUE)
    /\ UNCHANGED <<phase, jobs, orphans>> /\ InPass

\* The update is refused if the spec is no longer the one read.  What is left of a
\* workbench that goes has lost its owner.
RemoveFinalizer ==
    /\ pc = "removeFinalizer"
    /\ LET w == pass.wb
           accepted == spec[w] = pass.spec
       IN /\ phase' = IF accepted THEN [phase EXCEPT ![w] = "gone"] ELSE phase
          /\ orphans' = IF accepted
                         THEN orphans \cup {k \in Keys : jobs[k].owner = w}
                         ELSE orphans
          /\ strays' = IF accepted THEN strays \cup (servers \cap {w}) ELSE strays
          /\ Return(~accepted)
    /\ UNCHANGED <<jobs, servers>> /\ InPass

Reconcile ==
    \/ CreateServer \/ EnsureJob \/ ListExtraJobs \/ DeleteExtraJob
    \/ ListJobs \/ DeleteJobs \/ ListServers \/ DeleteServers \/ RemoveFinalizer

-----------------------------------------------------------------------------
(* The informers, which queue the owners of what has changed, and the garbage    *)
(* collector.                                                                    *)

DeliverJobs ==
    /\ seenJobs # jobs
    /\ seenJobs' = jobs
    /\ queued' = queued \cup
         {w \in Workbenches : \E k \in Keys :
             seenJobs[k] # jobs[k] /\ w \in {seenJobs[k].owner, jobs[k].owner}}
    /\ UNCHANGED <<desired, jobs, servers, seenServers, orphans, strays, pc, pass, edits>>

DeliverServers ==
    /\ seenServers # servers
    /\ seenServers' = servers
    /\ queued' = queued \cup (seenServers \ servers) \cup (servers \ seenServers)
    /\ UNCHANGED <<desired, jobs, servers, seenJobs, orphans, strays, pc, pass, edits>>

CollectJob(k) ==
    /\ k \in orphans
    /\ jobs' = [jobs EXCEPT ![k] = NoJob]
    /\ orphans' = orphans \ {k}
    /\ UNCHANGED <<desired, servers, caches, strays, worker, edits>>

CollectServer(w) ==
    /\ w \in strays
    /\ servers' = servers \ {w} /\ strays' = strays \ {w}
    /\ UNCHANGED <<desired, jobs, caches, orphans, worker, edits>>

-----------------------------------------------------------------------------
(* The users. *)

Elsewhere == UNCHANGED <<jobs, servers, caches, orphans, strays, pc, pass>>

Edit(w) ==
    /\ edits < MaxEdits
    /\ phase[w] # "gone"
    /\ \E a \in Apps, s \in AppStates :
         spec[w][a] # s /\ spec' = [spec EXCEPT ![w][a] = s]
    /\ edits' = edits + 1
    /\ queued' = queued \cup {w}
    /\ UNCHANGED phase /\ Elsewhere

\* Another workbench of that name is made after the first is gone.
CreateAgain(w) ==
    /\ edits < MaxEdits
    /\ phase[w] = "gone"
    /\ phase' = [phase EXCEPT ![w] = "live"]
    /\ \E s \in [Apps -> AppStates] : spec' = [spec EXCEPT ![w] = s]
    /\ edits' = edits + 1
    /\ queued' = queued \cup {w}
    /\ Elsewhere

Delete(w) ==
    /\ phase[w] = "live"
    /\ phase' = [phase EXCEPT ![w] = "terminating"]
    /\ queued' = queued \cup {w}
    /\ UNCHANGED <<spec, edits>> /\ Elsewhere

Init ==
    /\ phase = [w \in Workbenches |-> "live"]
    /\ spec \in [Workbenches -> [Apps -> AppStates]]
    /\ jobs = [k \in Keys |-> NoJob]
    /\ servers = {}
    /\ seenJobs = jobs /\ seenServers = servers
    /\ orphans = {} /\ strays = {}
    /\ queued = Workbenches /\ pc = "idle" /\ pass = NoPass
    /\ edits = 0

Next ==
    \/ Reconcile
    \/ DeliverJobs \/ DeliverServers
    \/ \E k \in Keys : CollectJob(k)
    \/ \E w \in Workbenches :
         CollectServer(w) \/ Begin(w) \/ Edit(w) \/ CreateAgain(w) \/ Delete(w)

Spec == Init /\ [][Next]_vars

\* Calls return; the workqueue is first in first out, so that what is queued is
\* served, whatever else is queued; informers and the garbage collector catch up.
FairSpec ==
    /\ Spec
    /\ WF_vars(Reconcile) /\ WF_vars(DeliverJobs) /\ WF_vars(DeliverServers)
    /\ \A w \in Workbenches : SF_vars(Begin(w)) /\ WF_vars(CollectServer(w))
    /\ \A k \in Keys : WF_vars(CollectJob(k))

-----------------------------------------------------------------------------
(* Safety. *)

\* Every variable has the shape it is declared with.
TypeOK ==
    /\ phase \in [Workbenches -> {"live", "terminating", "gone"}]
    /\ spec \in [Workbenches -> [Apps -> AppStates]]
    /\ jobs \in [Keys -> Job] /\ seenJobs \in [Keys -> Job]
    /\ servers \subseteq Workbenches /\ seenServers \subseteq Workbenches
    /\ orphans \subseteq Keys /\ strays \subseteq servers
    /\ queued \subseteq Workbenches
    /\ pc \in {"idle", "server", "apps", "sweep", "listJobs", "deleteJobs", "listServers",
               "deleteServers", "removeFinalizer"}
    /\ IF pc = "idle" THEN pass = NoPass ELSE pass \in Pass
    /\ edits \in 0 .. MaxEdits

\* A job lies where its owner's passes look for it, as it is and as it is listed: in
\* the owner's namespace, under the name initJob gives to one of its apps.
AtHome(set) ==
    \A k \in Keys : set[k] # NoJob =>
        /\ set[k].owner # Nobody
        /\ \E a \in Apps : k = JobKey(set[k].owner, a)

\* "matchingLabel is used to catch all the apps of a workbench": a pass creates,
\* suspends and deletes jobs of its own workbench only, although createJob finds
\* them by name, findJobs by a label in a list that may be old, and deleteJob takes
\* whatever has the name by then.
OwnJobsOnly ==
    [][PassMoves => \A k \in Keys : jobs'[k] # jobs[k] =>
          {jobs[k].owner, jobs'[k].owner} \ {Nobody} = {pass.wb}]_vars

-----------------------------------------------------------------------------
(* Liveness. *)

\* A deleted workbench goes, whatever becomes of the others and whatever the lists of
\* its teardown still have.
DeletionCompletes ==
    \A w \in Workbenches : phase[w] = "terminating" ~> phase[w] = "gone"

\* The jobs of a workbench come to what its spec asks for, and stay there, although the
\* garbage collector may take from it the jobs of one that had its name before.
AsWanted(w) ==
    \A a \in Apps :
        LET job == jobs[JobKey(w, a)]
        IN CASE spec[w][a] = "Running" -> job = [owner |-> w, suspend |-> FALSE]
             [] spec[w][a] = "Stopped" -> job = NoJob \/ job = [owner |-> w, suspend |-> TRUE]
             [] OTHER -> job = NoJob

Settles == \A w \in Workbenches : <>[](phase[w] = "live" => AsWanted(w))

-----------------------------------------------------------------------------
(* When workbenches keep out of each other's way. *)

\* No two share a name, in whatever namespaces, and no two of one namespace
\* have apps whose jobs share a name.
Separate ==
    \A v, w \in Workbenches : v # w =>
        /\ Name[v] # Name[w]
        /\ Home[v] = Home[w] =>
             \A a, b \in Apps : JobName[<<Name[v], a>>] # JobName[<<Name[w], b>>]

\* What a pass is about to delete lies where its own jobs do.
OwnPass ==
    pc = "sweep" => \A k \in pass.doomed : \E a \in Apps : k = JobKey(pass.wb, a)

TenancyInv == TypeOK /\ AtHome(jobs) /\ AtHome(seenJobs) /\ OwnPass
=============================================================================
