------------------------ MODULE WorkbenchTenancyProofs ------------------------
(***************************************************************************)
(* Theorems of WorkbenchTenancy: workbenches that are Separate keep out of *)
(* each other's way, whatever their number, names and namespaces and       *)
(* however far the caches are behind.                                      *)
(***************************************************************************)
EXTENDS WorkbenchTenancy, TLAPS

\* The name initJob gives is a job name, its place a key of the jobs.
LEMMA JobKeyType ==
    ASSUME NEW w \in Workbenches, NEW a \in Apps
    PROVE  JobKey(w, a) \in Keys /\ JobKey(w, a)[2] \in JobNames
BY TenancyAssumption DEF JobKey, Keys

\* Jobs of two workbenches do not have one place.
LEMMA KeysApart ==
    ASSUME Separate, NEW v \in Workbenches, NEW w \in Workbenches,
           NEW a \in Apps, NEW b \in Apps, JobKey(v, b) = JobKey(w, a)
    PROVE  v = w
<1>1. Home[v] = Home[w] /\ JobName[<<Name[v], b>>] = JobName[<<Name[w], a>>]
  BY DEF JobKey
<1> QED
  BY <1>1 DEF Separate

\* A job found under the name initJob gives is the workbench's own.
LEMMA NamedIsOwn ==
    ASSUME Separate, TenancyInv, NEW w \in Workbenches, NEW a \in Apps,
           jobs[JobKey(w, a)] # NoJob
    PROVE  jobs[JobKey(w, a)].owner = w
<1> DEFINE k == JobKey(w, a)
           v == jobs[k].owner
<1>1. k \in Keys /\ jobs[k] \in Job
  BY JobKeyType DEF TenancyInv, TypeOK
<1>2. v \in Workbenches /\ \E b \in Apps : k = JobKey(v, b)
  BY <1>1 DEF TenancyInv, AtHome, Job
<1> QED
  BY <1>2, KeysApart

\* A job listed under the label of a workbench, if it was one when it came to the
\* cache, has the place of one of its own.
LEMMA ListedIsOwn ==
    ASSUME Separate, TenancyInv, NEW w \in Workbenches, NEW k \in ListedJobs(w)
    PROVE  k \in Keys /\ \E a \in Apps : k = JobKey(w, a)
<1>1. k \in Keys /\ seenJobs[k] # NoJob /\ Name[seenJobs[k].owner] = Name[w]
  BY DEF ListedJobs
<1>2. seenJobs[k].owner \in Workbenches /\ \E a \in Apps : k = JobKey(seenJobs[k].owner, a)
  BY <1>1 DEF TenancyInv, TypeOK, AtHome, Job
<1> QED
  BY <1>1, <1>2 DEF Separate

\* DeleteAllOf takes the workbench's own jobs.
LEMMA DeletedIsOwn ==
    ASSUME Separate, TenancyInv, NEW w \in Workbenches, NEW k \in JobsOf(w)
    PROVE  k \in Keys /\ jobs[k].owner = w
BY DEF JobsOf, TenancyInv, TypeOK, AtHome, Job, Separate

-----------------------------------------------------------------------------
(* The jobs under a step. *)

\* What a pass does to the jobs: nothing, one of its own made, suspended or
\* started, or jobs of its own deleted.
JobsMove ==
    \/ jobs' = jobs
    \/ \E a \in Apps, suspend \in BOOLEAN :
         /\ pass.wb \in Workbenches
         /\ jobs' = [jobs EXCEPT ![JobKey(pass.wb, a)] = [owner |-> pass.wb, suspend |-> suspend]]
         /\ jobs[JobKey(pass.wb, a)] = NoJob \/ jobs[JobKey(pass.wb, a)].owner = pass.wb
    \/ \E gone \in SUBSET Keys :
         /\ jobs' = [k \in Keys |-> IF k \in gone THEN NoJob ELSE jobs[k]]
         /\ \A k \in gone : jobs[k] = NoJob \/ jobs[k].owner = pass.wb

\* EnsureJob finds, makes or changes a job of the pass's own workbench.
LEMMA EnsureJobMoves ==
    ASSUME Separate, TenancyInv, EnsureJob
    PROVE  JobsMove
<1>1. pass \in Pass
  BY DEF EnsureJob, TenancyInv, TypeOK
<1>2. PICK a \in pass.todo :
        \/ jobs' = jobs
        \/ /\ jobs[JobKey(pass.wb, a)] = NoJob
           /\ jobs' = [jobs EXCEPT ![JobKey(pass.wb, a)] =
                         [owner |-> pass.wb, suspend |-> FALSE]]
        \/ /\ jobs[JobKey(pass.wb, a)] # NoJob
           /\ jobs' = [jobs EXCEPT ![JobKey(pass.wb, a)].suspend =
                         (pass.spec[a] # "Running")]
  BY DEF EnsureJob
<1>3. a \in Apps /\ pass.wb \in Workbenches
  BY <1>1, <1>2 DEF Pass
<1>4. CASE /\ jobs[JobKey(pass.wb, a)] # NoJob
           /\ jobs' = [jobs EXCEPT ![JobKey(pass.wb, a)].suspend = (pass.spec[a] # "Running")]
  <2> DEFINE k == JobKey(pass.wb, a)
             s == pass.spec[a] # "Running"
  <2>1. k \in Keys /\ jobs[k] \in Job
    BY <1>3, JobKeyType DEF TenancyInv, TypeOK
  <2>2. jobs[k].owner = pass.wb
    BY <1>3, <1>4, NamedIsOwn
  <2>3. [jobs[k] EXCEPT !.suspend = s] = [owner |-> pass.wb, suspend |-> s]
    BY <2>1, <2>2 DEF Job
  <2>4. jobs' = [jobs EXCEPT ![k] = [owner |-> pass.wb, suspend |-> s]]
    BY <1>4, <2>3
  <2>5. s \in BOOLEAN
    OBVIOUS
  <2> QED
    BY <1>3, <2>2, <2>4, <2>5 DEF JobsMove
<1> QED
  BY <1>2, <1>3, <1>4 DEF JobsMove

\* The sweep and the teardown delete jobs of the pass's own workbench: what the
\* sweep lists in the cache may be gone by then, or made again, but not by another.
LEMMA DeletionsMove ==
    ASSUME Separate, TenancyInv, DeleteExtraJob \/ DeleteJobs
    PROVE  JobsMove
<1>1. pass \in Pass /\ jobs \in [Keys -> Job] /\ pass.wb \in Workbenches
  BY DEF DeleteExtraJob, DeleteJobs, TenancyInv, TypeOK, Pass
<1>2. CASE DeleteExtraJob
  <2>1. PICK k \in pass.doomed : jobs' = [jobs EXCEPT ![k] = NoJob]
    BY <1>2 DEF DeleteExtraJob
  <2>2. PICK a \in Apps : k = JobKey(pass.wb, a)
    BY <1>2, <2>1 DEF DeleteExtraJob, TenancyInv, OwnPass
  <2>3. k \in Keys /\ (jobs[k] = NoJob \/ jobs[k].owner = pass.wb)
    BY <1>1, <2>2, JobKeyType, NamedIsOwn
  <2>4. jobs' = [i \in Keys |-> IF i \in {k} THEN NoJob ELSE jobs[i]]
    BY <1>1, <2>1, <2>3
  <2> QED
    BY <2>3, <2>4 DEF JobsMove
<1>3. CASE DeleteJobs
  <2> DEFINE gone == JobsOf(pass.wb)
  <2>1. jobs' = [k \in Keys |-> IF k \in gone THEN NoJob ELSE jobs[k]]
    BY <1>3 DEF DeleteJobs
  <2>2. gone \in SUBSET Keys /\ \A k \in gone : jobs[k].owner = pass.wb
    BY <1>1, DeletedIsOwn
  <2> QED
    BY <2>1, <2>2 DEF JobsMove
<1> QED
  BY <1>2, <1>3

\* A step of a pass moves the jobs so.
LEMMA PassMovesJobs ==
    ASSUME Separate, TenancyInv, Reconcile
    PROVE  JobsMove
<1>1. CASE CreateServer \/ ListExtraJobs \/ ListJobs \/ ListServers \/ DeleteServers
           \/ RemoveFinalizer
  <2>1. jobs' = jobs
    BY <1>1 DEF CreateServer, ListExtraJobs, ListJobs, ListServers, DeleteServers,
       RemoveFinalizer
  <2> QED
    BY <2>1 DEF JobsMove
<1> QED
  BY <1>1, EnsureJobMoves, DeletionsMove DEF Reconcile

\* Of the other steps only the garbage collector's changes a job.
LEMMA OthersKeepJobs ==
    ASSUME [Next]_vars, ~Reconcile
    PROVE  jobs' = jobs \/ \E k \in Keys : jobs' = [jobs EXCEPT ![k] = NoJob]
BY DEF Next, DeliverJobs, DeliverServers, CollectJob, CollectServer, Begin, Edit,
       CreateAgain, Delete, Elsewhere, vars

-----------------------------------------------------------------------------
(* The inductive invariant. *)

\* However jobs move, they keep their shape and their place.
LEMMA MovesStayAtHome ==
    ASSUME Separate, TenancyInv, [Next]_vars
    PROVE  jobs' \in [Keys -> Job] /\ AtHome(jobs)'
<1>1. jobs \in [Keys -> Job] /\ AtHome(jobs)
  BY DEF TenancyInv, TypeOK
<1>2. CASE jobs' = jobs
  BY <1>1, <1>2 DEF AtHome
<1>3. ASSUME NEW a \in Apps, NEW suspend \in BOOLEAN, pass.wb \in Workbenches,
             jobs' = [jobs EXCEPT ![JobKey(pass.wb, a)] =
                        [owner |-> pass.wb, suspend |-> suspend]]
      PROVE  jobs' \in [Keys -> Job] /\ AtHome(jobs)'
  <2>1. JobKey(pass.wb, a) \in Keys /\ pass.wb # Nobody
    BY <1>3, JobKeyType, TenancyAssumption
  <2> QED
    BY <1>1, <1>3, <2>1 DEF Job, AtHome
<1>4. ASSUME NEW gone \in SUBSET Keys,
             jobs' = [k \in Keys |-> IF k \in gone THEN NoJob ELSE jobs[k]]
      PROVE  jobs' \in [Keys -> Job] /\ AtHome(jobs)'
  BY <1>1, <1>4 DEF Job, NoJob, AtHome
<1>5. ASSUME NEW i \in Keys, jobs' = [jobs EXCEPT ![i] = NoJob]
      PROVE  jobs' \in [Keys -> Job] /\ AtHome(jobs)'
  <2>1. jobs' = [k \in Keys |-> IF k \in {i} THEN NoJob ELSE jobs[k]]
    BY <1>1, <1>5
  <2> QED
    BY <1>4, <2>1
<1>6. CASE Reconcile
  BY <1>2, <1>3, <1>4, <1>6, PassMovesJobs DEF JobsMove
<1>7. CASE ~Reconcile
  BY <1>2, <1>5, <1>7, OthersKeepJobs
<1> QED
  BY <1>6, <1>7

\* What is listed is what was there.
LEMMA ListsStayAtHome ==
    ASSUME TenancyInv, [Next]_vars
    PROVE  seenJobs' \in [Keys -> Job] /\ AtHome(seenJobs)'
<1>1. seenJobs' = seenJobs \/ seenJobs' = jobs
  BY DEF Next, Reconcile, CreateServer, EnsureJob, ListExtraJobs, DeleteExtraJob, ListJobs,
     DeleteJobs, ListServers, DeleteServers, RemoveFinalizer, InPass, DeliverJobs,
     DeliverServers, CollectJob, CollectServer, Begin, Edit, CreateAgain, Delete,
     Elsewhere, caches, vars
<1> QED
  BY <1>1 DEF TenancyInv, TypeOK, AtHome

LEMMA ReturnType ==
    ASSUME TenancyInv, pc # "idle", NEW requeue \in BOOLEAN, Return(requeue)
    PROVE  queued' \subseteq Workbenches /\ pc' = "idle" /\ pass' = NoPass /\ OwnPass'
BY DEF TenancyInv, TypeOK, Return, Pass, OwnPass

\* The steps of a pass keep the shape of what is not a job, and the jobs a pass is
\* about to delete have the places of its own.
LEMMA PassStep ==
    ASSUME Separate, TenancyInv, Reconcile, jobs' \in [Keys -> Job],
           seenJobs' \in [Keys -> Job]
    PROVE  TypeOK' /\ OwnPass'
<1> USE DEF TenancyInv, TypeOK
<1>0. pc # "idle" /\ pass \in Pass /\ pass.wb \in Workbenches
  BY DEF Reconcile, CreateServer, EnsureJob, ListExtraJobs, DeleteExtraJob, ListJobs,
     DeleteJobs, ListServers, DeleteServers, RemoveFinalizer, Pass
<1>1. CASE CreateServer
  BY <1>0, <1>1 DEF CreateServer, InPass, caches, Goto, OwnPass
<1>2. CASE EnsureJob
  <2>1. PICK a \in pass.todo :
          \/ Goto("apps", [pass EXCEPT !.todo = @ \ {a}])
          \/ Goto("apps", [[pass EXCEPT !.todo = @ \ {a}]
                              EXCEPT !.found = @ \cup {JobKey(pass.wb, a)[2]}])
          \/ Return(TRUE)
    BY <1>2 DEF EnsureJob
  <2>2. a \in Apps /\ JobKey(pass.wb, a)[2] \in JobNames
    BY <1>0, <2>1, JobKeyType DEF Pass
  <2> DEFINE visited == [pass EXCEPT !.todo = @ \ {a}]
             counted == [visited EXCEPT !.found = @ \cup {JobKey(pass.wb, a)[2]}]
  <2>3. visited \in Pass
    BY <1>0 DEF Pass
  <2>4. counted \in Pass
    <3> HIDE DEF visited
    <3> QED  BY <2>2, <2>3 DEF Pass
  <2>5. CASE Return(TRUE)
    BY <1>0, <1>2, <2>5, ReturnType DEF EnsureJob, InPass, caches
  <2>6. CASE Goto("apps", visited) \/ Goto("apps", counted)
    <3>1. pass' \in Pass /\ pc' = "apps" /\ queued' = queued
      <4> HIDE DEF visited, counted
      <4> QED  BY <2>3, <2>4, <2>6 DEF Goto
    <3> QED
      BY <1>2, <3>1 DEF EnsureJob, InPass, caches, OwnPass
  <2> QED
    BY <2>1, <2>5, <2>6
<1>3. CASE ListExtraJobs
  <2> DEFINE extra == {k \in ListedJobs(pass.wb) : k[2] \notin pass.found}
  <2>1. \A k \in extra : k \in Keys /\ \E a \in Apps : k = JobKey(pass.wb, a)
    BY <1>0, ListedIsOwn
  <2>2. Return(FALSE) \/ Goto("sweep", [pass EXCEPT !.doomed = extra])
    BY <1>3 DEF ListExtraJobs
  <2>3. CASE Return(FALSE)
    BY <1>0, <1>3, <2>3, ReturnType DEF ListExtraJobs, InPass, caches
  <2>4. CASE Goto("sweep", [pass EXCEPT !.doomed = extra])
    <3>1. /\ pass' \in Pass /\ pass'.doomed = extra /\ pass'.wb = pass.wb
          /\ pc' = "sweep" /\ queued' = queued
      BY <1>0, <2>1, <2>4 DEF Goto, Pass
    <3> QED
      BY <1>3, <2>1, <3>1 DEF ListExtraJobs, InPass, caches, OwnPass, JobKey
  <2> QED
    BY <2>2, <2>3, <2>4
<1>4. CASE DeleteExtraJob
  <2>1. PICK k \in pass.doomed :
          /\ orphans' = orphans \ {k}
          /\ \/ Return(jobs[k] = NoJob)
             \/ Goto("sweep", [pass EXCEPT !.doomed = @ \ {k}])
    BY <1>4 DEF DeleteExtraJob
  <2>2. CASE Return(jobs[k] = NoJob)
    BY <1>0, <1>4, <2>1, <2>2, ReturnType DEF DeleteExtraJob, InPass, caches
  <2>3. CASE Goto("sweep", [pass EXCEPT !.doomed = @ \ {k}])
    <3>1. /\ pass' \in Pass /\ pass'.doomed = pass.doomed \ {k} /\ pass'.wb = pass.wb
          /\ pc' = "sweep" /\ queued' = queued
      BY <1>0, <2>3 DEF Goto, Pass
    <3>2. pc = "sweep"
      BY <1>4 DEF DeleteExtraJob
    <3> QED
      BY <1>4, <2>1, <3>1, <3>2 DEF DeleteExtraJob, InPass, caches, OwnPass, JobKey
  <2> QED
    BY <2>1, <2>2, <2>3
<1>5. CASE ListJobs \/ ListServers
  <2>1. /\ pc' \in {"listServers", "deleteJobs", "removeFinalizer", "deleteServers"}
        /\ UNCHANGED <<pass, queued>>
    BY <1>5 DEF ListJobs, ListServers, Goto
  <2> QED
    BY <1>0, <1>5, <2>1 DEF ListJobs, ListServers, InPass, caches, OwnPass
<1>6. CASE DeleteJobs
  <2>1. orphans' \subseteq Keys
    BY <1>6 DEF DeleteJobs
  <2> QED
    BY <1>0, <1>6, <2>1, ReturnType DEF DeleteJobs, InPass, caches
<1>7. CASE DeleteServers
  BY <1>0, <1>7, ReturnType DEF DeleteServers, InPass, caches
<1>8. CASE RemoveFinalizer
  <2>1. phase' \in {phase, [phase EXCEPT ![pass.wb] = "gone"]}
    BY <1>8 DEF RemoveFinalizer
  <2>2. /\ orphans' \subseteq Keys /\ strays' \subseteq servers
        /\ \E requeue \in BOOLEAN : Return(requeue)
    BY <1>8 DEF RemoveFinalizer
  <2> QED
    BY <1>0, <1>8, <2>1, <2>2, ReturnType DEF RemoveFinalizer, InPass, caches
<1> QED
  BY <1>1, <1>2, <1>3, <1>4, <1>5, <1>6, <1>7, <1>8 DEF Reconcile

\* So do the steps of the users, of the informers and of the garbage collector.
LEMMA OtherStep ==
    ASSUME TenancyInv, [Next]_vars, ~Reconcile, jobs' \in [Keys -> Job],
           seenJobs' \in [Keys -> Job]
    PROVE  TypeOK' /\ OwnPass'
<1> USE DEF TenancyInv, TypeOK
<1>1. CASE UNCHANGED vars
  BY <1>1 DEF vars, desired, caches, worker, OwnPass
<1>2. ASSUME NEW w \in Workbenches, Begin(w) PROVE TypeOK' /\ OwnPass'
  BY <1>2 DEF Begin, InPass, caches, Pass, OwnPass
<1>3. ASSUME NEW w \in Workbenches, Edit(w) \/ CreateAgain(w) \/ Delete(w)
      PROVE  TypeOK' /\ OwnPass'
  <2>1. /\ queued' = queued \cup {w}
        /\ UNCHANGED <<jobs, servers, caches, orphans, strays, pc, pass>>
    BY <1>3 DEF Edit, CreateAgain, Delete, Elsewhere
  <2>2. phase' \in [Workbenches -> {"live", "terminating", "gone"}]
    BY <1>3 DEF Edit, CreateAgain, Delete
  <2>3. spec' \in [Workbenches -> [Apps -> AppStates]]
    <3>1. CASE Edit(w)
      <4>1. PICK a \in Apps, s \in AppStates : spec' = [spec EXCEPT ![w][a] = s]
        BY <3>1 DEF Edit
      <4>2. spec[w] \in [Apps -> AppStates]
        OBVIOUS
      <4> QED
        BY <4>1, <4>2
    <3>2. CASE CreateAgain(w) \/ Delete(w)
      BY <3>2 DEF CreateAgain, Delete
    <3> QED
      BY <1>3, <3>1, <3>2
  <2>4. edits' \in 0 .. MaxEdits
    BY <1>3, TenancyAssumption DEF Edit, CreateAgain, Delete
  <2> QED
    BY <2>1, <2>2, <2>3, <2>4 DEF caches, OwnPass
<1>4. CASE DeliverJobs \/ DeliverServers
  <2>1. queued' \subseteq Workbenches
    BY <1>4 DEF DeliverJobs, DeliverServers
  <2> QED
    BY <1>4, <2>1 DEF DeliverJobs, DeliverServers, desired, OwnPass
<1>5. CASE \E k \in Keys : CollectJob(k)
  BY <1>5 DEF CollectJob, desired, caches, worker, OwnPass
<1>6. CASE \E w \in Workbenches : CollectServer(w)
  BY <1>6 DEF CollectServer, desired, caches, worker, OwnPass
<1> QED
  BY <1>1, <1>2, <1>3, <1>4, <1>5, <1>6 DEF Next

\* The invariant holds of separate workbenches, however many: what exists, what is
\* listed and what is about to be deleted all lie where their owner's jobs do.
THEOREM TenancyIsInductive == Separate => (Spec => []TenancyInv)
<1> SUFFICES ASSUME Separate PROVE Spec => []TenancyInv
  OBVIOUS
<1>1. Init => TenancyInv
  BY TenancyAssumption DEF Init, TenancyInv, TypeOK, AtHome, OwnPass, Job, NoJob
<1>2. TenancyInv /\ [Next]_vars => TenancyInv'
  <2> SUFFICES ASSUME TenancyInv, [Next]_vars PROVE TenancyInv'
    OBVIOUS
  <2>1. /\ jobs' \in [Keys -> Job] /\ AtHome(jobs)'
        /\ seenJobs' \in [Keys -> Job] /\ AtHome(seenJobs)'
    BY MovesStayAtHome, ListsStayAtHome
  <2>2. TypeOK' /\ OwnPass'
    BY <2>1, PassStep, OtherStep
  <2> QED
    BY <2>1, <2>2 DEF TenancyInv
<1> QED
  BY <1>1, <1>2, PTL DEF Spec

\* No pass touches a job of another workbench: findJobs and createJob, which ask
\* for labels and names, find what the workbench owns, and what deleteJob deletes by
\* name is the workbench's own although the list was old.
THEOREM PassesKeepToTheirOwn == Separate => (Spec => OwnJobsOnly)
<1> SUFFICES ASSUME Separate PROVE Spec => OwnJobsOnly
  OBVIOUS
<1>1. TenancyInv /\ [Next]_vars =>
        [PassMoves => \A k \in Keys : jobs'[k] # jobs[k] =>
            {jobs[k].owner, jobs'[k].owner} \ {Nobody} = {pass.wb}]_vars
  <2> SUFFICES ASSUME TenancyInv, [Next]_vars, PassMoves, NEW k \in Keys, jobs'[k] # jobs[k]
               PROVE  {jobs[k].owner, jobs'[k].owner} \ {Nobody} = {pass.wb}
    OBVIOUS
  <2>1. Reconcile
    BY DEF PassMoves, Next, DeliverJobs, DeliverServers, CollectJob, CollectServer, Begin,
       Edit, CreateAgain, Delete, Elsewhere, worker, vars
  <2>2. JobsMove /\ jobs \in [Keys -> Job]
    BY <2>1, PassMovesJobs DEF TenancyInv, TypeOK
  <2>3. jobs[k] # NoJob => jobs[k].owner \in Workbenches
    BY <2>2 DEF TenancyInv, AtHome, Job
  <2>4. ASSUME NEW a \in Apps, NEW suspend \in BOOLEAN, pass.wb \in Workbenches,
               jobs' = [jobs EXCEPT ![JobKey(pass.wb, a)] =
                          [owner |-> pass.wb, suspend |-> suspend]],
               jobs[JobKey(pass.wb, a)] = NoJob \/ jobs[JobKey(pass.wb, a)].owner = pass.wb
        PROVE  {jobs[k].owner, jobs'[k].owner} \ {Nobody} = {pass.wb}
    <3>1. k = JobKey(pass.wb, a) /\ jobs'[k].owner = pass.wb
      BY <2>2, <2>4
    <3>2. jobs[k].owner \in {pass.wb, Nobody}
      BY <2>4, <3>1 DEF NoJob
    <3> QED
      BY <2>4, <3>1, <3>2, TenancyAssumption
  <2>5. ASSUME NEW gone \in SUBSET Keys,
               jobs' = [i \in Keys |-> IF i \in gone THEN NoJob ELSE jobs[i]],
               \A i \in gone : jobs[i] = NoJob \/ jobs[i].owner = pass.wb
        PROVE  {jobs[k].owner, jobs'[k].owner} \ {Nobody} = {pass.wb}
    <3>1. jobs'[k] = NoJob /\ jobs[k].owner = pass.wb /\ jobs[k] # NoJob
      BY <2>5
    <3> QED
      BY <2>3, <3>1, TenancyAssumption DEF NoJob
  <2> QED
    BY <2>2, <2>4, <2>5 DEF JobsMove
<1>2. Spec => []TenancyInv
  BY TenancyIsInductive
<1> QED
  BY <1>1, <1>2, PTL DEF Spec, OwnJobsOnly
=============================================================================
