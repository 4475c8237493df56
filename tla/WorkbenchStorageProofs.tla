------------------------ MODULE WorkbenchStorageProofs ------------------------
(***************************************************************************)
(* Theorems of WorkbenchStorage: what makes a claim usable is there before *)
(* it, and workbenches of a namespace leave each other's directory jobs    *)
(* alone, whatever fails, is missing or is read too early.                 *)
(***************************************************************************)
EXTENDS WorkbenchStorage, TLAPS

\* Two providers never have the same place in the order.
LEMMA AtHandUnique ==
    ASSUME NEW p \in Providers, NEW q \in Providers, AtHand(p), AtHand(q)
    PROVE  p = q
<1>1. Rank(p) <= Rank(q) /\ Rank(q) <= Rank(p)
  BY DEF AtHand
<1>2. \A r \in Providers : r = "s3" \/ r = "nfs" \/ r = "local"
  BY DEF Providers
<1>3. Rank("s3") = 1 /\ Rank("nfs") = 2 /\ Rank("local") = 3
  BY DEF Rank
<1> QED
  BY <1>1, <1>2, <1>3

-----------------------------------------------------------------------------
(* The shape of the variables. *)

Worker ==
    /\ queued \subseteq Workbenches
    /\ pc \in Steps
    /\ IF pc = "idle" THEN pass = NoPass ELSE pass \in Pass

\* A running pass has its memory.
LEMMA PassType ==
    ASSUME TypeOK, pc # "idle"
    PROVE  /\ pass \in Pass /\ pass.w \in Workbenches
           /\ pass.storage \subseteq Providers /\ pass.todo \subseteq Providers
           /\ pass.doomed \subseteq Providers /\ pass.behind \subseteq Providers
BY DEF TypeOK, Pass

LEMMA GotoType ==
    ASSUME TypeOK, NEW step \in Steps \ {"idle"}, NEW p \in Pass, Goto(step, p)
    PROVE  Worker'
BY DEF TypeOK, Worker, Goto

LEMMA ReturnType ==
    ASSUME TypeOK, pc # "idle", NEW requeue \in BOOLEAN, Return(requeue)
    PROVE  Worker'
BY PassType DEF TypeOK, Worker, Return, Steps

\* When a storage is done the pass is at the next one, past them all, or over.
LEMMA ProceedMoves ==
    ASSUME TypeOK, pc # "idle", NEW p \in Providers, Proceed(p)
    PROVE  Worker' /\ pc' \in {"driver", "mounts", "idle"}
<1> DEFINE rest == [pass EXCEPT !.todo = @ \ {p}]
<1>1. rest \in Pass
  BY PassType DEF Pass
<1>2. NextStep(rest) \in {"driver", "mounts", "idle"}
  BY DEF NextStep
<1>3. CASE NextStep(rest) = "idle"
  <2>1. Return(TRUE)
    BY <1>3 DEF Proceed
  <2> QED
    BY <2>1, ReturnType DEF Return
<1>4. CASE NextStep(rest) # "idle"
  <2>1. Goto(NextStep(rest), rest)
    BY <1>4 DEF Proceed
  <2>2. NextStep(rest) \in Steps \ {"idle"}
    BY <1>2, <1>4 DEF Steps, ProviderSteps
  <2> QED
    BY <1>1, <1>2, <2>1, <2>2, GotoType DEF Goto
<1> QED
  BY <1>3, <1>4

LEMMA BudgetType ==
    ASSUME TypeOK, UNCHANGED faults \/ Fails
    PROVE  faults' \in 0 .. MaxFaults
BY StorageAssumption DEF TypeOK, Fails

LEMMA InitInv == Init => StorageInv
<1> SUFFICES ASSUME Init
             PROVE  StorageInv
  OBVIOUS
<1>1. ready \in [Workbenches -> BOOLEAN] /\ app \in [Workbenches -> (SUBSET Providers) \cup {NoApp}]
  BY DEF Init
<1>2. mkdir \in [Providers -> Workbenches \cup {Absent}]
  BY DEF Init
<1>3. drivers \subseteq Providers /\ secrets \subseteq Providers
  BY StorageAssumption DEF Init
<1>4. TypeOK
  BY <1>1, <1>2, <1>3, StorageAssumption DEF Init, TypeOK, Steps
<1>5. ClaimsHaveVolumes /\ PassRelies
  BY DEF Init, ClaimsHaveVolumes, PassRelies
<1> QED
  BY <1>4, <1>5 DEF StorageInv

\* The steps of the storage change the objects they name and nothing around them.
LEMMA StoringType ==
    ASSUME TypeOK, Storing
    PROVE  TypeOK'
<1>1. pc # "idle" /\ UNCHANGED <<environment, caches, changes, app>>
  BY DEF Storing, ProbeDriver, ProbeSecret, GetVolume, Setup, CreateVolume, GetClaim,
         CreateClaim, InPass, objects
<1>2. pass \in Pass /\ pass.w \in Workbenches
  BY <1>1, PassType
<1>3. \A step \in ProviderSteps : step \in Steps \ {"idle"}
  BY DEF Steps, ProviderSteps
<1>4. Worker'
  <2>1. CASE ProbeDriver
    BY <1>1, <1>2, <1>3, <2>1, GotoType, ProceedMoves DEF ProbeDriver, LeaveOut, ProviderSteps
  <2>2. CASE ProbeSecret
    BY <1>1, <1>2, <1>3, <2>2, GotoType, ProceedMoves DEF ProbeSecret, LeaveOut, ProviderSteps
  <2>3. CASE GetVolume
    BY <1>1, <1>2, <1>3, <2>3, GotoType, ProceedMoves DEF GetVolume, LeaveOut, ProviderSteps
  <2>4. CASE Setup
    BY <1>1, <1>2, <1>3, <2>4, GotoType, ProceedMoves DEF Setup, LeaveOut, ProviderSteps
  <2>5. CASE CreateVolume
    BY <1>1, <1>2, <1>3, <2>5, GotoType, ProceedMoves DEF CreateVolume, LeaveOut, ProviderSteps
  <2>6. CASE GetClaim
    BY <1>1, <1>2, <1>3, <2>6, GotoType, ProceedMoves DEF GetClaim, LeaveOut, ProviderSteps
  <2>7. CASE CreateClaim
    BY <1>1, <1>2, <1>3, <2>7, GotoType, ProceedMoves DEF CreateClaim, LeaveOut, ProviderSteps
  <2> QED
    BY <2>1, <2>2, <2>3, <2>4, <2>5, <2>6, <2>7 DEF Storing
<1>5. faults' \in 0 .. MaxFaults
  <2>1. UNCHANGED faults \/ Fails
    BY DEF Storing, ProbeDriver, ProbeSecret, GetVolume, Setup, CreateVolume, GetClaim,
           CreateClaim, Probes, Reads, Writes
  <2> QED
    BY <2>1, BudgetType
<1>6. made \subseteq made' /\ made' \subseteq Things
  <2>1. made' = made \/ \E p \in Providers : made' \in {made \cup {Volume(p)}, made \cup {Claim(p)}}
    BY DEF Storing, ProbeDriver, ProbeSecret, GetVolume, Setup, CreateVolume, GetClaim,
           CreateClaim, objects
  <2>2. \A p \in Providers : Volume(p) \in Things /\ Claim(p) \in Things
    BY DEF Things, Volume, Claim
  <2> QED
    BY <2>1, <2>2 DEF TypeOK
<1>7. mkdir' \in [Providers -> Workbenches \cup {Absent}]
  <2>1. mkdir' = mkdir \/ \E p \in Providers : mkdir' = [mkdir EXCEPT ![p] = pass.w]
    BY DEF Storing, ProbeDriver, ProbeSecret, GetVolume, Setup, CreateVolume, GetClaim,
           CreateClaim, objects
  <2> QED
    BY <1>2, <2>1 DEF TypeOK
<1> QED
  BY <1>1, <1>4, <1>5, <1>6, <1>7 DEF TypeOK, Worker, environment, caches

\* The steps towards the application, and those of the teardown.
LEMMA AppStepsType ==
    ASSUME TypeOK,
           \/ CollectMounts \/ CreateApp \/ ListExtraJobs \/ DeleteExtraJob
           \/ ListJobs \/ DeleteJobs \/ RemoveFinalizer
    PROVE  TypeOK'
<1>1. pc # "idle" /\ UNCHANGED <<storage, drivers, secrets, made, caches, changes>>
  BY DEF CollectMounts, CreateApp, ListExtraJobs, DeleteExtraJob, ListJobs, DeleteJobs,
         RemoveFinalizer, InPass, objects, environment
<1>2. /\ pass \in Pass /\ pass.w \in Workbenches /\ pass.storage \subseteq Providers
      /\ pass.doomed \subseteq Providers
  BY <1>1, PassType
<1>3. UNCHANGED faults \/ Fails
  BY DEF CollectMounts, CreateApp, ListExtraJobs, DeleteExtraJob, ListJobs, DeleteJobs,
         RemoveFinalizer, Reads, Writes
<1>4. CASE CollectMounts
  <2>1. PICK missed \in SUBSET Providers :
          Goto("createApp",
               [pass EXCEPT !.mounts = {p \in Enabled(pass.storage) \ missed : HasSecret(p)}])
    BY <1>2, <1>4 DEF CollectMounts, Enabled
  <2>2. [pass EXCEPT !.mounts = {p \in Enabled(pass.storage) \ missed : HasSecret(p)}] \in Pass
    BY <1>2 DEF Pass, Enabled
  <2>3. Worker'
    BY <2>1, <2>2, GotoType DEF Steps
  <2> QED
    BY <1>1, <1>3, <1>4, <2>3, BudgetType DEF CollectMounts, objects, InPass, environment, caches, TypeOK, Worker
<1>5. CASE CreateApp
  <2>1. app' = app \/ app' = [app EXCEPT ![pass.w] = pass.mounts]
    BY <1>5 DEF CreateApp
  <2>2. pass.mounts \in SUBSET Providers
    BY <1>2 DEF Pass
  <2>3. Worker'
    BY <1>2, <1>5 DEF CreateApp, TypeOK, Worker, Steps
  <2> QED
    BY <1>1, <1>2, <1>3, <1>5, <2>1, <2>2, <2>3, BudgetType
       DEF CreateApp, InPass, environment, caches, TypeOK, Worker
<1>6. CASE ListExtraJobs
  <2>1. [pass EXCEPT !.doomed = ListedDirectories(pass.w), !.behind = Behind] \in Pass
    BY <1>2 DEF Pass, ListedDirectories, Behind
  <2>2. Worker'
    BY <1>1, <1>6, <2>1, GotoType, ReturnType DEF ListExtraJobs, Steps
  <2> QED
    BY <1>1, <1>3, <1>6, <2>2, BudgetType DEF ListExtraJobs, objects, InPass, environment, caches, TypeOK, Worker
<1>7. CASE DeleteExtraJob
  <2>1. PICK p \in pass.doomed, ok \in BOOLEAN :
          /\ mkdir' \in {mkdir, [mkdir EXCEPT ![p] = Absent]}
          /\ IF ok /\ pass.doomed # {p}
             THEN Goto("deleteExtraJob", [pass EXCEPT !.doomed = @ \ {p}])
             ELSE Return(~ok)
    BY <1>7 DEF DeleteExtraJob
  <2>2. [pass EXCEPT !.doomed = @ \ {p}] \in Pass
    BY <1>2 DEF Pass
  <2>3. Worker'
    BY <1>1, <2>1, <2>2, GotoType, ReturnType DEF Steps
  <2> QED
    BY <1>1, <1>2, <1>3, <1>7, <2>1, <2>3, BudgetType DEF DeleteExtraJob, InPass, environment, caches, TypeOK, Worker
<1>8. CASE ListJobs
  <2>1. [pass EXCEPT !.behind = Behind] \in Pass
    BY <1>2 DEF Pass, Behind
  <2>2. Worker'
    BY <1>1, <1>2, <1>8, <2>1, GotoType, ReturnType DEF ListJobs, Steps
  <2> QED
    BY <1>1, <1>3, <1>8, <2>2, BudgetType DEF ListJobs, objects, InPass, environment, caches, TypeOK, Worker
<1>9. CASE DeleteJobs
  <2>1. Worker'
    BY <1>1, <1>9, ReturnType DEF DeleteJobs
  <2>2. app' \in {app, [app EXCEPT ![pass.w] = NoApp]}
    BY <1>9 DEF DeleteJobs
  <2>3. \A p \in Providers : mkdir'[p] \in {mkdir[p], Absent}
    BY <1>9 DEF DeleteJobs
  <2>4. mkdir' \in [Providers -> Workbenches \cup {Absent}]
    BY <1>9, <2>3 DEF DeleteJobs, TypeOK
  <2> QED
    BY <1>1, <1>2, <1>3, <1>9, <2>1, <2>2, <2>4, BudgetType DEF DeleteJobs, InPass, environment, caches, TypeOK, Worker
<1>10. CASE RemoveFinalizer
  <2>1. Worker'
    BY <1>1, <1>10, ReturnType DEF RemoveFinalizer
  <2>2. phase' \in {phase, [phase EXCEPT ![pass.w] = "gone"]}
    BY <1>10 DEF RemoveFinalizer
  <2>3. ready' \in {ready, [ready EXCEPT ![pass.w] = FALSE]}
    BY <1>10 DEF RemoveFinalizer
  <2> QED
    BY <1>1, <1>2, <1>3, <1>10, <2>1, <2>2, <2>3, BudgetType
       DEF RemoveFinalizer, objects, caches, TypeOK, Worker
<1> QED
  BY <1>4, <1>5, <1>6, <1>7, <1>8, <1>9, <1>10

LEMMA BeginPassType ==
    ASSUME TypeOK, NEW w \in Workbenches, BeginPass(w)
    PROVE  TypeOK' /\ pc' \in {"driver", "mounts", "listJobs", "idle"}
<1>1. storage[w] \subseteq Providers /\ ready[w] \in BOOLEAN
  BY StorageAssumption DEF TypeOK
<1>2. NewPass(w) \in Pass
  BY <1>1 DEF NewPass, Pass, Enabled
<1>3. FirstStep(w) \in {"driver", "mounts", "listJobs", "idle"}
  BY DEF FirstStep, NextStep, TypeOK
<1>4. Worker'
  BY <1>2, <1>3 DEF BeginPass, TypeOK, Worker, Steps, ProviderSteps
<1> QED
  BY <1>3, <1>4 DEF BeginPass, InPass, environment, caches, objects, TypeOK, Worker

LEMMA AroundType ==
    ASSUME TypeOK, Crash \/ Cluster
    PROVE  TypeOK'
<1>1. CASE Crash
  BY <1>1, BudgetType DEF Crash, environment, objects, caches, TypeOK, Steps
<1>2. CASE DeliverStorage
  BY <1>2 DEF DeliverStorage, environment, objects, caches, Elsewhere, TypeOK
<1>3. CASE Administer
  <2>1. changes' \in 0 .. MaxChanges
    BY <1>3, StorageAssumption DEF Administer, TypeOK
  <2>2. (UNION Storages) \ {"local"} \subseteq Providers
    BY StorageAssumption
  <2>3. drivers' \subseteq Providers /\ secrets' \subseteq Providers
    BY <1>3, <2>2 DEF Administer, TypeOK
  <2> QED
    BY <1>3, <2>1, <2>3 DEF Administer, objects, caches, Elsewhere, TypeOK
<1>4. CASE \E p \in Providers : DirectoryJobExpires(p)
  BY <1>4 DEF DirectoryJobExpires, environment, caches, Elsewhere, TypeOK
<1>5. CASE \E w \in Workbenches : ServerBecomesReady(w)
  BY <1>5 DEF ServerBecomesReady, objects, caches, Elsewhere, TypeOK
<1>6. CASE \E w \in Workbenches : EditStorage(w)
  <2>1. changes' \in 0 .. MaxChanges
    BY <1>6, StorageAssumption DEF EditStorage, TypeOK
  <2> QED
    BY <1>6, <2>1 DEF EditStorage, objects, caches, Elsewhere, TypeOK
<1>7. CASE \E w \in Workbenches : DeleteWorkbench(w)
  BY <1>7 DEF DeleteWorkbench, objects, caches, Elsewhere, TypeOK
<1>8. CASE DeliverJobs
  BY <1>8 DEF DeliverJobs, environment, objects, Elsewhere, TypeOK
<1>9. CASE \E w \in Workbenches : CollectApp(w)
  BY <1>9 DEF CollectApp, environment, caches, Elsewhere, TypeOK
<1> QED
  BY <1>1, <1>2, <1>3, <1>4, <1>5, <1>6, <1>7, <1>8, <1>9 DEF Cluster

LEMMA NextType ==
    ASSUME TypeOK, [Next]_vars
    PROVE  TypeOK'
<1>1. CASE UNCHANGED vars
  BY <1>1 DEF vars, environment, objects, caches, TypeOK
<1>2. CASE Next
  BY <1>2, StoringType, AppStepsType, BeginPassType, AroundType DEF Next, Reconcile
<1> QED
  BY <1>1, <1>2

-----------------------------------------------------------------------------
(* What a pass relies on. *)

\* After a storage is done nothing is relied on.
LEMMA NothingRelied ==
    ASSUME pc' \in {"driver", "mounts", "idle", "secret", "volume", "setup", "createApp",
                    "listExtraJobs", "listJobs", "deleteJobs"}
    PROVE  PassRelies'
BY DEF PassRelies

\* The storage at hand stays at hand along its steps.
LEMMA StaysAtHand ==
    ASSUME NEW p \in Providers, UNCHANGED pass
    PROVE  AtHand(p)' <=> AtHand(p)
BY DEF AtHand

LEMMA StoringInv ==
    ASSUME StorageInv, Storing
    PROVE  ClaimsHaveVolumes' /\ PassRelies'
<1> USE DEF StorageInv
<1>1. pc # "idle" /\ pass.w \in Workbenches
  BY PassType DEF Storing, ProbeDriver, ProbeSecret, GetVolume, Setup, CreateVolume,
                  GetClaim, CreateClaim
<1>2. CASE ProbeDriver \/ ProbeSecret
  <2>1. pc' \in {"driver", "mounts", "idle", "secret", "volume"}
    BY <1>1, <1>2, ProceedMoves DEF ProbeDriver, ProbeSecret, LeaveOut, Goto
  <2>2. made' = made
    BY <1>2 DEF ProbeDriver, ProbeSecret, objects
  <2> QED
    BY <2>1, <2>2, NothingRelied DEF ClaimsHaveVolumes
<1>3. CASE GetVolume
  <2>1. UNCHANGED <<made, mkdir>>
    BY <1>3 DEF GetVolume, objects
  <2>2. PICK p \in Providers, ok \in BOOLEAN :
          /\ AtHand(p)
          /\ CASE ~ok -> LeaveOut(p)
               [] ok /\ Volume(p) \in seen -> Goto("claim", pass)
               [] OTHER -> Goto(IF p \in WithDirectory THEN "setup" ELSE "createVolume", pass)
    BY <1>3 DEF GetVolume
  <2>3. CASE ~ok
    BY <1>1, <2>1, <2>2, <2>3, ProceedMoves, NothingRelied DEF LeaveOut, ClaimsHaveVolumes
  <2>4. CASE ok /\ Volume(p) \in seen
    <3>1. pc' = "claim" /\ pass' = pass
      BY <2>2, <2>4 DEF Goto
    <3>2. Volume(p) \in made
      BY <2>4 DEF TypeOK
    <3> QED
      BY <2>1, <2>2, <3>1, <3>2, AtHandUnique, StaysAtHand DEF PassRelies, ClaimsHaveVolumes
  <2>5. CASE ok /\ Volume(p) \notin seen
    <3>1. /\ pc' = IF p \in WithDirectory THEN "setup" ELSE "createVolume"
          /\ pass' = pass
      BY <2>2, <2>5 DEF Goto
    <3>2. \A q \in WithDirectory : pc' = "createVolume" => ~AtHand(q)'
      BY <2>2, <3>1, AtHandUnique, StaysAtHand DEF WithDirectory, Providers
    <3> QED
      BY <2>1, <3>1, <3>2 DEF PassRelies, ClaimsHaveVolumes
  <2> QED
    BY <2>3, <2>4, <2>5
<1>4. CASE Setup
  <2>1. UNCHANGED made
    BY <1>4 DEF Setup
  <2>2. PICK p \in Providers, ok \in BOOLEAN, applied \in BOOLEAN :
          /\ AtHand(p)
          /\ ok => applied
          /\ mkdir' = IF applied THEN [mkdir EXCEPT ![p] = pass.w] ELSE mkdir
          /\ IF ok THEN Goto("createVolume", pass) ELSE LeaveOut(p)
    BY <1>4 DEF Setup, Writes
  <2>3. CASE ~ok
    BY <1>1, <2>1, <2>2, <2>3, ProceedMoves, NothingRelied DEF LeaveOut, ClaimsHaveVolumes
  <2>4. CASE ok
    <3>1. pc' = "createVolume" /\ pass' = pass
      BY <2>2, <2>4 DEF Goto
    <3>2. mkdir'[p] = pass.w
      BY <2>2, <2>4 DEF TypeOK
    <3>3. \A q \in WithDirectory : AtHand(q)' => q = p
      BY <2>2, <3>1, AtHandUnique, StaysAtHand DEF WithDirectory, Providers
    <3> QED
      BY <2>1, <3>1, <3>2, <3>3 DEF PassRelies, ClaimsHaveVolumes
  <2> QED
    BY <2>3, <2>4
<1>5. CASE CreateVolume
  <2>1. PICK p \in Providers, ok \in BOOLEAN, applied \in BOOLEAN :
          /\ AtHand(p)
          /\ ok => applied
          /\ made' = IF applied THEN made \cup {Volume(p)} ELSE made
          /\ IF ok THEN Goto("claim", pass) ELSE LeaveOut(p)
    BY <1>5 DEF CreateVolume, Writes
  <2>2. ClaimsHaveVolumes'
    BY <2>1 DEF ClaimsHaveVolumes, Claim, Volume
  <2>3. CASE ~ok
    BY <1>1, <1>5, <2>1, <2>2, <2>3, ProceedMoves, NothingRelied DEF LeaveOut
  <2>4. CASE ok
    <3>1. pc' = "claim" /\ pass' = pass /\ Volume(p) \in made'
      BY <2>1, <2>4 DEF Goto
    <3> QED
      BY <2>1, <2>2, <3>1, AtHandUnique, StaysAtHand DEF PassRelies
  <2> QED
    BY <2>3, <2>4
<1>6. CASE GetClaim
  <2>1. UNCHANGED <<made, mkdir>>
    BY <1>6 DEF GetClaim, objects
  <2>2. PICK p \in Providers, ok \in BOOLEAN :
          /\ AtHand(p)
          /\ CASE ~ok -> LeaveOut(p)
               [] ok /\ Claim(p) \in seen -> Proceed(p)
               [] OTHER -> Goto("createClaim", pass)
    BY <1>6 DEF GetClaim
  <2>3. CASE Proceed(p)
    BY <1>1, <2>1, <2>3, ProceedMoves, NothingRelied DEF ClaimsHaveVolumes
  <2>4. CASE Goto("createClaim", pass)
    <3>1. pc' = "createClaim" /\ pass' = pass
      BY <2>4 DEF Goto
    <3> QED
      BY <1>6, <2>1, <3>1, StaysAtHand DEF GetClaim, PassRelies, ClaimsHaveVolumes
  <2> QED
    BY <2>2, <2>3, <2>4 DEF LeaveOut
<1>7. CASE CreateClaim
  <2>1. PICK p \in Providers, applied \in BOOLEAN :
          /\ AtHand(p)
          /\ made' = IF applied THEN made \cup {Claim(p)} ELSE made
          /\ Proceed(p)
    BY <1>7 DEF CreateClaim, LeaveOut
  <2>2. Volume(p) \in made
    BY <1>7, <2>1 DEF CreateClaim, PassRelies
  <2>3. \A q \in Providers : Claim(q) = Claim(p) => q = p
    BY DEF Claim
  <2>4. ClaimsHaveVolumes'
    BY <2>1, <2>2, <2>3 DEF ClaimsHaveVolumes
  <2> QED
    BY <1>1, <2>1, <2>4, ProceedMoves, NothingRelied
<1> QED
  BY <1>2, <1>3, <1>4, <1>5, <1>6, <1>7 DEF Storing

\* The other steps make no volume and no claim; what they list under the label of the
\* pass's workbench has that label where the list is up to date.
LEMMA OtherStepsInv ==
    ASSUME StorageInv,
           \/ \E w \in Workbenches : BeginPass(w)
           \/ CollectMounts \/ CreateApp \/ ListExtraJobs \/ DeleteExtraJob
           \/ ListJobs \/ DeleteJobs \/ RemoveFinalizer \/ Crash
    PROVE  ClaimsHaveVolumes' /\ PassRelies'
<1> USE DEF StorageInv
<1>1. UNCHANGED made
  BY DEF BeginPass, CollectMounts, CreateApp, ListExtraJobs, DeleteExtraJob, ListJobs,
         DeleteJobs, RemoveFinalizer, Crash, objects
<1>2. ClaimsHaveVolumes'
  BY <1>1 DEF ClaimsHaveVolumes
<1>3. CASE \/ \E w \in Workbenches : BeginPass(w)
           \/ CollectMounts \/ CreateApp \/ DeleteJobs \/ RemoveFinalizer \/ Crash
  <2>1. pc' \in {"driver", "mounts", "idle", "createApp", "listExtraJobs", "listJobs"}
    BY <1>3, BeginPassType DEF CollectMounts, CreateApp, DeleteJobs,
       RemoveFinalizer, Crash, Goto, Return
  <2> QED
    BY <1>2, <2>1, NothingRelied
<1>4. CASE ListExtraJobs
  <2>1. pass \in Pass /\ mkdir' = mkdir
    BY <1>4, PassType DEF ListExtraJobs, objects
  <2>2. \/ pc' = "idle"
        \/ /\ pc' = "deleteExtraJob"
           /\ pass' = [pass EXCEPT !.doomed = ListedDirectories(pass.w), !.behind = Behind]
    BY <1>4 DEF ListExtraJobs, Goto, Return
  <2>3. CASE pc' = "deleteExtraJob"
    <3>1. /\ pass'.doomed = ListedDirectories(pass.w)
          /\ pass'.behind = Behind /\ pass'.w = pass.w
      BY <2>1, <2>2, <2>3 DEF Pass
    <3>2. \A p \in ListedDirectories(pass.w) \ Behind : mkdir[p] = pass.w
      BY DEF ListedDirectories, Behind
    <3> QED
      BY <1>2, <2>1, <2>3, <3>1, <3>2 DEF PassRelies
  <2> QED
    BY <1>2, <2>2, <2>3, NothingRelied
<1>5. CASE DeleteExtraJob
  <2>1. pass \in Pass /\ pc = "deleteExtraJob"
    BY <1>5, PassType DEF DeleteExtraJob
  <2>2. PICK p \in pass.doomed :
          /\ mkdir' \in {mkdir, [mkdir EXCEPT ![p] = Absent]}
          /\ \/ pc' = "idle"
             \/ /\ pc' = "deleteExtraJob"
                /\ pass' = [pass EXCEPT !.doomed = @ \ {p}]
    BY <1>5 DEF DeleteExtraJob, Goto, Return
  <2>3. CASE pc' = "deleteExtraJob"
    <3>1. pass'.doomed = pass.doomed \ {p} /\ pass'.w = pass.w /\ pass'.behind = pass.behind
      BY <2>1, <2>2, <2>3 DEF Pass
    <3>2. \A q \in pass.doomed : mkdir'[q] \in {mkdir[q], Absent}
      BY <2>1, <2>2 DEF TypeOK, Pass
    <3> QED
      BY <1>2, <2>1, <2>3, <3>1, <3>2 DEF PassRelies
  <2> QED
    BY <1>2, <2>2, <2>3, NothingRelied
<1>6. CASE ListJobs
  <2>1. pass \in Pass /\ mkdir' = mkdir
    BY <1>6, PassType DEF ListJobs, objects
  <2>2. \/ pc' \in {"idle", "deleteJobs"}
        \/ /\ pc' = "removeFinalizer"
           /\ pass' = [pass EXCEPT !.behind = Behind]
           /\ ListedDirectories(pass.w) = {}
    BY <1>6 DEF ListJobs, Goto, Return
  <2>3. CASE pc' = "removeFinalizer"
    <3>1. pass'.behind = Behind /\ pass'.w = pass.w /\ ListedDirectories(pass.w) = {}
      BY <2>1, <2>2, <2>3 DEF Pass
    <3>2. \A p \in Providers \ Behind : mkdir[p] # pass.w
      BY <3>1 DEF ListedDirectories, Behind
    <3> QED
      BY <1>2, <2>1, <2>3, <3>1, <3>2 DEF PassRelies
  <2> QED
    BY <1>2, <2>2, <2>3, NothingRelied
<1> QED
  BY <1>3, <1>4, <1>5, <1>6

LEMMA ClusterInv ==
    ASSUME StorageInv, Cluster
    PROVE  ClaimsHaveVolumes' /\ PassRelies'
<1> USE DEF StorageInv
<1>1. UNCHANGED <<made, pc, pass>>
  BY DEF Cluster, DeliverStorage, DeliverJobs, CollectApp, Administer, DirectoryJobExpires, ServerBecomesReady,
         EditStorage, DeleteWorkbench, Elsewhere, objects
<1>2. mkdir' = mkdir \/ \E p \in Providers :
        ~(pc = "createVolume" /\ AtHand(p)) /\ mkdir' = [mkdir EXCEPT ![p] = Absent]
  BY DEF Cluster, DeliverStorage, DeliverJobs, CollectApp, Administer, DirectoryJobExpires, ServerBecomesReady,
         EditStorage, DeleteWorkbench, objects
<1>3. \A p \in Providers : AtHand(p)' <=> AtHand(p)
  BY <1>1, StaysAtHand
<1>4. \A p \in WithDirectory : pc = "createVolume" /\ AtHand(p) => mkdir'[p] = mkdir[p]
  BY <1>2 DEF TypeOK, WithDirectory, Providers
<1>5. \A p \in Providers : mkdir'[p] \in {mkdir[p], Absent}
  BY <1>2 DEF TypeOK
<1>6. /\ pc = "deleteExtraJob" => pass.doomed \subseteq Providers
      /\ pc = "removeFinalizer" => pass.w # Absent
  BY PassType, StorageAssumption
<1>7. WithDirectory \subseteq Providers
  BY DEF WithDirectory, Providers
<1> QED
  BY <1>1, <1>3, <1>4, <1>5, <1>6, <1>7 DEF ClaimsHaveVolumes, PassRelies

LEMMA NextInv ==
    ASSUME StorageInv, [Next]_vars
    PROVE  StorageInv'
<1>1. TypeOK'
  BY NextType DEF StorageInv
<1>2. CASE UNCHANGED vars
  <2>1. ClaimsHaveVolumes' /\ PassRelies'
    BY <1>2 DEF StorageInv, vars, objects, ClaimsHaveVolumes, PassRelies, AtHand
  <2> QED
    BY <1>1, <2>1 DEF StorageInv
<1>3. CASE Next
  BY <1>1, <1>3, StoringInv, OtherStepsInv, ClusterInv DEF Next, Reconcile, StorageInv
<1> QED
  BY <1>2, <1>3

\* The invariant of the storage: at every moment the claims that exist have their
\* volumes, and a pass that is about to make a claim, a volume or a deletion may
\* rely on what it has done or found before.
THEOREM StorageIsInductive == Spec => []StorageInv
<1>1. Init => StorageInv
  BY InitInv
<1>2. StorageInv /\ [Next]_vars => StorageInv'
  BY NextInv
<1> QED
  BY <1>1, <1>2, PTL DEF Spec

-----------------------------------------------------------------------------
(* What follows of the steps. *)

\* Only two actions touch the volumes and claims of the API server.
LEMMA WhoMakes ==
    ASSUME Next, made' # made
    PROVE  CreateVolume \/ CreateClaim
<1>1. CASE Cluster
  BY <1>1 DEF Cluster, DeliverStorage, DeliverJobs, CollectApp, Administer, DirectoryJobExpires,
     ServerBecomesReady, EditStorage, DeleteWorkbench, objects
<1>2. CASE Crash
  BY <1>2 DEF Crash, objects
<1>3. CASE \E w \in Workbenches : BeginPass(w)
  BY <1>3 DEF BeginPass, objects
<1>4. CASE ProbeDriver \/ ProbeSecret
  BY <1>4 DEF ProbeDriver, ProbeSecret, objects
<1>5. CASE GetVolume \/ GetClaim
  BY <1>5 DEF GetVolume, GetClaim, objects
<1>6. CASE Setup
  BY <1>6 DEF Setup
<1>7. CASE CollectMounts \/ ListExtraJobs \/ ListJobs \/ RemoveFinalizer
  BY <1>7 DEF CollectMounts, ListExtraJobs, ListJobs, RemoveFinalizer, objects
<1>8. CASE CreateApp \/ DeleteExtraJob \/ DeleteJobs
  BY <1>8 DEF CreateApp, DeleteExtraJob, DeleteJobs
<1> QED
  BY <1>1, <1>2, <1>3, <1>4, <1>5, <1>6, <1>7, <1>8 DEF Next, Reconcile, Storing

\* Three actions of a pass touch the directory jobs.
LEMMA WhoTouchesDirectories ==
    ASSUME Next, PassMoves, StorageInv
    PROVE  Setup \/ DeleteExtraJob \/ DeleteJobs \/ mkdir' = mkdir
<1>1. CASE Cluster
  <2>1. UNCHANGED <<pc, pass>>
    BY <1>1 DEF Cluster, DeliverStorage, DeliverJobs, CollectApp, Administer, DirectoryJobExpires,
       ServerBecomesReady, EditStorage, DeleteWorkbench, Elsewhere
  <2> QED
    BY <2>1 DEF PassMoves
<1>2. CASE Crash
  BY <1>2 DEF Crash, objects
<1>3. CASE \E w \in Workbenches : BeginPass(w)
  BY <1>3 DEF BeginPass, objects
<1>4. CASE ProbeDriver \/ ProbeSecret
  BY <1>4 DEF ProbeDriver, ProbeSecret, objects
<1>5. CASE GetVolume \/ GetClaim
  BY <1>5 DEF GetVolume, GetClaim, objects
<1>6. CASE CreateVolume \/ CreateClaim
  BY <1>6 DEF CreateVolume, CreateClaim
<1>7. CASE CollectMounts \/ ListExtraJobs \/ ListJobs \/ RemoveFinalizer
  BY <1>7 DEF CollectMounts, ListExtraJobs, ListJobs, RemoveFinalizer, objects
<1>8. CASE CreateApp
  BY <1>8 DEF CreateApp
<1> QED
  BY <1>1, <1>2, <1>3, <1>4, <1>5, <1>6, <1>7, <1>8 DEF Next, Reconcile, Storing

\* processStorageProvider makes a volume with a directory only after Setup made the
\* directory's job in the same pass.
THEOREM DirectoriesComeFirst == Spec => DirectoryFirst
<1>1. ASSUME StorageInv, [Next]_vars, NEW p \in WithDirectory,
             Volume(p) \notin made, Volume(p) \in made'
      PROVE  PassMoves /\ mkdir[p] = pass.w
  <2>1. CreateVolume \/ CreateClaim
    BY <1>1, WhoMakes DEF vars, objects
  <2>2. ~CreateClaim
    <3>1. ASSUME CreateClaim
          PROVE  \E q \in Providers : made' \subseteq made \cup {Claim(q)}
      BY <3>1 DEF CreateClaim
    <3>2. \A q \in Providers : Claim(q) # Volume(p)
      BY DEF Claim, Volume
    <3> QED
      BY <1>1, <3>1, <3>2
  <2>3. PICK q \in Providers, ok \in BOOLEAN, applied \in BOOLEAN :
          /\ AtHand(q)
          /\ made' = IF applied THEN made \cup {Volume(q)} ELSE made
          /\ IF ok THEN Goto("claim", pass) ELSE LeaveOut(q)
    BY <2>1, <2>2 DEF CreateVolume
  <2>4. q = p
    BY <1>1, <2>3 DEF Volume
  <2>5. pc = "createVolume"
    BY <2>1, <2>2 DEF CreateVolume
  <2>6. mkdir[p] = pass.w
    BY <1>1, <2>3, <2>4, <2>5 DEF StorageInv, PassRelies
  <2>7. pc' # pc
    BY <1>1, <2>3, <2>5, ProceedMoves DEF StorageInv, LeaveOut, Goto
  <2> QED
    BY <2>5, <2>6, <2>7 DEF PassMoves
<1>2. StorageInv /\ [Next]_vars =>
        [\A p \in WithDirectory : Volume(p) \notin made /\ Volume(p) \in made' =>
            PassMoves /\ mkdir[p] = pass.w]_vars
  BY <1>1
<1> QED
  BY <1>2, StorageIsInductive, PTL DEF Spec, DirectoryFirst

\* A pass deletes a directory job made on behalf of another workbench only where the
\* list of its sweep, which findJobs took from the cache, was behind.
THEOREM DirectoriesOfOthersStay == Spec => OthersDirectories
<1>1. ASSUME StorageInv, Next, PassMoves, NEW p \in Providers, mkdir'[p] = Absent
      PROVE  mkdir[p] \in {Absent, pass.w} \/ p \in pass.behind
  <2>1. pass.w \in Workbenches /\ pass.w # Absent /\ pass.doomed \subseteq Providers
    BY <1>1, PassType, StorageAssumption DEF PassMoves, StorageInv
  <2>2. CASE Setup
    BY <1>1, <2>1, <2>2 DEF Setup, StorageInv, TypeOK
  <2>3. CASE DeleteExtraJob
    BY <1>1, <2>1, <2>3 DEF DeleteExtraJob, StorageInv, PassRelies, TypeOK
  <2>4. CASE DeleteJobs
    BY <1>1, <2>1, <2>4 DEF DeleteJobs, LabelledDirectories
  <2>5. CASE mkdir' = mkdir
    BY <1>1, <2>5
  <2>6. Setup \/ DeleteExtraJob \/ DeleteJobs \/ mkdir' = mkdir
    BY <1>1, WhoTouchesDirectories
  <2> QED
    BY <2>2, <2>3, <2>4, <2>5, <2>6
<1>2. StorageInv /\ [Next]_vars =>
        [PassMoves => \A p \in Providers :
            mkdir'[p] = Absent => mkdir[p] \in {Absent, pass.w} \/ p \in pass.behind]_vars
  BY <1>1
<1> QED
  BY <1>2, StorageIsInductive, PTL DEF Spec, OthersDirectories

\* Only one action lets a workbench go.
LEMMA WhoLetsGo ==
    ASSUME Next, NEW w \in Workbenches, phase[w] # "gone", phase'[w] = "gone", TypeOK
    PROVE  RemoveFinalizer
<1>1. CASE Storing
  BY <1>1 DEF Storing, ProbeDriver, ProbeSecret, GetVolume, Setup, CreateVolume, GetClaim,
     CreateClaim, InPass, environment
<1>2. CASE CollectMounts \/ CreateApp \/ ListExtraJobs \/ DeleteExtraJob
  BY <1>2 DEF CollectMounts, CreateApp, ListExtraJobs, DeleteExtraJob, InPass, environment
<1>3. CASE ListJobs \/ DeleteJobs
  BY <1>3 DEF ListJobs, DeleteJobs, InPass, environment
<1>4. CASE \E v \in Workbenches : BeginPass(v)
  BY <1>4 DEF BeginPass, InPass, environment
<1>5. CASE Crash
  BY <1>5 DEF Crash, environment
<1>6. CASE DeliverStorage \/ DeliverJobs \/ Administer
  BY <1>6 DEF DeliverStorage, DeliverJobs, Administer, environment
<1>7. CASE \E p \in Providers : DirectoryJobExpires(p)
  BY <1>7 DEF DirectoryJobExpires, environment
<1>8. CASE \E v \in Workbenches : ServerBecomesReady(v) \/ EditStorage(v) \/ CollectApp(v)
  BY <1>8 DEF ServerBecomesReady, EditStorage, CollectApp, environment
<1>9. CASE \E v \in Workbenches : DeleteWorkbench(v)
  BY <1>9 DEF DeleteWorkbench, TypeOK
<1> QED
  BY <1>1, <1>2, <1>3, <1>4, <1>5, <1>6, <1>7, <1>8, <1>9 DEF Next, Reconcile, Cluster

\* deleteExternalResources lets a workbench go with a directory job of its own only
\* where the list of jobs that it got, from the cache, was behind.
THEOREM DirectoriesGoWithTheirWorkbench == Spec => OwnDirectoriesGo
<1>1. ASSUME StorageInv, [Next]_vars, NEW w \in Workbenches,
             phase[w] # "gone", phase'[w] = "gone"
      PROVE  LabelledDirectories(w) \subseteq pass.behind
  <2>1. TypeOK
    BY <1>1 DEF StorageInv
  <2>2. RemoveFinalizer
    BY <1>1, <2>1, WhoLetsGo DEF vars, environment
  <2>3. pc = "removeFinalizer" /\ w = pass.w
    BY <1>1, <2>1, <2>2 DEF RemoveFinalizer, TypeOK
  <2>4. \A p \in Providers \ pass.behind : mkdir[p] # w
    BY <1>1, <2>3 DEF StorageInv, PassRelies
  <2> QED
    BY <2>4 DEF LabelledDirectories
<1>2. StorageInv /\ [Next]_vars =>
        [\A w \in Workbenches : phase[w] # "gone" /\ phase'[w] = "gone" =>
            LabelledDirectories(w) \subseteq pass.behind]_vars
  BY <1>1
<1> QED
  BY <1>2, StorageIsInductive, PTL DEF Spec, OwnDirectoriesGo
=============================================================================
