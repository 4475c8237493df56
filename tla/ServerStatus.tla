----------------------------- MODULE ServerStatus -----------------------------
(***************************************************************************)
(* status.serverDeployment: what a pass makes of the server's deployment   *)
(* (UpdateStatusFromDeployment) and of its newest pod (updateServerPodHealth*)
(* and what it calls), while the deployment rolls out, its two containers  *)
(* start, fail their probes and restart, and time passes.                  *)
(*                                                                         *)
(* Simplifications: a pass reads and writes in one step; messages, the     *)
(* revision and the replica counts are left out; a pod's containers are    *)
(* first reported together.  WorkbenchReconciler has the rest of the pass, *)
(* its conflicts and its caches.  The objects of the cluster behave as     *)
(* Kubernetes documents them.  An operator marked "Mutant" is a plausible  *)
(* mistake in the definition that follows it; no other definition uses it. *)
(***************************************************************************)
EXTENDS Naturals, Sequences, SequencesExt

CONSTANTS
    Refusals,      \* TRUE: the cluster may refuse to create pods
    MaxRollouts,   \* bound on new versions of the deployment
    MaxPods,       \* bound on the pods made
    MaxFailures    \* bound on the failures of a probe or a container

ASSUME StatusAssumption ==
    /\ Refusals \in BOOLEAN
    /\ MaxRollouts \in Nat /\ MaxPods \in Nat /\ MaxFailures \in Nat

VARIABLES
    rollout,      \* the version the deployment is to run
    refused,      \* TRUE: the cluster refuses to create its pods
    pods,         \* its pods, the newest last
    made,         \* the number of pods made
    conditions,   \* status.conditions of the deployment, in their order
    status,       \* status.serverDeployment of the workbench
    queued,       \* the workqueue holds the workbench
    failures

vars == <<rollout, refused, pods, made, conditions, status, queued, failures>>

-----------------------------------------------------------------------------
(* Pods. *)

\* How long a container has run: less than two minutes, less than five, more.
Ages == 0 .. 2
LessThanTwoMinutes(c) == c.age = 0
LessThanFiveMinutes(c) == c.age < 2

\* "none" is a container that reports no status, or one without a state.
Container == [state    : {"none", "waiting", "running", "terminated"},
              ready    : BOOLEAN,
              restarts : 0 .. MaxFailures,
              age      : Ages]
NewContainer == [state |-> "none", ready |-> FALSE, restarts |-> 0, age |-> 0]

\* init: xpra-server-bind, a sidecar; server: xpra-server.
Pod == [version : 0 .. MaxRollouts, deleting : BOOLEAN,
        init : Container, server : Container]
NewPod == [version |-> rollout, deleting |-> FALSE,
           init |-> NewContainer, server |-> NewContainer]

\* Readiness as Kubernetes has it.
PodReady(p) == ~p.deleting /\ p.init.ready /\ p.server.ready

-----------------------------------------------------------------------------
(* updateServerPodHealth. *)

HealthStates == {"Waiting", "Starting", "Ready", "Failing", "Restarting",
                 "Terminating", "Terminated", "Unknown"}
Health == [status : HealthStates, ready : BOOLEAN, restarts : 0 .. MaxFailures]
Unknown == [status |-> "Unknown", ready |-> FALSE, restarts |-> 0]
Terminating == [status |-> "Terminating", ready |-> FALSE, restarts |-> 0]

RunningHealth(c) ==
    LET restarted == c.restarts > 0 /\ LessThanFiveMinutes(c)
        starting == c.restarts = 0 /\ LessThanTwoMinutes(c)
    IN CASE restarted                          -> "Restarting"
         [] ~restarted /\ c.ready              -> "Ready"
         [] ~restarted /\ ~c.ready /\ starting -> "Starting"
         [] OTHER                              -> "Failing"

\* Mutant: the state is reported as it is.
ContainerHealthRaw(c) == [status |-> c.state, ready |-> c.ready, restarts |-> c.restarts]

\* determineContainerHealth
ContainerHealth(c) ==
    [status |-> CASE c.state = "waiting"    -> "Waiting"
                  [] c.state = "terminated" -> "Terminated"
                  [] c.state = "running"    -> RunningHealth(c)
                  [] c.state = "none"       -> "Unknown",
     ready |-> c.ready, restarts |-> c.restarts]

\* The health of a server whose sidecar is not ready.
SidecarHealth(c) ==
    [status |-> CASE c.state = "waiting"    -> "Waiting"
                  [] c.state = "running"    -> "Starting"
                  [] c.state = "terminated" -> "Failing"
                  [] c.state = "none"       -> "Unknown",
     ready |-> FALSE, restarts |-> c.restarts]

\* Mutant: the sidecar's readiness is not looked at.
ServerOnlyHealth(p) == ContainerHealth(p.server)

\* determineServerPodHealth
ServerPodHealth(p) ==
    IF p.init.ready THEN ContainerHealth(p.server) ELSE SidecarHealth(p.init)

\* The newest pod tells.
PodHealth ==
    CASE pods = <<>>                        -> Unknown
      [] pods # <<>> /\ Last(pods).deleting -> Terminating
      [] OTHER                              -> ServerPodHealth(Last(pods))

-----------------------------------------------------------------------------
(* UpdateStatusFromDeployment. *)

Condition == [type : {"Available", "Progressing", "ReplicaFailure"},
              status : BOOLEAN,
              reason : {"none", "NewReplicaSetCreated", "ReplicaSetUpdated",
                        "NewReplicaSetAvailable", "ProgressDeadlineExceeded"}]

\* The first condition tells.  The case "ReplicaFailure" is empty, and a case of
\* Go does not fall through to the next: the status is then the empty string.
ServerState ==
    IF conditions = <<>> THEN "Progressing"
    ELSE LET c == Head(conditions)
         IN CASE c.type = "Available"       -> "Running"
              [] c.type = "ReplicaFailure"  -> ""
              [] c.type = "Progressing" /\ ~c.status -> "Failed"
              [] c.type = "Progressing" /\ c.status /\ c.reason = "NewReplicaSetAvailable" -> "Running"
              [] OTHER                      -> "Progressing"

\* What the API server accepts of the server's status (an enumeration).
ServerStates == {"Running", "Progressing", "Failed"}

NoHealth == [status |-> "none", ready |-> FALSE, restarts |-> 0]
NoStatus == [server |-> "none", pod |-> NoHealth]

-----------------------------------------------------------------------------
\* Mutant: a pass that finds the server not ready is not queued again.
LookOnce ==
    /\ queued
    /\ LET seen == [server |-> ServerState, pod |-> PodHealth]
       IN /\ status' = IF seen.server \in ServerStates THEN seen ELSE status
          /\ queued' = (status' # status)
    /\ UNCHANGED <<rollout, refused, pods, made, conditions, failures>>

\* A pass: the status is written whole or, if the API server refuses it, not at
\* all, which is only logged; a change of it is an event for the workbench; and
\* a server that is not ready, as the pass has it in memory, is looked at again.
Look ==
    /\ queued
    /\ LET seen == [server |-> ServerState, pod |-> PodHealth]
       IN /\ status' = IF seen.server \in ServerStates THEN seen ELSE status
          /\ queued' = (status' # status \/ ~seen.pod.ready)
    /\ UNCHANGED <<rollout, refused, pods, made, conditions, failures>>

-----------------------------------------------------------------------------
(* The deployment controller. *)

Available == \E i \in DOMAIN pods : PodReady(pods[i])
Complete == \E i \in DOMAIN pods : PodReady(pods[i]) /\ pods[i].version = rollout

\* There is one condition of a type at most.
Without(cs, type) ==
    IF \E i \in DOMAIN cs : cs[i].type = type
    THEN RemoveAt(cs, CHOOSE i \in DOMAIN cs : cs[i].type = type)
    ELSE cs

\* A condition that changes goes last; one that does not keeps its place.
WithCondition(cs, c) ==
    IF Contains(cs, c) THEN cs ELSE Append(Without(cs, c.type), c)

Progress(status_, reason_) == [type |-> "Progressing", status |-> status_, reason |-> reason_]
IsComplete == Contains(conditions, Progress(TRUE, "NewReplicaSetAvailable"))
TimedOut == Contains(conditions, Progress(FALSE, "ProgressDeadlineExceeded"))

\* late: the progress deadline has passed.
Progressing(late) ==
    CASE Complete \/ IsComplete -> Progress(TRUE, "NewReplicaSetAvailable")
      [] ~(Complete \/ IsComplete) /\ (late \/ TimedOut) ->
           Progress(FALSE, "ProgressDeadlineExceeded")
      [] OTHER -> Progress(TRUE, "ReplicaSetUpdated")

\* The conditions, one type after the other.  The deployment is watched.
SyncDeployment ==
    /\ conditions # <<>>
    /\ \E late \in BOOLEAN,
          available \in {WithCondition(conditions,
              [type |-> "Available", status |-> Available, reason |-> "none"])} :
         \E progressed \in {WithCondition(available, Progressing(late))} :
            conditions' =
                IF refused
                THEN WithCondition(progressed,
                         [type |-> "ReplicaFailure", status |-> TRUE, reason |-> "none"])
                ELSE Without(progressed, "ReplicaFailure")
    /\ conditions' # conditions
    /\ queued' = TRUE
    /\ UNCHANGED <<rollout, refused, pods, made, status, failures>>

\* The first replica set, and then one for each version.
CreateReplicaSet ==
    /\ conditions = <<>>
    /\ conditions' = <<Progress(TRUE, "NewReplicaSetCreated")>>
    /\ queued' = TRUE
    /\ UNCHANGED <<rollout, refused, pods, made, status, failures>>

RollOut ==
    /\ conditions # <<>> /\ rollout < MaxRollouts
    /\ rollout' = rollout + 1
    /\ conditions' = WithCondition(conditions, Progress(TRUE, "NewReplicaSetCreated"))
    /\ queued' = TRUE
    /\ UNCHANGED <<refused, pods, made, status, failures>>

PodMissing == \A i \in DOMAIN pods : pods[i].deleting \/ pods[i].version # rollout

CreatePod ==
    /\ conditions # <<>> /\ ~refused /\ made < MaxPods
    /\ PodMissing
    /\ pods' = Append(pods, NewPod)
    /\ made' = made + 1
    /\ UNCHANGED <<rollout, refused, conditions, status, queued, failures>>

\* The cluster refuses the pod that is missing, or no longer does.
Refuse ==
    /\ Refusals
    /\ refused \/ PodMissing
    /\ refused' = ~refused
    /\ UNCHANGED <<rollout, pods, made, conditions, status, queued, failures>>

\* What the containers of a pod that is deleted do is not looked at any more.
Deleting(p) == [p EXCEPT !.deleting = TRUE, !.init = NewContainer, !.server = NewContainer]

\* The pods of former versions go once the new one is available; any may be
\* evicted.
DeletePod ==
    /\ \E i \in DOMAIN pods :
         /\ ~pods[i].deleting
         /\ \/ pods[i].version # rollout /\ Complete
            \/ made < MaxPods
         /\ pods' = [pods EXCEPT ![i] = Deleting(@)]
    /\ UNCHANGED <<rollout, refused, made, conditions, status, queued, failures>>

PodGone ==
    /\ \E i \in DOMAIN pods : pods[i].deleting /\ pods' = RemoveAt(pods, i)
    /\ UNCHANGED <<rollout, refused, made, conditions, status, queued, failures>>

-----------------------------------------------------------------------------
(* The kubelet, the probes and the clock; the pods are not watched. *)

Keeps == UNCHANGED <<rollout, refused, made, conditions, status, queued>>

ReportPod ==
    /\ \E i \in DOMAIN pods :
         /\ ~pods[i].deleting /\ pods[i].init.state = "none"
         /\ pods' = [pods EXCEPT ![i].init.state = "waiting", ![i].server.state = "waiting"]
    /\ Keeps /\ UNCHANGED failures

\* A container of a pod starts, passes its probe, or is to be restarted.
Recovered(c) ==
    CASE c.state = "waiting"              -> {[c EXCEPT !.state = "running"]}
      [] c.state = "running" /\ ~c.ready  -> {[c EXCEPT !.ready = TRUE]}
      [] c.state = "terminated"           -> {[c EXCEPT !.state = "waiting", !.restarts = @ + 1]}
      [] OTHER                            -> {}

\* A container fails its probe, or exits; its age is then of no account.
Broken(c) ==
    IF c.state = "running"
    THEN {[c EXCEPT !.ready = FALSE], [c EXCEPT !.state = "terminated", !.ready = FALSE, !.age = 0]} \ {c}
    ELSE {}

Moves(c, d) ==
    \/ d \in Recovered(c) /\ UNCHANGED failures
    \/ failures < MaxFailures /\ d \in Broken(c) /\ failures' = failures + 1

InitMoves ==
    /\ \E i \in DOMAIN pods :
         \E d \in Recovered(pods[i].init) \cup Broken(pods[i].init) :
            Moves(pods[i].init, d) /\ pods' = [pods EXCEPT ![i].init = d]
    /\ Keeps

\* The server starts once its sidecar is ready.
ServerMoves ==
    /\ \E i \in DOMAIN pods :
         /\ pods[i].init.ready \/ pods[i].server.state # "waiting"
         /\ \E d \in Recovered(pods[i].server) \cup Broken(pods[i].server) :
               Moves(pods[i].server, d) /\ pods' = [pods EXCEPT ![i].server = d]
    /\ Keeps

\* The age of the sidecar is not looked at.
Older(c) == [c EXCEPT !.age = IF c.state = "running" /\ c.age < 2 THEN c.age + 1 ELSE c.age]

Tick ==
    /\ pods' = [i \in DOMAIN pods |-> [pods[i] EXCEPT !.server = Older(@)]]
    /\ pods' # pods
    /\ Keeps /\ UNCHANGED failures

-----------------------------------------------------------------------------
\* The deployment has just been created.
Init ==
    /\ rollout = 0 /\ refused = FALSE
    /\ pods = <<>> /\ made = 0
    /\ conditions = <<>>
    /\ status = NoStatus
    /\ queued = TRUE
    /\ failures = 0

Next ==
    \/ Look
    \/ SyncDeployment \/ CreateReplicaSet \/ RollOut \/ CreatePod \/ Refuse
    \/ DeletePod \/ PodGone
    \/ ReportPod \/ InitMoves \/ ServerMoves \/ Tick

Spec == Init /\ [][Next]_vars

\* The operator serves its queue, and the deployment controller writes what it
\* finds.  Pods and their containers owe nothing.
FairSpec == Spec /\ WF_vars(Look) /\ WF_vars(SyncDeployment)

-----------------------------------------------------------------------------
\* Every variable has the shape it is declared with; in particular the API
\* server holds only statuses of the enumerations.
TypeOK ==
    /\ rollout \in 0 .. MaxRollouts /\ refused \in BOOLEAN
    /\ \A i \in DOMAIN pods : pods[i] \in Pod
    /\ made \in 0 .. MaxPods
    /\ \A i \in DOMAIN conditions : conditions[i] \in Condition
    /\ \/ status = NoStatus
       \/ status.server \in ServerStates /\ status.pod \in Health
    /\ queued \in BOOLEAN
    /\ failures \in 0 .. MaxFailures

NewestReady == pods # <<>> /\ PodReady(Last(pods))


\* A pass that changes the health it shows shows the readiness of the newest pod
\* as Kubernetes has it, with the sidecar, for which updateServerPodHealth looks
\* at one container and then at the other.
ReportsReadiness ==
    [][status'.pod # status.pod => status'.pod.ready = NewestReady]_vars

\* A newest pod that stays ready is shown ready in the end, although no pod is
\* watched: a pass that finds the server not ready has itself queued again.
ReadyIsSeen == <>[](NewestReady /\ ~refused) => <>[]status.pod.ready

-----------------------------------------------------------------------------
(* What the comments say of the code and the code does not do. *)

\* "describes a failed server": a deployment whose pods are refused, which is what
\* its first condition keeps saying, is shown as failed.
FailureIsShown ==
    <>[](conditions # <<>> /\ Head(conditions).type = "ReplicaFailure")
        => <>[](status.server = "Failed")
=============================================================================
