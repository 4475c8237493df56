-------------------------- MODULE ServerStatusProofs --------------------------
(***************************************************************************)
(* Theorems of ServerStatus, for every number of pods, rollouts and        *)
(* failures.                                                               *)
(*                                                                         *)
(* The bound on the restarts a status shows is not inductive: a container  *)
(* that has ended is restarted without a further failure.  It follows from *)
(* a budget: each restart of a container was paid for by the failure that  *)
(* ended it, and so was the one that a terminated container is still to    *)
(* have.                                                                   *)
(***************************************************************************)
EXTENDS ServerStatus, TLAPS

\* What a container owes to failures: its restarts, and the one still to come.
Owed(c) == IF c.state = "terminated" THEN c.restarts + 1 ELSE c.restarts

\* The containers and the pods there can be after so many failures and rollouts.
ContainerShape == [state : {"none", "waiting", "running", "terminated"},
                   ready : BOOLEAN, restarts : Nat, age : Ages]
Containers(f) == {c \in ContainerShape : Owed(c) <= f}
Pods(r, f) == [version : 0 .. r, deleting : BOOLEAN,
               init : Containers(f), server : Containers(f)]

PodsInv ==
    /\ rollout \in 0 .. MaxRollouts
    /\ failures \in 0 .. MaxFailures
    /\ pods \in Seq(Pods(rollout, failures))

\* A sequence changed at one place is a sequence.
LEMMA SeqExcept ==
    ASSUME NEW S, NEW s \in Seq(S), NEW i \in DOMAIN s, NEW x \in S
    PROVE  [s EXCEPT ![i] = x] \in Seq(S)
OBVIOUS

\* What can be after some failures and rollouts can be after more.
LEMMA PodsMonotone ==
    ASSUME NEW r \in Nat, NEW f \in Nat, NEW q \in Nat, NEW g \in Nat, r <= q, f <= g
    PROVE  /\ Containers(f) \subseteq Containers(g)
           /\ Pods(r, f) \subseteq Pods(q, g)
           /\ \A s \in Seq(Pods(r, f)) : s \in Seq(Pods(q, g))
<1>1. Containers(f) \subseteq Containers(g)
  <2> SUFFICES ASSUME NEW c \in ContainerShape, Owed(c) <= f PROVE Owed(c) <= g
    BY DEF Containers
  <2>1. Owed(c) \in Nat
    BY DEF Owed, ContainerShape
  <2> QED
    BY <2>1
<1>2. Pods(r, f) \subseteq Pods(q, g)
  <2>1. 0 .. r \subseteq 0 .. q
    OBVIOUS
  <2> QED
    BY <1>1, <2>1 DEF Pods
<1> QED
  BY <1>1, <1>2

\* A pod is a pod whichever of its containers moves.
LEMMA PodMoves ==
    ASSUME NEW r, NEW f, NEW p \in Pods(r, f), NEW c \in Containers(f)
    PROVE  /\ [p EXCEPT !.init = c] \in Pods(r, f)
           /\ [p EXCEPT !.server = c] \in Pods(r, f)
BY DEF Pods

\* A container keeps its shape, and owes nothing new, when it is first reported,
\* recovers or grows older.
LEMMA ContainerMoves ==
    ASSUME NEW f \in Nat, NEW c \in Containers(f)
    PROVE  /\ \A d \in Recovered(c) : d \in Containers(f)
           /\ Older(c) \in Containers(f)
           /\ [c EXCEPT !.state = "waiting"] \in Containers(f)
           /\ NewContainer \in Containers(f)
<1>0. c \in ContainerShape /\ c.restarts \in Nat /\ Owed(c) <= f
  BY DEF Containers, ContainerShape
<1>1. \A d \in Recovered(c) : d \in Containers(f)
  <2>1. CASE c.state = "waiting"
    <3>1. [c EXCEPT !.state = "running"] \in Containers(f)
      BY <1>0, <2>1 DEF Containers, ContainerShape, Owed
    <3> QED
      BY <2>1, <3>1 DEF Recovered
  <2>2. CASE c.state = "running"
    <3>1. [c EXCEPT !.ready = TRUE] \in Containers(f)
      BY <1>0, <2>2 DEF Containers, ContainerShape, Owed
    <3> QED
      BY <2>2, <3>1 DEF Recovered
  <2>3. CASE c.state = "terminated"
    <3>1. c.restarts + 1 \in Nat /\ c.restarts + 1 <= f
      BY <1>0, <2>3 DEF Owed
    <3>2. [c EXCEPT !.state = "waiting", !.restarts = @ + 1] \in Containers(f)
      BY <1>0, <3>1 DEF Containers, ContainerShape, Owed
    <3> QED
      BY <2>3, <3>2 DEF Recovered
  <2>4. CASE c.state = "none"
    BY <2>4 DEF Recovered
  <2> QED
    BY <1>0, <2>1, <2>2, <2>3, <2>4 DEF ContainerShape
<1>2. Older(c) \in Containers(f)
  BY <1>0 DEF Older, Containers, ContainerShape, Ages, Owed
<1>3. [c EXCEPT !.state = "waiting"] \in Containers(f)
  BY <1>0 DEF Containers, ContainerShape, Owed
<1>4. NewContainer \in Containers(f)
  BY DEF Containers, ContainerShape, Ages, NewContainer, Owed
<1> QED
  BY <1>1, <1>2, <1>3, <1>4

\* A container that fails its probe owes nothing new, and one that ends a restart.
LEMMA ContainerBreaks ==
    ASSUME NEW f \in Nat, NEW c \in Containers(f), NEW d \in Broken(c)
    PROVE  d \in Containers(f + 1)
<1>1. /\ c \in ContainerShape /\ c.restarts \in Nat /\ c.restarts <= f
      /\ c.state = "running"
  BY DEF Containers, ContainerShape, Owed, Broken
<1>2. [c EXCEPT !.ready = FALSE] \in Containers(f + 1)
  <2> DEFINE b == [c EXCEPT !.ready = FALSE]
  <2>1. b \in ContainerShape
    BY <1>1 DEF ContainerShape
  <2>2. Owed(b) = c.restarts
    BY <1>1 DEF ContainerShape, Owed
  <2> QED
    BY <1>1, <2>1, <2>2 DEF Containers
<1>3. [c EXCEPT !.state = "terminated", !.ready = FALSE, !.age = 0] \in Containers(f + 1)
  <2> DEFINE b == [c EXCEPT !.state = "terminated", !.ready = FALSE, !.age = 0]
  <2>1. 0 \in Ages
    BY DEF Ages
  <2>2. b \in ContainerShape
    BY <1>1, <2>1 DEF ContainerShape
  <2>3. Owed(b) = c.restarts + 1
    BY <1>1 DEF ContainerShape, Owed
  <2> QED
    BY <1>1, <2>2, <2>3 DEF Containers
<1> QED
  BY <1>2, <1>3 DEF Broken

\* Whichever way a container moves, what it owes is paid for.
LEMMA MovesPaid ==
    ASSUME PodsInv, NEW c \in Containers(failures),
           NEW d \in Recovered(c) \cup Broken(c), Moves(c, d)
    PROVE  /\ failures' \in 0 .. MaxFailures
           /\ failures <= failures'
           /\ d \in Containers(failures')
<1>1. failures \in Nat /\ MaxFailures \in Nat /\ failures <= MaxFailures
  BY StatusAssumption DEF PodsInv
<1>2. CASE d \in Recovered(c) /\ UNCHANGED failures
  <2>1. d \in Containers(failures)
    BY <1>1, <1>2, ContainerMoves
  <2>2. failures' = failures
    BY <1>2
  <2> QED
    BY <1>1, <2>1, <2>2
<1>3. CASE failures < MaxFailures /\ d \in Broken(c) /\ failures' = failures + 1
  BY <1>1, <1>3, ContainerBreaks
<1> QED
  BY <1>2, <1>3 DEF Moves

\* The pods keep their shape and what they owe, whatever the cluster does to them.
LEMMA PodsInvStep == PodsInv /\ [Next]_vars => PodsInv'
<1> SUFFICES ASSUME PodsInv, [Next]_vars PROVE PodsInv'
  OBVIOUS
<1> DEFINE P == Pods(rollout, failures)
<1>0. /\ pods \in Seq(P) /\ \A i \in DOMAIN pods : pods[i] \in P
      /\ rollout \in Nat /\ failures \in Nat /\ MaxRollouts \in Nat /\ MaxFailures \in Nat
      /\ rollout <= MaxRollouts /\ failures <= MaxFailures
  BY StatusAssumption DEF PodsInv
<1>1. ASSUME UNCHANGED <<rollout, failures>>, pods' \in Seq(P) PROVE PodsInv'
  BY <1>1 DEF PodsInv
<1>2. CASE UNCHANGED <<pods, rollout, failures>>
  BY <1>0, <1>1, <1>2
<1>3. CASE RollOut
  <2>1. rollout' = rollout + 1 /\ rollout' <= MaxRollouts /\ UNCHANGED <<pods, failures>>
    BY <1>0, <1>3 DEF RollOut
  <2>2. pods \in Seq(Pods(rollout', failures))
    BY <1>0, <2>1, PodsMonotone
  <2> QED
    BY <1>0, <2>1, <2>2 DEF PodsInv
<1>4. CASE CreatePod
  <2>1. NewContainer \in Containers(failures)
    BY <1>0 DEF Containers, ContainerShape, Ages, NewContainer, Owed
  <2>2. NewPod \in P
    BY <1>0, <2>1 DEF NewPod, Pods
  <2> QED
    BY <1>0, <1>1, <1>4, <2>2 DEF CreatePod
<1>5. CASE DeletePod
  <2>1. PICK i \in DOMAIN pods : pods' = [pods EXCEPT ![i] = Deleting(@)]
    BY <1>5 DEF DeletePod
  <2>2. NewContainer \in Containers(failures)
    BY <1>0 DEF Containers, ContainerShape, Ages, NewContainer, Owed
  <2>3. Deleting(pods[i]) \in P
    BY <1>0, <2>2 DEF Deleting, Pods
  <2> QED
    BY <1>0, <1>1, <1>5, <2>1, <2>3, SeqExcept DEF DeletePod
<1>6. CASE PodGone
  <2>1. PICK i \in DOMAIN pods : pods' = RemoveAt(pods, i)
    BY <1>6 DEF PodGone
  <2>2. i \in 1 .. Len(pods)
    BY <1>0
  <2>3. SubSeq(pods, 1, i - 1) \in Seq(P) /\ SubSeq(pods, i + 1, Len(pods)) \in Seq(P)
    BY <1>0, <2>2
  <2>4. pods' \in Seq(P)
    BY <2>1, <2>3 DEF RemoveAt
  <2> QED
    BY <1>1, <1>6, <2>4 DEF PodGone
<1>7. CASE ReportPod
  <2>1. PICK i \in DOMAIN pods :
          pods' = [pods EXCEPT ![i].init.state = "waiting", ![i].server.state = "waiting"]
    BY <1>7 DEF ReportPod
  <2> DEFINE p == pods[i]
             init == [p.init EXCEPT !.state = "waiting"]
             server == [p.server EXCEPT !.state = "waiting"]
  <2>2. p \in P /\ init \in Containers(failures) /\ server \in Containers(failures)
    BY <1>0, ContainerMoves DEF Pods
  <2>3. [[p EXCEPT !.init = init] EXCEPT !.server = server] \in P
    BY <2>2, PodMoves
  <2>4. pods' = [pods EXCEPT ![i] = [[p EXCEPT !.init = init] EXCEPT !.server = server]]
    BY <1>0, <2>1, <2>2 DEF Pods
  <2> QED
    BY <1>0, <1>1, <1>7, <2>3, <2>4, SeqExcept DEF ReportPod, Keeps
<1>8. CASE InitMoves
  <2>1. PICK i \in DOMAIN pods : \E d \in Recovered(pods[i].init) \cup Broken(pods[i].init) :
          Moves(pods[i].init, d) /\ pods' = [pods EXCEPT ![i].init = d]
    BY <1>8 DEF InitMoves
  <2>2. PICK d \in Recovered(pods[i].init) \cup Broken(pods[i].init) :
          Moves(pods[i].init, d) /\ pods' = [pods EXCEPT ![i].init = d]
    BY <2>1
  <2>3. pods[i] \in P /\ pods[i].init \in Containers(failures)
    BY <1>0 DEF Pods
  <2>4. /\ failures' \in 0 .. MaxFailures /\ failures <= failures'
        /\ d \in Containers(failures')
    BY <2>2, <2>3, MovesPaid
  <2>5. pods[i] \in Pods(rollout, failures') /\ pods \in Seq(Pods(rollout, failures'))
    BY <1>0, <2>3, <2>4, PodsMonotone
  <2>6. pods' \in Seq(Pods(rollout, failures'))
    BY <2>2, <2>4, <2>5, PodMoves, SeqExcept
  <2> QED
    BY <1>8, <2>4, <2>6 DEF InitMoves, Keeps, PodsInv
<1>9. CASE ServerMoves
  <2>1. PICK i \in DOMAIN pods : \E d \in Recovered(pods[i].server) \cup Broken(pods[i].server) :
          Moves(pods[i].server, d) /\ pods' = [pods EXCEPT ![i].server = d]
    BY <1>9 DEF ServerMoves
  <2>2. PICK d \in Recovered(pods[i].server) \cup Broken(pods[i].server) :
          Moves(pods[i].server, d) /\ pods' = [pods EXCEPT ![i].server = d]
    BY <2>1
  <2>3. pods[i] \in P /\ pods[i].server \in Containers(failures)
    BY <1>0 DEF Pods
  <2>4. /\ failures' \in 0 .. MaxFailures /\ failures <= failures'
        /\ d \in Containers(failures')
    BY <2>2, <2>3, MovesPaid
  <2>5. pods[i] \in Pods(rollout, failures') /\ pods \in Seq(Pods(rollout, failures'))
    BY <1>0, <2>3, <2>4, PodsMonotone
  <2>6. pods' \in Seq(Pods(rollout, failures'))
    BY <2>2, <2>4, <2>5, PodMoves, SeqExcept
  <2> QED
    BY <1>9, <2>4, <2>6 DEF ServerMoves, Keeps, PodsInv
<1>10. CASE Tick
  <2>1. \A i \in DOMAIN pods : [pods[i] EXCEPT !.server = Older(@)] \in P
    <3> SUFFICES ASSUME NEW i \in DOMAIN pods PROVE [pods[i] EXCEPT !.server = Older(@)] \in P
      OBVIOUS
    <3>1. pods[i] \in P /\ pods[i].server \in Containers(failures)
      BY <1>0 DEF Pods
    <3> QED
      BY <1>0, <3>1, ContainerMoves, PodMoves
  <2>2. DOMAIN pods = 1 .. Len(pods) /\ Len(pods) \in Nat
    BY <1>0
  <2>3. pods' \in Seq(P)
    BY <1>10, <2>1, <2>2 DEF Tick
  <2> QED
    BY <1>1, <1>10, <2>3 DEF Tick, Keeps
<1>11. CASE Look \/ SyncDeployment \/ CreateReplicaSet \/ Refuse
  BY <1>2, <1>11 DEF Look, SyncDeployment, CreateReplicaSet, Refuse
<1> QED
  BY <1>2, <1>3, <1>4, <1>5, <1>6, <1>7, <1>8, <1>9, <1>10, <1>11 DEF Next, vars

\* determineServerPodHealth, which looks at the sidecar and then at the server,
\* answers the readiness of the pod.
LEMMA HealthIsReadiness == PodsInv => PodHealth.ready = NewestReady
<1> SUFFICES ASSUME PodsInv PROVE PodHealth.ready = NewestReady
  OBVIOUS
<1>1. CASE pods = <<>>
  BY <1>1 DEF PodHealth, NewestReady, Unknown
<1>2. CASE pods # <<>>
  <2> DEFINE p == Last(pods)
  <2>1. p \in Pods(rollout, failures)
    BY <1>2 DEF PodsInv, Last
  <2>2. /\ p.deleting \in BOOLEAN /\ p.init.ready \in BOOLEAN /\ p.server.ready \in BOOLEAN
    BY <2>1 DEF Pods, Containers, ContainerShape
  <2> HIDE DEF p
  <2>3. CASE p.deleting
    BY <1>2, <2>3 DEF PodHealth, NewestReady, Terminating, PodReady, p
  <2>4. CASE ~p.deleting
    <3>1. PodHealth = ServerPodHealth(p)
      BY <1>2, <2>4 DEF PodHealth, p
    <3>2. ServerPodHealth(p).ready = IF p.init.ready THEN p.server.ready ELSE FALSE
      BY DEF ServerPodHealth, ContainerHealth, SidecarHealth
    <3>3. NewestReady <=> p.init.ready /\ p.server.ready
      BY <1>2, <2>4 DEF NewestReady, PodReady, p
    <3> QED
      BY <2>2, <3>1, <3>2, <3>3 DEF NewestReady
  <2> QED
    BY <2>3, <2>4
<1> QED
  BY <1>1, <1>2

\* Whatever the pods and their containers have gone through, a pass that changes the
\* health it shows shows the readiness of the newest pod as it is.
THEOREM ReadinessIsReported == Spec => ReportsReadiness
<1>1. Init => PodsInv
  BY StatusAssumption DEF Init, PodsInv
<1>2. PodsInv /\ [Next]_vars => [status'.pod # status.pod => status'.pod.ready = NewestReady]_vars
  <2> SUFFICES ASSUME PodsInv, Next, status' # status
               PROVE  status'.pod.ready = NewestReady
    BY DEF vars
  <2>1. Look
    BY DEF Next, SyncDeployment, CreateReplicaSet, RollOut, CreatePod, Refuse, DeletePod,
       PodGone, ReportPod, InitMoves, ServerMoves, Tick, Keeps
  <2>2. status' = [server |-> ServerState, pod |-> PodHealth]
    BY <2>1 DEF Look
  <2> QED
    BY <2>2, HealthIsReadiness
<1> QED
  BY <1>1, <1>2, PodsInvStep, PTL DEF Spec, ReportsReadiness

-----------------------------------------------------------------------------
(* The conditions of the deployment. *)

\* The conditions there can be: one of a type at most.
ConditionsOK(cs) ==
    /\ cs \in Seq(Condition)
    /\ \A i, j \in 1 .. Len(cs) : cs[i].type = cs[j].type => i = j

\* What is left of a sequence without one of its elements.
LEMMA RemoveAtElements ==
    ASSUME NEW S, NEW s \in Seq(S), NEW i \in 1 .. Len(s)
    PROVE  /\ RemoveAt(s, i) \in Seq(S)
           /\ Len(RemoveAt(s, i)) = Len(s) - 1
           /\ \A j \in 1 .. Len(s) - 1 :
                RemoveAt(s, i)[j] = IF j < i THEN s[j] ELSE s[j + 1]
<1> DEFINE before == SubSeq(s, 1, i - 1)
           after == SubSeq(s, i + 1, Len(s))
<1>1. /\ before \in Seq(S) /\ after \in Seq(S)
      /\ Len(before) = i - 1 /\ Len(after) = Len(s) - i
  OBVIOUS
<1>2. /\ \A j \in 1 .. i - 1 : before[j] = s[j]
      /\ \A j \in 1 .. Len(s) - i : after[j] = s[i + j]
  OBVIOUS
<1>3. RemoveAt(s, i) = before \o after
  BY DEF RemoveAt
<1> HIDE DEF before, after
<1>4. before \o after \in Seq(S) /\ Len(before \o after) = Len(s) - 1
  BY <1>1
<1>5. ASSUME NEW j \in 1 .. Len(s) - 1
      PROVE  (before \o after)[j] = IF j < i THEN s[j] ELSE s[j + 1]
  <2>1. CASE j < i
    <3>1. j \in 1 .. i - 1
      BY <2>1
    <3>2. (before \o after)[j] = before[j]
      BY <1>1, <3>1
    <3> QED
      BY <1>2, <2>1, <3>1, <3>2
  <2>2. CASE ~(j < i)
    <3>1. j - (i - 1) \in 1 .. Len(s) - i /\ i + (j - (i - 1)) = j + 1
      BY <2>2
    <3>2. (before \o after)[j] = after[j - (i - 1)]
      BY <1>1, <2>2
    <3> QED
      BY <1>2, <2>2, <3>1, <3>2
  <2> QED
    BY <2>1, <2>2
<1> QED
  BY <1>3, <1>4, <1>5

\* Without leaves no condition of the type, and the others as they were.
LEMMA WithoutType ==
    ASSUME NEW cs, ConditionsOK(cs), NEW type
    PROVE  /\ ConditionsOK(Without(cs, type))
           /\ \A i \in 1 .. Len(Without(cs, type)) : Without(cs, type)[i].type # type
<1> DEFINE w == Without(cs, type)
<1>0. cs \in Seq(Condition) /\ DOMAIN cs = 1 .. Len(cs) /\ Len(cs) \in Nat
  BY DEF ConditionsOK
<1>1. CASE ~\E i \in DOMAIN cs : cs[i].type = type
  BY <1>0, <1>1 DEF Without
<1>2. CASE \E i \in DOMAIN cs : cs[i].type = type
  <2> DEFINE k == CHOOSE i \in DOMAIN cs : cs[i].type = type
  <2>1. k \in 1 .. Len(cs) /\ cs[k].type = type
    BY <1>0, <1>2
  <2>2. w = RemoveAt(cs, k)
    BY <1>2 DEF Without
  <2> HIDE DEF k, w
  <2>3. /\ w \in Seq(Condition) /\ Len(w) = Len(cs) - 1
        /\ \A j \in 1 .. Len(cs) - 1 : w[j] = IF j < k THEN cs[j] ELSE cs[j + 1]
    BY <1>0, <2>1, <2>2, RemoveAtElements
  <2>4. \A i, j \in 1 .. Len(cs) : cs[i].type = cs[j].type => i = j
    BY DEF ConditionsOK
  <2>5. \A i, j \in 1 .. Len(w) : w[i].type = w[j].type => i = j
    BY <1>0, <2>1, <2>3, <2>4
  <2>6. \A i \in 1 .. Len(w) : w[i].type # type
    BY <1>0, <2>1, <2>3, <2>4
  <2>7. ConditionsOK(w)
    BY <2>3, <2>5 DEF ConditionsOK
  <2> QED
    BY <2>6, <2>7 DEF w
<1> QED
  BY <1>1, <1>2

\* A condition that is set is the only one of its type.
LEMMA WithConditionType ==
    ASSUME NEW cs, ConditionsOK(cs), NEW c \in Condition
    PROVE  ConditionsOK(WithCondition(cs, c))
<1>1. CASE Contains(cs, c)
  BY <1>1 DEF WithCondition
<1>2. CASE ~Contains(cs, c)
  <2> DEFINE w == Without(cs, c.type)
             a == Append(w, c)
  <2>1. ConditionsOK(w) /\ \A i \in 1 .. Len(w) : w[i].type # c.type
    BY WithoutType
  <2> HIDE DEF w
  <2>2. /\ w \in Seq(Condition)
        /\ \A i, j \in 1 .. Len(w) : w[i].type = w[j].type => i = j
    BY <2>1 DEF ConditionsOK
  <2>3. /\ a \in Seq(Condition) /\ Len(a) = Len(w) + 1 /\ Len(w) \in Nat
        /\ \A i \in 1 .. Len(w) : a[i] = w[i]
        /\ a[Len(w) + 1] = c
    BY <2>2
  <2> HIDE DEF a
  <2>4. \A i, j \in 1 .. Len(a) : a[i].type = a[j].type => i = j
    BY <2>1, <2>2, <2>3
  <2>5. ConditionsOK(a)
    BY <2>3, <2>4 DEF ConditionsOK
  <2> QED
    BY <1>2, <2>5 DEF WithCondition, a, w
<1> QED
  BY <1>1, <1>2

\* Whatever the deployment controller writes, it writes one condition of a type.
LEMMA ConditionsStep == ConditionsOK(conditions) /\ [Next]_vars => ConditionsOK(conditions)'
<1> SUFFICES ASSUME ConditionsOK(conditions), [Next]_vars PROVE ConditionsOK(conditions')
  BY DEF ConditionsOK
<1>1. CASE UNCHANGED conditions
  BY <1>1
<1>2. CASE SyncDeployment
  <2>1. Available \in BOOLEAN
    BY DEF Available
  <2>2. /\ [type |-> "Available", status |-> Available, reason |-> "none"] \in Condition
        /\ [type |-> "ReplicaFailure", status |-> TRUE, reason |-> "none"] \in Condition
    BY <2>1 DEF Condition
  <2>3. \A late \in BOOLEAN : Progressing(late) \in Condition
    BY DEF Progressing, Progress, Condition
  <2>4. PICK late \in BOOLEAN :
          \E available \in {WithCondition(conditions,
              [type |-> "Available", status |-> Available, reason |-> "none"])} :
            \E progressed \in {WithCondition(available, Progressing(late))} :
              conditions' =
                  IF refused
                  THEN WithCondition(progressed,
                           [type |-> "ReplicaFailure", status |-> TRUE, reason |-> "none"])
                  ELSE Without(progressed, "ReplicaFailure")
    BY <1>2 DEF SyncDeployment
  <2> DEFINE available == WithCondition(conditions,
                 [type |-> "Available", status |-> Available, reason |-> "none"])
             progressed == WithCondition(available, Progressing(late))
  <2>5. ConditionsOK(available)
    BY <2>2, WithConditionType
  <2>6. ConditionsOK(progressed)
    BY <2>3, <2>5, WithConditionType
  <2>7. conditions' = IF refused
                      THEN WithCondition(progressed,
                               [type |-> "ReplicaFailure", status |-> TRUE, reason |-> "none"])
                      ELSE Without(progressed, "ReplicaFailure")
    BY <2>4
  <2> HIDE DEF available, progressed
  <2> QED
    BY <2>2, <2>6, <2>7, WithConditionType, WithoutType
<1>3. CASE CreateReplicaSet
  <2> DEFINE c == Progress(TRUE, "NewReplicaSetCreated")
  <2>1. c \in Condition
    BY DEF Progress, Condition
  <2>2. conditions' = <<c>>
    BY <1>3 DEF CreateReplicaSet
  <2> HIDE DEF c
  <2>3. conditions' \in Seq(Condition) /\ Len(conditions') = 1
    BY <2>1, <2>2
  <2>4. \A i, j \in 1 .. Len(conditions') : i = j
    BY <2>3
  <2> QED
    BY <2>3, <2>4 DEF ConditionsOK
<1>4. CASE RollOut
  <2>1. Progress(TRUE, "NewReplicaSetCreated") \in Condition
    BY DEF Progress, Condition
  <2> QED
    BY <1>4, <2>1, WithConditionType DEF RollOut
<1>5. CASE Look \/ CreatePod \/ Refuse \/ DeletePod \/ PodGone
  BY <1>1, <1>5 DEF Look, CreatePod, Refuse, DeletePod, PodGone
<1>6. CASE ReportPod \/ InitMoves \/ ServerMoves \/ Tick
  BY <1>1, <1>6 DEF ReportPod, InitMoves, ServerMoves, Tick, Keeps
<1> QED
  BY <1>1, <1>2, <1>3, <1>4, <1>5, <1>6 DEF Next, vars

-----------------------------------------------------------------------------
(* The status. *)

\* What a pass makes of the pods fits the status of the API.
LEMMA HealthTyped == PodsInv => PodHealth \in Health
<1> SUFFICES ASSUME PodsInv PROVE PodHealth \in Health
  OBVIOUS
<1>0. failures \in Nat /\ MaxFailures \in Nat /\ failures <= MaxFailures
  BY StatusAssumption DEF PodsInv
<1>1. Unknown \in Health /\ Terminating \in Health
  BY <1>0 DEF Unknown, Terminating, Health, HealthStates
<1>2. ASSUME NEW c \in Containers(failures)
      PROVE  ContainerHealth(c) \in Health /\ SidecarHealth(c) \in Health
  <2>1. /\ c.state \in {"none", "waiting", "running", "terminated"}
        /\ c.ready \in BOOLEAN /\ c.restarts \in Nat /\ Owed(c) <= failures
    BY <1>2 DEF Containers, ContainerShape
  <2>2. c.restarts \in 0 .. MaxFailures
    BY <1>0, <2>1 DEF Owed
  <2>3. RunningHealth(c) \in HealthStates
    BY DEF RunningHealth, HealthStates
  <2>4. ContainerHealth(c) \in Health
    BY <2>1, <2>2, <2>3 DEF ContainerHealth, Health, HealthStates
  <2>5. SidecarHealth(c) \in Health
    BY <2>1, <2>2 DEF SidecarHealth, Health, HealthStates
  <2> QED
    BY <2>4, <2>5
<1>3. CASE pods = <<>>
  BY <1>1, <1>3 DEF PodHealth
<1>4. CASE pods # <<>>
  <2>1. Last(pods) \in Pods(rollout, failures)
    BY <1>4 DEF PodsInv, Last
  <2>2. /\ Last(pods).init \in Containers(failures) /\ Last(pods).server \in Containers(failures)
        /\ Last(pods).deleting \in BOOLEAN
    BY <2>1 DEF Pods
  <2>3. ServerPodHealth(Last(pods)) \in Health
    BY <1>2, <2>2 DEF ServerPodHealth
  <2> QED
    BY <1>1, <1>4, <2>2, <2>3 DEF PodHealth
<1> QED
  BY <1>3, <1>4

\* The remaining variables.
ScalarsInv ==
    /\ refused \in BOOLEAN
    /\ made \in 0 .. MaxPods
    /\ queued \in BOOLEAN
    /\ status = NoStatus \/ (status.server \in ServerStates /\ status.pod \in Health)

LEMMA ScalarsStep == PodsInv /\ ScalarsInv /\ [Next]_vars => ScalarsInv'
<1> SUFFICES ASSUME PodsInv, ScalarsInv, [Next]_vars PROVE ScalarsInv'
  OBVIOUS
<1>1. CASE Look
  <2>1. PodHealth \in Health
    BY HealthTyped
  <2> DEFINE seen == [server |-> ServerState, pod |-> PodHealth]
  <2>2. status' = (IF seen.server \in ServerStates THEN seen ELSE status)
    BY <1>1 DEF Look
  <2>3. status' = NoStatus \/ (status'.server \in ServerStates /\ status'.pod \in Health)
    BY <2>1, <2>2 DEF ScalarsInv
  <2>4. queued' \in BOOLEAN /\ UNCHANGED <<refused, made>>
    BY <1>1 DEF Look
  <2> QED
    BY <2>3, <2>4 DEF ScalarsInv
<1>2. CASE SyncDeployment \/ CreateReplicaSet \/ RollOut
  BY <1>2 DEF SyncDeployment, CreateReplicaSet, RollOut, ScalarsInv
<1>3. CASE CreatePod
  <2>1. made' \in 0 .. MaxPods
    BY <1>3, StatusAssumption DEF CreatePod, ScalarsInv
  <2> QED
    BY <1>3, <2>1 DEF CreatePod, ScalarsInv
<1>4. CASE Refuse
  BY <1>4 DEF Refuse, ScalarsInv
<1>5. CASE DeletePod \/ PodGone
  BY <1>5 DEF DeletePod, PodGone, ScalarsInv
<1>6. CASE ReportPod \/ InitMoves \/ ServerMoves \/ Tick
  BY <1>6 DEF ReportPod, InitMoves, ServerMoves, Tick, Keeps, ScalarsInv
<1>7. CASE UNCHANGED vars
  BY <1>7 DEF vars, ScalarsInv
<1> QED
  BY <1>1, <1>2, <1>3, <1>4, <1>5, <1>6, <1>7 DEF Next

\* Every variable keeps its shape: the status the API server holds is of its
\* enumerations, whatever UpdateStatusFromDeployment makes of the conditions, and the
\* restarts it shows are never more than the failures there were.
THEOREM TypeCorrect == Spec => []TypeOK
<1>1. Init => PodsInv /\ ConditionsOK(conditions) /\ ScalarsInv
  <2> SUFFICES ASSUME Init PROVE PodsInv /\ ConditionsOK(conditions) /\ ScalarsInv
    OBVIOUS
  <2>1. PodsInv
    BY StatusAssumption DEF Init, PodsInv
  <2>2. ConditionsOK(conditions)
    BY DEF Init, ConditionsOK
  <2>3. ScalarsInv
    <3>1. refused \in BOOLEAN /\ queued \in BOOLEAN /\ status = NoStatus
      BY DEF Init
    <3>2. made \in 0 .. MaxPods
      BY StatusAssumption DEF Init
    <3> QED
      BY <3>1, <3>2 DEF ScalarsInv
  <2> QED
    BY <2>1, <2>2, <2>3
<1>2. PodsInv /\ ConditionsOK(conditions) /\ ScalarsInv => TypeOK
  <2> SUFFICES ASSUME PodsInv, ConditionsOK(conditions), ScalarsInv PROVE TypeOK
    OBVIOUS
  <2>0. rollout \in Nat /\ MaxRollouts \in Nat /\ rollout <= MaxRollouts
        /\ failures \in Nat /\ MaxFailures \in Nat /\ failures <= MaxFailures
    BY StatusAssumption DEF PodsInv
  <2>1. Containers(failures) \subseteq Container
    <3> SUFFICES ASSUME NEW c \in ContainerShape, Owed(c) <= failures PROVE c \in Container
      BY DEF Containers
    <3>1. c.restarts \in 0 .. MaxFailures
      BY <2>0 DEF ContainerShape, Owed
    <3> QED
      BY <3>1 DEF ContainerShape, Container
  <2>2. Pods(rollout, failures) \subseteq Pod
    <3>1. 0 .. rollout \subseteq 0 .. MaxRollouts
      BY <2>0
    <3> QED
      BY <2>1, <3>1 DEF Pods, Pod
  <2>3. \A i \in DOMAIN pods : pods[i] \in Pod
    BY <2>2 DEF PodsInv
  <2>4. \A i \in DOMAIN conditions : conditions[i] \in Condition
    BY DEF ConditionsOK
  <2> QED
    BY <2>3, <2>4 DEF PodsInv, ScalarsInv, TypeOK
<1> QED
  BY <1>1, <1>2, PodsInvStep, ConditionsStep, ScalarsStep, PTL DEF Spec

=============================================================================
