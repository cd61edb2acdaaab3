---------------------- MODULE StatefulSetRolloutProofs ----------------------
(***************************************************************************)
(* Proofs of the safety of the canary rollout, for every size, number of   *)
(* templates, watch time and bound, and for every environment.             *)
(***************************************************************************)
EXTENDS StatefulSetRolloutProperties, FiniteSetTheorems, TLAPS

USE ConstantsAssumption

\* A count of pods is a natural number.
LEMMA CountType ==
  ASSUME NEW S, S \subseteq Ordinals
  PROVE  Cardinality(S) \in Nat
  <1>1. IsFiniteSet(Ordinals)
    BY FS_Interval DEF Ordinals
  <1>2. QED
    BY <1>1, FS_Subset, FS_CardinalityType

-----------------------------------------------------------------------------
(* Type correctness *)

\* The status written by the StatefulSet controller is well typed.
LEMMA StatusType ==
  ASSUME TypeOK
  PROVE  Status(sts) \in StatefulSet
  <1> DEFINE E == {i \in Ordinals : Exists(i)}
             H == {i \in Ordinals : Healthy(i)}
             U == {i \in Ordinals : pods[i].rev = sts.rev}
             c == IF U = E /\ H = E THEN sts.rev ELSE sts.currentRevision
  <1>1. Cardinality(E) \in Nat /\ Cardinality(H) \in Nat /\ Cardinality(U) \in Nat
    BY CountType
  <1>2. Status(sts) = [sts EXCEPT !.statusReplicas = Cardinality(E),
                                  !.readyReplicas = Cardinality(H),
                                  !.updatedReplicas = Cardinality(U),
                                  !.updateRevision = sts.rev,
                                  !.currentRevision = c]
    BY DEF Status
  <1>3. sts \in StatefulSet
    BY DEF TypeOK
  <1>4. c \in Revisions /\ sts.rev \in 0..MaxRevision
    BY <1>3 DEF StatefulSet, Revisions
  <1> HIDE DEF E, H, U, c
  <1>5. QED
    BY <1>1, <1>2, <1>3, <1>4 DEF StatefulSet

\* The worker at rest has a typed decision.
LEMMA NoDecisionType ==
  NoDecision \in [base : Bases, partition : -1..MaxReplicas, state : States,
                  after : Int, requeue : BOOLEAN]
  BY DEF NoDecision, Bases, Revisions, States

\* What the timeouts return is a number.
LEMMA TimeLeftType ==
  ASSUME TypeOK, NEW w \in Int
  PROVE  TimeLeft(cache, w) \in Int
  BY DEF TypeOK, TimeLeft, StatefulSet

\* Each branch of the decision, and the worker's other steps.
LEMMA WorkerType ==
  ASSUME TypeOK, Worker
  PROVE  TypeOK'
  <1> USE DEF TypeOK
  <1>1. /\ TimeLeft(cache, UpdateWatch) \in Int
        /\ TimeLeft(cache, CanaryWatch) \in Int
    BY TimeLeftType
  <1>2. ASSUME TimerFires PROVE TypeOK'
    BY <1>2 DEF TimerFires, NoTimer, clusterVars, cacheVars, podVars, workerVars, historyVars
  <1>3. ASSUME Decide PROVE TypeOK'
    <2>1. Unaffected /\ queued' = FALSE
      BY <1>3 DEF Decide, Terminal, UpdateTimesOut, Uncontrolled, UpscaleWaits, UpscaleDone, UpscaleMoves, CanaryFails, RolloutWaits, RolloutDone, RolloutMoves, PendingUpscales, PendingCanary, TakeRollout, TakeLive, Take
    <2>2. cache.partition \in 0..MaxReplicas
      BY DEF StatefulSet
    <2>3. PollInterval \in Int
      BY <1>1 DEF PollInterval
    <2> DEFINE D == [base : Bases, partition : -1..MaxReplicas, state : States,
                     after : Int, requeue : BOOLEAN]
               Typed == /\ timer' \in Int /\ dec' \in D
                        /\ pc' \in {"idle", "write", "cleanup"}
    <2>4. /\ timer \in Int /\ now \in Int
          /\ Basis(cache) \in Bases
      BY DEF Basis, Bases, StatefulSet
    <2>7. Typed
      <3> HIDE DEF TypeOK, D
      <3>1. CASE Terminal
        BY <1>1, <2>2, <2>3, <2>4, <3>1, NoDecisionType
           DEF Terminal, Return, Update, Finish, Earliest, Idle, D, States
      <3>2. CASE UpdateTimesOut
        BY <1>1, <2>2, <2>3, <2>4, <3>2, NoDecisionType
           DEF UpdateTimesOut, Return, Update, Finish, Earliest, Idle, D, States
      <3>3. CASE Uncontrolled
        BY <1>1, <2>2, <2>3, <2>4, <3>3, NoDecisionType
           DEF Uncontrolled, Return, Update, Finish, Earliest, Idle, D, States
      <3>4. CASE UpscaleWaits
        BY <1>1, <2>2, <2>3, <2>4, <3>4, NoDecisionType
           DEF UpscaleWaits, Return, Update, Finish, Earliest, Idle, D, States
      <3>5. CASE UpscaleDone
        BY <1>1, <2>2, <2>3, <2>4, <3>5, NoDecisionType
           DEF UpscaleDone, Return, Update, Finish, Earliest, Idle, D, States
      <3>6. CASE UpscaleMoves
        BY <1>1, <2>2, <2>3, <2>4, <3>6, NoDecisionType
           DEF UpscaleMoves, Return, Update, Finish, Earliest, Idle, D, States
      <3>7. CASE CanaryFails
        BY <1>1, <2>2, <2>3, <2>4, <3>7, NoDecisionType
           DEF CanaryFails, Return, Update, Finish, Earliest, Idle, D, States
      <3>8. CASE RolloutWaits
        BY <1>1, <2>2, <2>3, <2>4, <3>8, NoDecisionType
           DEF RolloutWaits, Return, Update, Finish, Earliest, Idle, D, States
      <3>9. CASE RolloutDone
        BY <1>1, <2>2, <2>3, <2>4, <3>9, NoDecisionType
           DEF RolloutDone, Return, Update, Finish, Earliest, Idle, D, States
      <3>10. CASE RolloutMoves
        BY <1>1, <2>2, <2>3, <2>4, <3>10, NoDecisionType
           DEF RolloutMoves, Return, Update, Finish, Earliest, Idle, D, States
      <3>11. CASE PendingUpscales
        BY <1>1, <2>2, <2>3, <2>4, <3>11, NoDecisionType
           DEF PendingUpscales, Return, Update, Finish, Earliest, Idle, D, States
      <3>12. CASE PendingCanary
        BY <1>1, <2>2, <2>3, <2>4, <3>12, NoDecisionType
           DEF PendingCanary, Return, Update, Finish, Earliest, Idle, D, States
      <3> QED
        BY <1>3, <3>1, <3>2, <3>3, <3>4, <3>5, <3>6, <3>7, <3>8, <3>9, <3>10, <3>11, <3>12 DEF Decide
    <2>8. QED
      BY <2>1, <2>7 DEF Unaffected, clusterVars, cacheVars, podVars, historyVars
  <1>4. ASSUME Write PROVE TypeOK'
    <2>1. /\ UNCHANGED <<cacheVars, podVars, queued, now, left>>
          /\ pc = "write"
      BY <1>4 DEF Write, WriteInPlace, WriteConflict, WriteRejected,
                  WriteAccepted
    <2>2. /\ sts' \in StatefulSet
          /\ stale' \in BOOLEAN /\ event' \in BOOLEAN
      <3>1. CASE UNCHANGED clusterVars
        BY <3>1 DEF clusterVars
      <3>2. CASE WriteAccepted
        <4>1. dec.partition \in 0..MaxReplicas /\ dec.state \in States
          BY <3>2 DEF WriteAccepted
        <4>2. sts' = [cache EXCEPT !.partition = dec.partition,
                                   !.state = dec.state]
          BY <3>2 DEF WriteAccepted, Store
        <4>3. stale' \in BOOLEAN /\ event' \in BOOLEAN
          BY <3>2 DEF WriteAccepted, Store, CheckUpdate
        <4>4. QED
          BY <4>1, <4>2, <4>3 DEF StatefulSet
      <3>3. QED
        BY <1>4, <3>1, <3>2 DEF Write, WriteInPlace, WriteConflict, WriteRejected
    <2>3. /\ first' \in 0..MaxReplicas /\ passed' \subseteq 0..MaxReplicas
          /\ taint' \subseteq Taints
      <3>1. CASE UNCHANGED historyVars
        BY <3>1 DEF historyVars
      <3>2. CASE WriteAccepted
        BY <3>2 DEF WriteAccepted, RecordWrite, Bases, Taints
      <3>3. QED
        BY <1>4, <3>1, <3>2 DEF Write, WriteInPlace, WriteConflict, WriteRejected
    <2>4. /\ timer' \in Int /\ pc' \in {"idle", "write", "cleanup"}
          /\ \/ dec' = dec
             \/ dec' = NoDecision
      <3>1. Continue \/ Retry(0) \/ Retry(IF now < MaxTime THEN 1 ELSE 0)
        BY <1>4 DEF Write, WriteInPlace, WriteConflict, WriteRejected, WriteAccepted
      <3>2. QED
        BY <3>1 DEF Continue, Finish, Retry, Idle, Earliest
    <2>5. QED
      BY <2>1, <2>2, <2>3, <2>4, NoDecisionType DEF cacheVars, podVars
  <1>5. ASSUME Cleanup PROVE TypeOK'
    <2>1. /\ timer' \in Int /\ pc' = "idle" /\ dec' = NoDecision
      BY <1>5 DEF Cleanup, Finish, Retry, Idle, Earliest
    <2>2. pods' \in [Ordinals -> Pod]
      <3>1. NoPod \in Pod
        BY DEF NoPod, Pod
      <3>2. pods' = pods \/ pods' = [pods EXCEPT ![dec.partition] = NoPod]
        BY <1>5 DEF Cleanup
      <3>3. QED
        BY <3>1, <3>2
    <2>3. QED
      BY <1>5, <2>1, <2>2, NoDecisionType
         DEF Cleanup, clusterVars, cacheVars, historyVars
  <1>6. QED
    BY <1>2, <1>3, <1>4, <1>5 DEF Worker

\* A step of a client, of the API server, of a cache, of the StatefulSet
\* controller or of a pod keeps the types.
LEMMA ClusterType ==
  ASSUME TypeOK,
         \/ Informers \/ Resync \/ Kubelet \/ Controller \/ Tick \/ Environment
  PROVE  TypeOK'
  <1> USE DEF TypeOK
  <1> USE DEF clusterVars, cacheVars, podVars, workerVars, historyVars
  <1>1. CASE Informers
    BY <1>1 DEF Informers, DeliverStatefulSet, DeliverPods
  <1>2. CASE Resync
    BY <1>2 DEF Resync
  <1>3. CASE Tick
    BY <1>3 DEF Tick
  <1>4. /\ NoPod \in Pod
        /\ \A i \in Ordinals, b \in BOOLEAN : [pods[i] EXCEPT !.ready = b] \in Pod
        /\ \A r \in Revisions : [rev |-> r, ready |-> FALSE] \in Pod
        /\ sts.currentRevision \in Revisions /\ sts.rev \in Revisions
    BY DEF NoPod, Pod, Revisions, StatefulSet
  <1>5. CASE Kubelet
    BY <1>4, <1>5 DEF Kubelet, PodBecomesReady, SetPod
  <1>6. CASE Controller
    <2>1. CASE PublishStatus
      <3>1. sts' \in StatefulSet /\ stale' \in BOOLEAN /\ event' \in BOOLEAN
        BY <2>1, StatusType DEF PublishStatus, Store, CheckUpdate
      <3>2. QED
        BY <2>1, <3>1 DEF PublishStatus
    <2>2. CASE \E i \in Ordinals : CreatePod(i)
      BY <1>4, <2>2 DEF CreatePod, Sync, SetPod
    <2>3. CASE \E i \in Ordinals : CondemnPod(i) \/ RollPod(i)
      BY <1>4, <2>3 DEF CondemnPod, RollPod, Sync, SetPod
    <2>4. QED
      BY <1>6, <2>1, <2>2, <2>3 DEF Controller
  <1>7. CASE Environment
    <2>1. ASSUME NEW kind, Disturb(kind) PROVE left' \in 0..MaxDisturbances
      BY <2>1 DEF Disturb
    <2>2. ASSUME NEW r \in ReplicaCounts, UpdateTemplate(r) PROVE TypeOK'
      <3> DEFINE c == ConfigureForRollout([sts EXCEPT !.replicas = r,
                                                      !.rev = sts.rev + 1])
      <3>1. c \in StatefulSet
        <4> DEFINE d == [sts EXCEPT !.replicas = r, !.rev = sts.rev + 1]
        <4>1. sts.rev + 1 \in Revisions /\ r \in 0..MaxReplicas
          BY <1>4, <2>2 DEF UpdateTemplate, Revisions
        <4>2. d \in StatefulSet
          BY <4>1 DEF StatefulSet
        <4> HIDE DEF d
        <4>3. ConfigureForRollout(d) \in StatefulSet
          <5> DEFINE p == IF d.replicas < d.statusReplicas
                            THEN d.replicas ELSE d.statusReplicas
          <5>1. p \in 0..MaxReplicas /\ "Pending" \in States /\ now \in -1..MaxTime
            BY <4>2 DEF StatefulSet, States
          <5>2. ConfigureForRollout(d) =
                  [d EXCEPT !.partition = p, !.state = "Pending", !.start = now]
            BY DEF ConfigureForRollout
          <5> HIDE DEF p, TypeOK
          <5>3. QED
            BY <4>2, <5>1, <5>2 DEF StatefulSet
        <4>4. QED
          BY <4>3 DEF d
      <3>2. sts' = c /\ stale' \in BOOLEAN /\ event' \in BOOLEAN
        BY <2>2 DEF UpdateTemplate, Store, CheckUpdate
      <3>3. first' \in 0..MaxReplicas
        BY <2>2, <3>1, <3>2 DEF UpdateTemplate, StatefulSet
      <3>4. left' \in 0..MaxDisturbances
        BY <2>1, <2>2 DEF UpdateTemplate
      <3> HIDE DEF c
      <3>5. QED
        BY <2>2, <3>1, <3>2, <3>3, <3>4 DEF UpdateTemplate
    <2>3. ASSUME NEW r \in ReplicaCounts, Scale(r) PROVE TypeOK'
      <3>1. sts' \in StatefulSet /\ stale' \in BOOLEAN /\ event' \in BOOLEAN
        BY <2>3 DEF Scale, Store, CheckUpdate, StatefulSet
      <3>2. QED
        BY <2>1, <2>3, <3>1 DEF Scale
    <2>4. CASE Reapply
      <3>1. sts' = [sts EXCEPT !.partition = 0, !.state = "none",
                               !.start = NoStart]
        BY <2>4 DEF Reapply, Store
      <3>2. sts' \in StatefulSet
        <4>1. /\ 0 \in 0..MaxReplicas /\ "none" \in States
              /\ NoStart \in -1..MaxTime
          BY DEF States, NoStart
        <4>2. QED
          BY <3>1, <4>1 DEF StatefulSet
      <3>3. stale' \in BOOLEAN /\ event' \in BOOLEAN
        BY <2>4 DEF Reapply, Store, CheckUpdate
      <3>4. left' \in 0..MaxDisturbances
        BY <2>1, <2>4 DEF Reapply
      <3>5. taint' \subseteq Taints
        BY <2>4 DEF Reapply, Taints
      <3> HIDE DEF StatefulSet
      <3>6. QED
        BY <2>4, <3>2, <3>3, <3>4, <3>5 DEF Reapply
    <2>5. ASSUME NEW i \in Ordinals, PodFails(i) PROVE TypeOK'
      BY <1>4, <2>1, <2>5 DEF PodFails, SetPod
    <2>6. CASE APIError
      BY <2>1, <2>6, NoDecisionType DEF APIError, Retry, Idle, Earliest
    <2>7. CASE Crash
      <3>1. left' \in 0..MaxDisturbances
        BY <2>1, <2>7 DEF Crash
      <3>2. podCache' \in [Ordinals -> Pod]
        BY <2>7 DEF Crash
      <3>3. timer' \in Int /\ pc' = "idle" /\ dec' = NoDecision
        BY <2>7 DEF Crash, Idle, NoTimer
      <3>4. QED
        BY <2>7, <3>1, <3>2, <3>3, NoDecisionType DEF Crash
    <2>8. CASE \E r \in ReplicaCounts : UpdateTemplate(r) \/ Scale(r)
      BY <2>2, <2>3, <2>8
    <2>9. CASE \E i \in Ordinals : PodFails(i)
      BY <2>5, <2>9
    <2> HIDE DEF TypeOK
    <2>10. QED
      BY <1>7, <2>4, <2>6, <2>7, <2>8, <2>9 DEF Environment
  <1>8. QED
    BY <1>1, <1>2, <1>3, <1>5, <1>6, <1>7

LEMMA InitType == Init => TypeOK
  <1> SUFFICES ASSUME Init PROVE TypeOK
    OBVIOUS
  <1>1. sts \in StatefulSet
    <2>1. /\ ReplicaCounts \subseteq 0..MaxReplicas
          /\ 0 \in 0..MaxReplicas /\ InitialRevisions \subseteq Revisions
          /\ 0 \in -1..MaxTime /\ 0 \in 0..MaxRevision
          /\ "CanaryUpscale" \in States
      BY DEF Revisions, States
    <2>2. PICK r \in ReplicaCounts, v \in InitialRevisions :
            sts = [replicas |-> r, partition |-> 0, state |-> "CanaryUpscale",
                   rev |-> v, start |-> 0, statusReplicas |-> 0,
                   readyReplicas |-> 0, updatedReplicas |-> 0,
                   updateRevision |-> 0, currentRevision |-> v]
      BY DEF Init
    <2>3. QED
      BY <2>1, <2>2 DEF StatefulSet
  <1>2. cache \in StatefulSet
    BY <1>1 DEF Init
  <1>3. NoPod \in Pod
    BY DEF NoPod, Pod
  <1>4. pods \in [Ordinals -> Pod] /\ podCache \in [Ordinals -> Pod]
    BY <1>3 DEF Init
  <1>5. timer \in Int /\ now \in 0..MaxTime /\ left \in 0..MaxDisturbances
    BY DEF Init, NoTimer
  <1>6. first \in 0..MaxReplicas /\ passed \subseteq 0..MaxReplicas
        /\ taint \subseteq Taints
    BY DEF Init
  <1>7. QED
    BY <1>1, <1>2, <1>4, <1>5, <1>6, NoDecisionType DEF Init, TypeOK

LEMMA NextType == TypeOK /\ [Next]_vars => TypeOK'
  <1> SUFFICES ASSUME TypeOK, [Next]_vars PROVE TypeOK'
    OBVIOUS
  <1>1. CASE Next
    BY <1>1, WorkerType, ClusterType DEF Next
  <1>2. CASE UNCHANGED vars
    BY <1>2 DEF vars, TypeOK
  <1>3. QED
    BY <1>1, <1>2

\* Every variable keeps its type, whatever clients, caches, pods and crashes
\* do: no write of updateStatefulSet stores a partition out of range.
THEOREM TypeCorrect == Spec => []TypeOK
  BY InitType, NextType, PTL DEF Spec

-----------------------------------------------------------------------------
(* The inductive invariant, step by step *)

\* What the proofs use of the types.
LEMMA Ranges ==
  ASSUME TypeOK
  PROVE  /\ sts.partition \in 0..MaxReplicas /\ cache.partition \in 0..MaxReplicas
         /\ sts.rev \in Revisions /\ cache.rev \in Revisions
         /\ sts.state \in States /\ cache.state \in States
         /\ sts.updateRevision \in 0..MaxRevision
         /\ cache.updateRevision \in 0..MaxRevision
         /\ sts.currentRevision \in Revisions
         /\ \A i \in Ordinals : /\ pods[i] \in Pod /\ pods[i].rev \in 0..MaxRevision
                                /\ podCache[i].rev \in 0..MaxRevision
         /\ dec.base.rev \in Revisions /\ dec.partition \in -1..MaxReplicas
         /\ dec.base.partition \in 0..MaxReplicas
         /\ first \in 0..MaxReplicas
  BY DEF TypeOK, StatefulSet, Pod, Bases

\* A step that neither decides nor touches the StatefulSet, a cache or a pod.
Quiet ==
  /\ UNCHANGED <<clusterVars, cacheVars, pods, historyVars>>
  /\ \/ UNCHANGED workerVars
     \/ pc' # "write" /\ dec' \in {dec, NoDecision}

LEMMA QuietSteps ==
  ASSUME IInv, Quiet
  PROVE  WalkInv'
  <1> USE DEF Quiet, clusterVars, cacheVars, historyVars, workerVars
  <1>1. CASE UNCHANGED workerVars
    BY <1>1 DEF IInv, WalkInv, CacheInv, CurrentInv, PodInv, PhaseInv, DecisionInv,
                WitnessInv, MovesPast, Overtaken, WalkInOrder, PassedPodsUpdated
  <1>2. CASE pc' # "write" /\ dec' \in {dec, NoDecision}
    <2>1. CacheInv'
      BY <1>2, Ranges DEF IInv, WalkInv, CacheInv, NoDecision, Revisions
    <2>2. CurrentInv' /\ PodInv' /\ PhaseInv'
      BY DEF IInv, WalkInv, CurrentInv, PodInv, PhaseInv
    <2>3. DecisionInv' /\ WitnessInv'
      BY <1>2 DEF DecisionInv, WitnessInv
    <2>4. WalkInOrder' /\ PassedPodsUpdated'
      BY DEF IInv, WalkInv, WalkInOrder, PassedPodsUpdated
    <2>5. QED
      BY <2>1, <2>2, <2>3, <2>4 DEF WalkInv
  <1>3. QED
    BY <1>1, <1>2

\* A step that changes one pod: it is deleted, keeps its template, or is
\* created as its side of the partition demands.
PodStep ==
  /\ UNCHANGED <<clusterVars, cacheVars, historyVars>>
  /\ \/ UNCHANGED workerVars
     \/ pc' # "write" /\ dec' \in {dec, NoDecision}
  /\ \E i \in Ordinals, p \in Pod :
       /\ pods' = [pods EXCEPT ![i] = p]
       /\ \/ p.rev \in {0, pods[i].rev}
          \/ i < sts.partition /\ p.rev = sts.currentRevision
          \/ i >= sts.partition /\ p.rev = sts.rev

\* Ordinals the reconciler has moved past are not below the partition.
LEMMA PassedAbovePartition ==
  ASSUME IInv, taint = {}, NEW i \in passed
  PROVE  i \in Ordinals /\ i >= sts.partition
  BY Ranges DEF IInv, WalkInv, WalkInOrder, PhaseInv, Ordinals

LEMMA PodSteps ==
  ASSUME IInv, PodStep
  PROVE  WalkInv'
  <1> USE DEF clusterVars, cacheVars, historyVars, workerVars
  <1>1. PICK i \in Ordinals, p \in Pod :
          /\ pods' = [pods EXCEPT ![i] = p]
          /\ \/ p.rev \in {0, pods[i].rev}
             \/ i < sts.partition /\ p.rev = sts.currentRevision
             \/ i >= sts.partition /\ p.rev = sts.rev
    BY DEF PodStep
  <1>2. /\ pods'[i] = p
        /\ \A j \in Ordinals : j # i => pods'[j] = pods[j]
    BY <1>1 DEF IInv, TypeOK
  <1>3. /\ UNCHANGED <<sts, cache, stale, event, podCache, first, passed, taint>>
        /\ \/ UNCHANGED <<pc, dec>>
           \/ pc' # "write" /\ dec' \in {dec, NoDecision}
    BY DEF PodStep
  <1>4. CacheInv'
    BY <1>1, <1>2, <1>3, Ranges DEF IInv, WalkInv, CacheInv, NoDecision, Revisions
  <1>5. CurrentInv'
    BY <1>1, <1>2, <1>3 DEF IInv, WalkInv, CurrentInv
  <1>6. PodInv'
    BY <1>1, <1>2, <1>3, Ranges DEF IInv, WalkInv, PodInv, CurrentInv, Revisions, Ordinals
  <1>7. PhaseInv' /\ WalkInOrder'
    BY <1>3 DEF IInv, WalkInv, PhaseInv, WalkInOrder
  <1>8. DecisionInv'
    BY <1>3 DEF IInv, WalkInv, DecisionInv
  <1>9. WitnessInv'
    BY <1>1, <1>2, <1>3, Ranges DEF IInv, WalkInv, WitnessInv, MovesPast, Overtaken
  <1>10. PassedPodsUpdated'
    BY <1>1, <1>2, <1>3, PassedAbovePartition, Ranges
       DEF IInv, WalkInv, PassedPodsUpdated, Ordinals
  <1>11. QED
    BY <1>4, <1>5, <1>6, <1>7, <1>8, <1>9, <1>10 DEF WalkInv

\* A reconcile that decides to write: what it decided follows from the state
\* it read, and a pod it moves past has been seen updated.
Decides ==
  \/ UpdateTimesOut \/ UpscaleDone \/ UpscaleMoves \/ CanaryFails
  \/ RolloutDone \/ RolloutMoves \/ PendingUpscales \/ PendingCanary

LEMMA DecideSteps ==
  ASSUME IInv, Decides
  PROVE  WalkInv'
  <1>1. /\ UNCHANGED <<sts, cache, stale, event, pods, podCache, first, passed, taint>>
        /\ pc' = "write" /\ dec'.base = Basis(cache)
    BY DEF Decides, UpdateTimesOut, UpscaleDone, UpscaleMoves, CanaryFails,
           RolloutDone, RolloutMoves, PendingUpscales, PendingCanary, TakeRollout,
           TakeLive, Take, Unaffected, Update, clusterVars, cacheVars, podVars,
           historyVars
  <1>2. CacheInv'
    BY <1>1 DEF IInv, WalkInv, CacheInv, Basis
  <1>3. CurrentInv' /\ PodInv' /\ PhaseInv' /\ WalkInOrder' /\ PassedPodsUpdated'
    BY <1>1 DEF IInv, WalkInv, CurrentInv, PodInv, PhaseInv, WalkInOrder,
                PassedPodsUpdated
  <1>4. DecisionInv'
    <2> USE <1>1, Ranges DEF DecisionInv, IInv, Update, Basis, States, Take, TakeLive,
                             TakeRollout
    <2>1. CASE UpdateTimesOut
      BY <2>1 DEF UpdateTimesOut
    <2>2. CASE UpscaleDone \/ UpscaleMoves
      BY <2>2 DEF UpscaleDone, UpscaleMoves
    <2>3. CASE CanaryFails
      BY <2>3 DEF CanaryFails
    <2>4. CASE RolloutDone \/ RolloutMoves
      BY <2>4 DEF RolloutDone, RolloutMoves
    <2>5. CASE PendingUpscales \/ PendingCanary
      BY <2>5 DEF PendingUpscales, PendingCanary
    <2>6. QED
      BY <2>1, <2>2, <2>3, <2>4, <2>5 DEF Decides
  <1>5. WitnessInv'
    <2> SUFFICES ASSUME taint = {}, MovesPast', ~Overtaken',
                        cache.updateRevision = cache.rev
                 PROVE  /\ cache.partition \in Ordinals
                        /\ pods[cache.partition].rev \in {0, sts.rev}
      BY <1>1 DEF WitnessInv, Basis
    <2>1. PartitionPodIsReadyAndUpdated
      BY <1>1 DEF Decides, UpdateTimesOut, UpscaleDone, UpscaleMoves, CanaryFails,
                  RolloutDone, RolloutMoves, PendingUpscales, PendingCanary,
                  TakeRollout, TakeLive, Take, Update, MovesPast, Basis
    <2>2. cache.rev = sts.rev /\ cache.partition = sts.partition
      BY <1>1 DEF Overtaken, Basis
    <2>3. /\ cache.partition \in Ordinals
          /\ PodView[cache.partition].rev = sts.rev
      BY <2>1, <2>2 DEF PartitionPodIsReadyAndUpdated, PodAt, NoPod
    <2>4. QED
      BY <2>2, <2>3, Ranges DEF PodView, IInv, WalkInv, PodInv
  <1>6. QED
    BY <1>2, <1>3, <1>4, <1>5 DEF WalkInv

\* The other outcomes of a reconcile's first half change nothing else.
LEMMA WaitSteps ==
  ASSUME Terminal \/ Uncontrolled \/ UpscaleWaits \/ RolloutWaits
  PROVE  Quiet
  BY DEF Terminal, Uncontrolled, UpscaleWaits, RolloutWaits, TakeRollout, TakeLive, Take,
         Unaffected, Return, Finish, Idle, Quiet, clusterVars, cacheVars, podVars,
         historyVars, workerVars

\* The accepted write: the new version differs from the one it replaces by the
\* decision, and an untainted decision was taken on that version.
LEMMA WriteSteps ==
  ASSUME IInv, WriteAccepted
  PROVE  WalkInv'
  <1> DEFINE b == dec.base
  <1>1. /\ sts' = [sts EXCEPT !.partition = dec.partition, !.state = dec.state]
        /\ sts \in StatefulSet /\ stale'
        /\ UNCHANGED <<cache, podCache, pods, first>>
        /\ pc' # "write" /\ dec' \in {dec, NoDecision}
    BY DEF WriteAccepted, Store, IInv, WalkInv, CacheInv, TypeOK, cacheVars, podVars,
           RecordWrite, Continue, Finish, Idle
  <1>2. /\ sts'.partition = dec.partition /\ sts'.state = dec.state
        /\ sts'.rev = sts.rev /\ sts'.updateRevision = sts.updateRevision
        /\ sts'.currentRevision = sts.currentRevision
    BY <1>1 DEF StatefulSet
  <1>3. "overtaken" \notin taint' =>
          /\ "overtaken" \notin taint
          /\ b.rev = sts.rev /\ b.partition = sts.partition /\ b.state = sts.state
    BY DEF WriteAccepted, RecordWrite, Overtaken
  <1>4. taint' = {} =>
          /\ taint = {}
          /\ MovesPast => b.updateRevision = b.rev
          /\ "CanaryUpscale" \in {dec.state, b.state} => dec.partition = b.partition
          /\ passed' = IF MovesPast THEN passed \cup {b.partition} ELSE passed
    BY <1>3 DEF WriteAccepted, RecordWrite, Overtaken, Moved
  <1>5. PICK d \in {"Failed", "Done", "Rollout", "Canary", "CanaryUpscale"} :
          /\ dec.state = d /\ b.state \notin {"Done", "Failed"}
          /\ d = "Failed" => dec.partition = b.partition
          /\ d = "Done" => /\ dec.partition = 0 /\ b.partition = 0
                           /\ b.state \in {"CanaryUpscale", "Canary", "Rollout"}
          /\ d = "Rollout" => /\ dec.partition = b.partition - 1
                              /\ b.state \in {"CanaryUpscale", "Canary", "Rollout"}
          /\ d = "Canary" => dec.partition = b.partition - 1 /\ b.state = "Pending"
          /\ d = "CanaryUpscale" =>
               /\ b.state = "Pending"
               /\ \/ dec.partition = b.partition - 1
                  \/ dec.partition = 0 /\ b.partition = 0
    BY DEF WriteAccepted, IInv, WalkInv, DecisionInv
  <1>6. CacheInv'
    BY <1>1, <1>2, Ranges DEF IInv, WalkInv, CacheInv, NoDecision, Revisions
  <1>7. CurrentInv'
    BY <1>1, <1>2 DEF IInv, WalkInv, CurrentInv
  <1>8. PodInv'
    <2>1. "overtaken" \notin taint' => sts'.partition <= sts.partition
      BY <1>2, <1>3, <1>5, Ranges DEF IInv
    <2>2. QED
      BY <1>1, <1>2, <1>3, <2>1, Ranges
         DEF IInv, WalkInv, PodInv, CurrentInv, Ordinals
  <1>9. PhaseInv'
    BY <1>1, <1>2, <1>3, <1>4, <1>5, Ranges DEF IInv, WalkInv, PhaseInv
  <1>10. DecisionInv' /\ WitnessInv'
    BY <1>1 DEF DecisionInv, WitnessInv
  <1>11. WalkInOrder'
    <2> SUFFICES ASSUME taint' = {}
                 PROVE  passed' = {i \in Ordinals : dec.partition < i /\ i < first}
                          \cup (IF dec.state = "Done" /\ first > 0 THEN {0} ELSE {})
      BY <1>1, <1>2 DEF WalkInOrder
    <2>1. passed = {i \in Ordinals : b.partition < i /\ i < first}
      BY <1>3, <1>4, <1>5 DEF IInv, WalkInv, WalkInOrder
    <2>2. CASE dec.state \in {"Failed", "Canary", "CanaryUpscale"}
      BY <1>3, <1>4, <1>5, <2>1, <2>2, Ranges
         DEF IInv, WalkInv, PhaseInv, MovesPast, Ordinals
    <2>3. CASE dec.state = "Done"
      BY <1>3, <1>4, <1>5, <2>1, <2>3, Ranges
         DEF IInv, WalkInv, PhaseInv, MovesPast, Ordinals
    <2>4. CASE dec.state = "Rollout"
      BY <1>3, <1>4, <1>5, <2>1, <2>4, Ranges
         DEF IInv, WalkInv, PhaseInv, MovesPast, Ordinals
    <2>5. QED
      BY <1>5, <2>2, <2>3, <2>4
  <1>12. PassedPodsUpdated'
    <2> SUFFICES ASSUME taint' = {}, NEW i \in passed'
                 PROVE  pods[i].rev \in {0, sts.rev}
      BY <1>1, <1>2 DEF PassedPodsUpdated
    <2>1. CASE i \in passed
      BY <1>4, <2>1 DEF IInv, WalkInv, PassedPodsUpdated
    <2>2. CASE i = b.partition /\ MovesPast
      BY <1>3, <1>4, <2>2 DEF IInv, WalkInv, WitnessInv, Overtaken, WriteAccepted
    <2>3. QED
      BY <1>4, <2>1, <2>2
  <1>13. QED
    BY <1>6, <1>7, <1>8, <1>9, <1>10, <1>11, <1>12 DEF WalkInv

\* The status published by the StatefulSet controller names the template, and
\* calls it current only when every pod has it.
LEMMA StatusSteps ==
  ASSUME IInv, PublishStatus
  PROVE  WalkInv'
  <1>1. CASE sts = Status(sts)
    BY <1>1, QuietSteps
       DEF PublishStatus, Quiet, clusterVars, cacheVars, historyVars, workerVars
  <1>2. CASE sts # Status(sts)
    <2>1. /\ sts' = Status(sts) /\ stale' /\ sts \in StatefulSet
          /\ UNCHANGED <<cache, pods, podCache, pc, dec, first, passed, taint>>
      BY <1>2 DEF PublishStatus, Store, IInv, TypeOK, cacheVars, workerVars,
                  historyVars
    <2>2. /\ sts'.partition = sts.partition /\ sts'.state = sts.state
          /\ sts'.rev = sts.rev /\ sts'.updateRevision = sts.rev
      BY <2>1 DEF Status, StatefulSet
    <2>3. \/ sts'.currentRevision = sts.currentRevision
          \/ /\ sts'.currentRevision = sts.rev
             /\ {i \in Ordinals : pods[i].rev = sts.rev} = {i \in Ordinals : Exists(i)}
      BY <2>1 DEF Status, StatefulSet
    <2>4. sts.currentRevision = sts.rev => sts'.currentRevision = sts.rev
      BY <2>3
    <2>5. CacheInv'
      BY <2>1, <2>2, <2>3, Ranges DEF IInv, WalkInv, CacheInv, Revisions
    <2>6. CurrentInv'
      BY <2>1, <2>2, <2>3 DEF IInv, WalkInv, CurrentInv, Exists
    <2>7. PodInv' /\ PhaseInv'
      BY <2>1, <2>2, <2>4 DEF IInv, WalkInv, PodInv, PhaseInv
    <2>8. DecisionInv' /\ WitnessInv'
      BY <2>1, <2>2 DEF IInv, WalkInv, DecisionInv, WitnessInv, MovesPast, Overtaken
    <2>9. WalkInOrder' /\ PassedPodsUpdated'
      BY <2>1, <2>2 DEF IInv, WalkInv, WalkInOrder, PassedPodsUpdated
    <2>10. QED
      BY <2>5, <2>6, <2>7, <2>8, <2>9 DEF WalkInv
  <1>3. QED
    BY <1>1, <1>2

\* A cache catches up with the server.
LEMMA InformerSteps ==
  ASSUME IInv, Informers
  PROVE  WalkInv'
  <1>1. CASE DeliverStatefulSet
    <2>1. /\ cache' = sts /\ stale' = FALSE /\ event' = FALSE
          /\ UNCHANGED <<sts, pods, podCache, pc, dec, first, passed, taint>>
      BY <1>1 DEF DeliverStatefulSet, podVars, workerVars, historyVars
    <2>2. CacheInv'
      BY <2>1, Ranges DEF IInv, WalkInv, CacheInv, Revisions
    <2>3. QED
      BY <2>1, <2>2 DEF IInv, WalkInv, CurrentInv, PodInv, PhaseInv, DecisionInv,
                        WitnessInv, MovesPast, Overtaken, WalkInOrder, PassedPodsUpdated
  <1>2. CASE DeliverPods
    <2>1. /\ podCache' = pods
          /\ UNCHANGED <<sts, cache, stale, event, pods, pc, dec, first, passed, taint>>
      BY <1>2 DEF DeliverPods, clusterVars, podVars, workerVars, historyVars
    <2>2. PodInv' /\ CacheInv'
      BY <2>1 DEF IInv, WalkInv, PodInv, CacheInv
    <2>3. QED
      BY <2>1, <2>2 DEF IInv, WalkInv, CurrentInv, PhaseInv, DecisionInv,
                        WitnessInv, MovesPast, Overtaken, WalkInOrder, PassedPodsUpdated
  <1>3. QED
    BY <1>1, <1>2 DEF Informers

\* The restarted operator reads the current objects.
LEMMA CrashSteps ==
  ASSUME IInv, Crash
  PROVE  WalkInv'
  <1>1. /\ cache' = sts /\ podCache' \in {pods, podCache}
        /\ stale' = FALSE /\ event' = FALSE /\ pc' = "idle" /\ dec' = NoDecision
        /\ UNCHANGED <<sts, pods, first, passed, taint>>
    BY DEF Crash, Idle, podVars, historyVars
  <1>2. CacheInv'
    BY <1>1, Ranges DEF IInv, WalkInv, CacheInv, NoDecision, Revisions
  <1>3. PodInv'
    BY <1>1 DEF IInv, WalkInv, PodInv
  <1>4. QED
    BY <1>1, <1>2, <1>3 DEF IInv, WalkInv, CurrentInv, PhaseInv, DecisionInv,
                            WitnessInv, WalkInOrder, PassedPodsUpdated

\* A new template: no pod, no revision of the status and no decision has it.
LEMMA TemplateSteps ==
  ASSUME IInv, NEW r \in ReplicaCounts, UpdateTemplate(r)
  PROVE  WalkInv'
  <1>1. /\ sts' = ConfigureForRollout([sts EXCEPT !.replicas = r, !.rev = sts.rev + 1])
        /\ sts \in StatefulSet /\ stale' /\ first' = sts'.partition
        /\ passed' = {} /\ taint' = {}
        /\ UNCHANGED <<cache, pods, podCache, pc, dec>>
    BY DEF UpdateTemplate, Store, IInv, TypeOK, cacheVars, podVars, workerVars
  <1>2. /\ sts'.rev = sts.rev + 1 /\ sts'.state = "Pending"
        /\ sts'.updateRevision = sts.updateRevision
        /\ sts'.currentRevision = sts.currentRevision
    BY <1>1 DEF ConfigureForRollout, StatefulSet
  <1>3. /\ sts.rev \in Int /\ dec.base.rev \in Int /\ cache.rev \in Int
        /\ sts.updateRevision \in Int /\ sts.currentRevision \in Int
        /\ \A i \in Ordinals : pods[i].rev \in Int /\ podCache[i].rev \in Int
    BY Ranges DEF IInv, Revisions
  <1>4. CacheInv'
    BY <1>1, <1>2, <1>3 DEF IInv, WalkInv, CacheInv
  <1>5. CurrentInv' /\ PodInv'
    BY <1>1, <1>2, <1>3 DEF IInv, WalkInv, CacheInv, CurrentInv, PodInv
  <1>6. PhaseInv' /\ PassedPodsUpdated'
    BY <1>1, <1>2 DEF PhaseInv, PassedPodsUpdated
  <1>7. DecisionInv'
    BY <1>1 DEF IInv, WalkInv, DecisionInv
  <1>8. WitnessInv'
    BY <1>1, <1>2, <1>3 DEF IInv, WalkInv, CacheInv, WitnessInv, Overtaken
  <1>9. WalkInOrder'
    <2>1. sts'.partition \in Int
      <3>1. TypeOK'
        BY NextType DEF IInv, Next, Environment
      <3>2. QED
        BY <3>1 DEF TypeOK, StatefulSet
    <2>2. QED
      BY <1>1, <1>2, <2>1 DEF WalkInOrder, Ordinals
  <1>10. QED
    BY <1>4, <1>5, <1>6, <1>7, <1>8, <1>9 DEF WalkInv

\* A new size changes nothing the invariant is about.
LEMMA ScaleSteps ==
  ASSUME IInv, NEW r \in ReplicaCounts, Scale(r)
  PROVE  WalkInv'
  <1>1. /\ sts' = [sts EXCEPT !.replicas = r] /\ sts \in StatefulSet /\ stale'
        /\ UNCHANGED <<cache, pods, podCache, pc, dec, first, passed, taint>>
    BY DEF Scale, Store, IInv, TypeOK, cacheVars, podVars, workerVars, historyVars
  <1>2. /\ sts'.rev = sts.rev /\ sts'.state = sts.state
        /\ sts'.partition = sts.partition
        /\ sts'.updateRevision = sts.updateRevision
        /\ sts'.currentRevision = sts.currentRevision
    BY <1>1 DEF StatefulSet
  <1>3. CacheInv' /\ CurrentInv' /\ PodInv' /\ PhaseInv'
    BY <1>1, <1>2 DEF IInv, WalkInv, CacheInv, CurrentInv, PodInv, PhaseInv
  <1>4. QED
    BY <1>1, <1>2, <1>3 DEF IInv, WalkInv, DecisionInv, WitnessInv, MovesPast, Overtaken,
                            WalkInOrder, PassedPodsUpdated

\* A wiped rollout exposes every pod, and those that had the new template
\* behind the partition had it because all pods have it.
LEMMA ReapplySteps ==
  ASSUME IInv, Reapply
  PROVE  WalkInv'
  <1>1. /\ sts' = [sts EXCEPT !.partition = 0, !.state = "none", !.start = NoStart]
        /\ sts \in StatefulSet /\ stale' /\ taint' = taint \cup {"reapply"}
        /\ UNCHANGED <<cache, pods, podCache, pc, dec, first, passed>>
    BY DEF Reapply, Store, IInv, TypeOK, cacheVars, podVars, workerVars
  <1>2. /\ sts'.rev = sts.rev /\ sts'.partition = 0
        /\ sts'.updateRevision = sts.updateRevision
        /\ sts'.currentRevision = sts.currentRevision
    BY <1>1 DEF StatefulSet
  <1>3. CacheInv' /\ CurrentInv'
    BY <1>1, <1>2 DEF IInv, WalkInv, CacheInv, CurrentInv
  <1>4. PodInv'
    BY <1>1, <1>2, Ranges DEF IInv, WalkInv, PodInv, CurrentInv, Ordinals
  <1>5. DecisionInv'
    BY <1>1 DEF IInv, WalkInv, DecisionInv
  <1>6. PhaseInv' /\ WitnessInv' /\ WalkInOrder' /\ PassedPodsUpdated'
    BY <1>1 DEF PhaseInv, WitnessInv, WalkInOrder, PassedPodsUpdated
  <1>7. QED
    BY <1>3, <1>4, <1>5, <1>6 DEF WalkInv

\* The worker's steps.
LEMMA WorkerSteps ==
  ASSUME IInv, Worker
  PROVE  WalkInv'
  <1>1. CASE TimerFires
    BY <1>1, QuietSteps DEF TimerFires, Quiet, podVars
  <1>2. CASE Decide
    BY <1>2, QuietSteps, WaitSteps, DecideSteps DEF Decide, Decides
  <1>3. CASE Write
    <2>1. CASE WriteAccepted
      BY <2>1, WriteSteps
    <2>2. CASE WriteInPlace \/ WriteConflict \/ WriteRejected
      <3>1. Quiet
        BY <2>2 DEF WriteInPlace, WriteConflict, WriteRejected, Continue, Finish, Retry,
                    Idle, Quiet, podVars, workerVars
      <3>2. QED
        BY <3>1, QuietSteps
    <2>3. QED
      BY <1>3, <2>1, <2>2 DEF Write
  <1>4. CASE Cleanup
    <2>1. pc' # "write" /\ dec' = NoDecision
      BY <1>4 DEF Cleanup, Finish, Retry, Idle
    <2>2. UNCHANGED <<clusterVars, cacheVars, historyVars>>
      BY <1>4 DEF Cleanup
    <2>3. CASE UNCHANGED pods
      BY <2>1, <2>2, <2>3, QuietSteps DEF Quiet
    <2>4. CASE ~UNCHANGED pods
      <3>1. /\ Exists(dec.partition)
            /\ pods' = [pods EXCEPT ![dec.partition] = NoPod]
            /\ PodAt(PodView, dec.partition).rev # 0
        BY <1>4, <2>4 DEF Cleanup
      <3>2. dec.partition \in Ordinals /\ NoPod \in Pod /\ NoPod.rev = 0
        BY <3>1 DEF PodAt, NoPod, Pod
      <3>3. PodStep
        BY <2>1, <2>2, <3>1, <3>2 DEF PodStep
      <3>4. QED
        BY <3>3, PodSteps
    <2>5. QED
      BY <2>3, <2>4
  <1>5. QED
    BY <1>1, <1>2, <1>3, <1>4 DEF Worker

\* The steps of the StatefulSet controller and of the kubelets.
LEMMA ClusterSteps ==
  ASSUME IInv, Kubelet \/ Controller \/ \E i \in Ordinals : PodFails(i)
  PROVE  WalkInv'
  <1> USE DEF SetPod, historyVars
  <1>1. ASSUME NEW i \in Ordinals, NEW b \in BOOLEAN
        PROVE  /\ [pods[i] EXCEPT !.ready = b] \in Pod
               /\ [pods[i] EXCEPT !.ready = b].rev = pods[i].rev
    BY Ranges DEF IInv, Pod
  <1>2. /\ sts.rev \in 0..MaxRevision /\ sts.currentRevision \in 0..MaxRevision
        /\ sts.partition \in Int
    BY Ranges DEF IInv, Revisions
  <1>3. ASSUME NEW i \in Ordinals, PodBecomesReady(i) \/ PodFails(i)
        PROVE  PodStep
    BY <1>1, <1>3 DEF PodBecomesReady, PodFails, PodStep
  <1>4. ASSUME NEW i \in Ordinals, CreatePod(i)
        PROVE  PodStep
    <2> DEFINE p == [rev |-> IF i < sts.partition THEN sts.currentRevision
                                                  ELSE sts.rev,
                     ready |-> FALSE]
    <2>1. p \in Pod
      BY <1>2 DEF Pod
    <2>2. \/ i < sts.partition /\ p.rev = sts.currentRevision
          \/ i >= sts.partition /\ p.rev = sts.rev
      BY <1>2 DEF Ordinals
    <2>3. /\ pods' = [pods EXCEPT ![i] = p]
          /\ UNCHANGED <<clusterVars, cacheVars, historyVars, workerVars>>
      BY <1>4 DEF CreatePod, Sync
    <2> HIDE DEF p
    <2>4. QED
      BY <2>1, <2>2, <2>3 DEF PodStep
  <1>5. ASSUME NEW i \in Ordinals, CondemnPod(i) \/ RollPod(i)
        PROVE  PodStep
    <2>1. NoPod \in Pod /\ NoPod.rev = 0
      BY DEF NoPod, Pod
    <2>2. QED
      BY <1>5, <2>1 DEF CondemnPod, RollPod, Sync, PodStep
  <1>6. QED
    BY <1>3, <1>4, <1>5, PodSteps, StatusSteps DEF Kubelet, Controller

-----------------------------------------------------------------------------
(* Bad templates *)

\* The five steps that write the StatefulSet.
LEMMA StatefulSetWriters ==
  ASSUME [Next]_vars
  PROVE  \/ sts' = sts
         \/ WriteAccepted \/ PublishStatus \/ Reapply
         \/ \E r \in ReplicaCounts : UpdateTemplate(r) \/ Scale(r)
  <1> USE DEF clusterVars
  <1>1. CASE Worker
    BY <1>1 DEF Worker, TimerFires, Decide, Terminal, UpdateTimesOut, Uncontrolled,
                UpscaleWaits, UpscaleDone, UpscaleMoves, CanaryFails, RolloutWaits,
                RolloutDone, RolloutMoves, PendingUpscales, PendingCanary, TakeRollout,
                TakeLive, Take, Unaffected, Write, WriteInPlace, WriteConflict,
                WriteRejected, Cleanup
  <1>2. CASE Informers \/ Resync \/ Tick
    BY <1>2 DEF Informers, DeliverStatefulSet, DeliverPods, Resync, Tick
  <1>3. CASE Kubelet \/ Controller
    BY <1>3 DEF Kubelet, PodBecomesReady, Controller, CreatePod, CondemnPod, RollPod,
                Sync, SetPod
  <1>4. CASE Environment
    BY <1>4 DEF Environment, PodFails, SetPod, APIError, Crash
  <1>5. CASE UNCHANGED vars
    BY <1>5 DEF vars
  <1>6. QED
    BY <1>1, <1>2, <1>3, <1>4, <1>5 DEF Next

\* No step makes a pod of a bad template ready in either view.
LEMMA BadPodsSteps ==
  ASSUME IInv, [Next]_vars
  PROVE  BadPodsInv'
  <1> USE DEF IInv, BadInv, BadPodsInv, TypeOK
  <1>1. ASSUME UNCHANGED pods, podCache' \in {pods, podCache}
        PROVE  BadPodsInv'
    BY <1>1
  <1>2. ASSUME NEW i \in Ordinals, NEW pod \in Pod, pods' = [pods EXCEPT ![i] = pod],
               UNCHANGED podCache, pod.ready => pod.rev \notin BadRevisions
        PROVE  BadPodsInv'
    BY <1>2
  <1> USE DEF podVars, cacheVars
  <1>3. CASE TimerFires \/ Decide \/ Write
    <2>1. UNCHANGED <<pods, podCache>>
      BY <1>3 DEF TimerFires, Decide, Terminal, UpdateTimesOut, Uncontrolled, UpscaleWaits,
                  UpscaleDone, UpscaleMoves, CanaryFails, RolloutWaits, RolloutDone,
                  RolloutMoves, PendingUpscales, PendingCanary, TakeRollout, TakeLive,
                  Take, Unaffected, Write, WriteInPlace, WriteConflict, WriteRejected,
                  WriteAccepted
    <2>2. QED
      BY <1>1, <2>1
  <1>4. NoPod \in Pod /\ ~NoPod.ready
    BY DEF NoPod, Pod
  <1>5. CASE Cleanup
    <2>1. UNCHANGED podCache
      BY <1>5 DEF Cleanup
    <2>2. \/ UNCHANGED pods
          \/ /\ PodAt(PodView, dec.partition).rev # 0
             /\ pods' = [pods EXCEPT ![dec.partition] = NoPod]
      BY <1>5 DEF Cleanup
    <2>3. PodAt(PodView, dec.partition).rev # 0 => dec.partition \in Ordinals
      BY DEF PodAt, NoPod
    <2>4. QED
      BY <1>1, <1>2, <1>4, <2>1, <2>2, <2>3
  <1>6. CASE Informers \/ Resync \/ Tick
    <2>1. UNCHANGED pods /\ podCache' \in {pods, podCache}
      BY <1>6 DEF Informers, DeliverStatefulSet, DeliverPods, Resync, Tick
    <2>2. QED
      BY <1>1, <2>1
  <1>7. ASSUME NEW i \in Ordinals, PodBecomesReady(i)
        PROVE  BadPodsInv'
    <2>1. [pods[i] EXCEPT !.ready = TRUE] \in Pod
          /\ [pods[i] EXCEPT !.ready = TRUE].rev = pods[i].rev
      BY Ranges DEF Pod
    <2>2. QED
      BY <1>2, <1>7, <2>1 DEF PodBecomesReady, SetPod
  <1>8. ASSUME NEW i \in Ordinals, PodFails(i)
        PROVE  BadPodsInv'
    <2>1. [pods[i] EXCEPT !.ready = FALSE] \in Pod
          /\ ~[pods[i] EXCEPT !.ready = FALSE].ready
      BY Ranges DEF Pod
    <2>2. QED
      BY <1>2, <1>8, <2>1 DEF PodFails, SetPod
  <1>9. ASSUME NEW i \in Ordinals, CreatePod(i) \/ CondemnPod(i) \/ RollPod(i)
        PROVE  BadPodsInv'
    <2>1. CASE CondemnPod(i) \/ RollPod(i)
      BY <1>2, <1>4, <2>1 DEF CondemnPod, RollPod, Sync, SetPod
    <2>2. CASE CreatePod(i)
      <3>1. PICK r \in {sts.rev, sts.currentRevision} :
              /\ pods' = [pods EXCEPT ![i] = [rev |-> r, ready |-> FALSE]]
              /\ UNCHANGED podCache
        BY <2>2 DEF CreatePod, Sync, SetPod
      <3>2. [rev |-> r, ready |-> FALSE] \in Pod
        BY Ranges DEF Pod, Revisions
      <3>3. QED
        BY <1>2, <3>1, <3>2
    <2>3. QED
      BY <1>9, <2>1, <2>2
  <1>10. CASE PublishStatus
    <2>1. UNCHANGED <<pods, podCache>>
      BY <1>10 DEF PublishStatus
    <2>2. QED
      BY <1>1, <2>1
  <1>11. CASE Environment /\ ~\E i \in Ordinals : PodFails(i)
    <2>1. UNCHANGED pods /\ podCache' \in {pods, podCache}
      BY <1>11 DEF Environment, UpdateTemplate, Scale, Reapply, APIError, Crash
    <2>2. QED
      BY <1>1, <2>1
  <1>12. CASE UNCHANGED vars
    <2>1. UNCHANGED <<pods, podCache>>
      BY <1>12 DEF vars
    <2>2. QED
      BY <1>1, <2>1
  <1> HIDE DEF IInv, BadPodsInv
  <1>13. QED
    BY <1>3, <1>5, <1>6, <1>7, <1>8, <1>9, <1>10, <1>11, <1>12
       DEF Next, Worker, Kubelet, Controller, Environment

\* A decision that moves past a pod saw it ready, hence of a good template.
LEMMA BadDecisionSteps ==
  ASSUME IInv, [Next]_vars
  PROVE  BadDecisionInv'
  <1> USE DEF IInv, BadInv
  <1>1. ASSUME UNCHANGED workerVars \/ pc' # "write"
        PROVE  BadDecisionInv'
    BY <1>1 DEF BadDecisionInv, MovesPast, workerVars
  <1>2. CASE Decides
    <2> SUFFICES ASSUME MovesPast' PROVE cache.updateRevision \notin BadRevisions
      <3>1. dec'.base = Basis(cache)
        BY <1>2 DEF Decides, UpdateTimesOut, UpscaleDone, UpscaleMoves, CanaryFails,
                    RolloutDone, RolloutMoves, PendingUpscales, PendingCanary,
                    TakeRollout, TakeLive, Take, Update
      <3>2. QED
        BY <3>1 DEF BadDecisionInv, Basis
    <2>1. PartitionPodIsReadyAndUpdated
      BY <1>2 DEF Decides, UpdateTimesOut, UpscaleDone, UpscaleMoves, CanaryFails,
                  RolloutDone, RolloutMoves, PendingUpscales, PendingCanary,
                  TakeRollout, TakeLive, Take, Update, MovesPast, Basis
    <2>2. PICK i \in Ordinals : \E pod \in {pods[i], podCache[i]} :
            pod.ready /\ pod.rev = cache.updateRevision
      BY <2>1 DEF PartitionPodIsReadyAndUpdated, PodAt, NoPod, PodView
    <2>3. QED
      BY <2>2 DEF BadPodsInv
  <1>3. CASE Worker /\ ~Decides
    <2>1. UNCHANGED workerVars \/ pc' # "write"
      BY <1>3 DEF Worker, TimerFires, Decide, Decides, Terminal, Uncontrolled,
                  UpscaleWaits, RolloutWaits, Return, Write, WriteInPlace, WriteConflict,
                  WriteRejected, WriteAccepted, Continue, Cleanup, Finish, Retry, Idle
    <2>2. QED
      BY <1>1, <2>1
  <1>4. CASE Informers \/ Resync \/ Kubelet \/ Controller \/ Tick \/ Environment
    <2>1. UNCHANGED workerVars \/ pc' # "write"
      BY <1>4 DEF Informers, DeliverStatefulSet, DeliverPods, Resync, Kubelet,
                  PodBecomesReady, Controller, CreatePod, CondemnPod, RollPod, Sync,
                  SetPod, PublishStatus, Tick, Environment, UpdateTemplate, Scale,
                  Reapply, PodFails, APIError, Crash, Retry, Idle
    <2>2. QED
      BY <1>1, <2>1
  <1>5. CASE UNCHANGED vars
    BY <1>1, <1>5 DEF vars, workerVars
  <1>6. QED
    BY <1>2, <1>3, <1>4, <1>5 DEF Next

\* A rollout of a bad template opens its canary and stays there.
LEMMA BadWalkSteps ==
  ASSUME IInv, [Next]_vars
  PROVE  BadWalkInv'
  <1> USE DEF BadWalkInv
  <1>1. BadWalkInv /\ sts \in StatefulSet
    BY DEF IInv, BadInv, TypeOK
  <1>2. CASE WriteAccepted
    <2> SUFFICES ASSUME taint' = {}, sts'.rev \in BadRevisions
                 PROVE  sts'.partition >= first' - 1
      OBVIOUS
    <2>1. /\ sts'.partition = dec.partition /\ sts'.rev = sts.rev /\ first' = first
          /\ taint = {} /\ ~Overtaken
          /\ MovesPast => dec.base.updateRevision = dec.base.rev
          /\ "CanaryUpscale" \in {dec.state, dec.base.state} => ~Moved
      BY <1>1, <1>2 DEF WriteAccepted, Store, RecordWrite, IInv, WalkInv, CacheInv,
                        StatefulSet
    <2>2. ~MovesPast
      BY <1>2, <2>1 DEF WriteAccepted, Overtaken, IInv, BadInv, BadDecisionInv
    <2>3. sts.partition >= first - 1
      BY <1>1, <2>1
    <2>4. dec.base.state = sts.state /\ dec.base.partition = sts.partition
      BY <2>1 DEF Overtaken
    <2>5. \/ dec.partition = sts.partition
          \/ sts.state = "Pending" /\ dec.partition = sts.partition - 1
      BY <1>2, <2>1, <2>2, <2>4
         DEF WriteAccepted, Moved, MovesPast, IInv, WalkInv, DecisionInv
    <2>6. sts.state = "Pending" => sts.partition = first
      BY <2>1 DEF IInv, WalkInv, PhaseInv
    <2>7. QED
      BY <2>1, <2>3, <2>5, <2>6, Ranges DEF IInv
  <1>3. CASE PublishStatus
    <2>1. sts'.rev = sts.rev /\ sts'.partition = sts.partition
      BY <1>1, <1>3 DEF PublishStatus, Store, Status, StatefulSet, clusterVars
    <2>2. QED
      BY <1>1, <1>3, <2>1 DEF PublishStatus, historyVars
  <1>4. CASE Reapply
    BY <1>4 DEF Reapply
  <1>5. ASSUME NEW r \in ReplicaCounts, UpdateTemplate(r)
        PROVE  BadWalkInv'
    <2>1. TypeOK' /\ first' = sts'.partition
      BY <1>5, NextType DEF IInv, UpdateTemplate
    <2>2. QED
      BY <2>1 DEF TypeOK, StatefulSet
  <1>6. ASSUME NEW r \in ReplicaCounts, Scale(r)
        PROVE  BadWalkInv'
    <2>1. sts'.rev = sts.rev /\ sts'.partition = sts.partition
      BY <1>1, <1>6 DEF Scale, Store, StatefulSet
    <2>2. QED
      BY <1>1, <1>6, <2>1 DEF Scale, historyVars
  <1>7. CASE sts' = sts
    <2>1. taint' = {} => taint = {} /\ first' = first
      <3>1. CASE WriteAccepted
        BY <3>1 DEF WriteAccepted, RecordWrite
      <3>2. CASE \E r \in ReplicaCounts : UpdateTemplate(r)
        <4>1. sts'.rev = sts.rev + 1
          BY <1>1, <3>2 DEF UpdateTemplate, Store, ConfigureForRollout, StatefulSet
        <4>2. QED
          BY <1>7, <4>1, Ranges DEF IInv, Revisions
      <3>3. CASE Worker /\ ~WriteAccepted
        BY <3>3 DEF Worker, TimerFires, Decide, Terminal, UpdateTimesOut, Uncontrolled,
                UpscaleWaits, UpscaleDone, UpscaleMoves, CanaryFails, RolloutWaits,
                RolloutDone, RolloutMoves, PendingUpscales, PendingCanary, TakeRollout,
                TakeLive, Take, Unaffected, Write, WriteInPlace, WriteConflict,
                WriteRejected, Cleanup, historyVars
      <3>4. CASE Informers \/ Resync \/ Kubelet \/ Controller \/ Tick
        BY <3>4 DEF Informers, DeliverStatefulSet, DeliverPods, Resync, Kubelet,
                    PodBecomesReady, Controller, CreatePod, CondemnPod, RollPod, Sync,
                    SetPod, PublishStatus, Tick, historyVars
      <3>5. CASE Environment /\ ~\E r \in ReplicaCounts : UpdateTemplate(r)
        BY <3>5 DEF Environment, Scale, Reapply, PodFails, SetPod, APIError, Crash,
                    historyVars
      <3>6. CASE UNCHANGED vars
        BY <3>6 DEF vars
      <3>7. QED
        BY <3>1, <3>2, <3>3, <3>4, <3>5, <3>6 DEF Next
    <2>2. QED
      BY <1>1, <1>7, <2>1
  <1>8. QED
    BY <1>2, <1>3, <1>4, <1>5, <1>6, <1>7, StatefulSetWriters

-----------------------------------------------------------------------------
(* Watched rollouts *)

\* The delaying queue holds the key after it was given a deadline.
LEMMA EarliestIsSet ==
  ASSUME TypeOK, NEW t \in Nat, timer' = Earliest(t)
  PROVE  timer' # NoTimer
  BY DEF TypeOK, Earliest, NoTimer

\* A reconcile that ends leaves a timer that was set, and sets one if it polls;
\* one that fails sets one.
LEMMA FinishSteps ==
  ASSUME TypeOK, NEW after \in Int, NEW requeue, Finish(after, requeue)
  PROVE  /\ pc' = "idle"
         /\ after > 0 \/ timer # NoTimer => timer' # NoTimer
  <1>1. now \in Nat /\ (after > 0 => now + after \in Nat)
    BY DEF TypeOK
  <1>2. CASE after > 0
    BY <1>1, <1>2, EarliestIsSet DEF Finish, Idle
  <1>3. CASE ~(after > 0) /\ requeue
    BY <1>1, <1>3, EarliestIsSet DEF Finish, Idle
  <1>4. CASE ~(after > 0) /\ ~requeue
    BY <1>4 DEF Finish, Idle
  <1>5. QED
    BY <1>2, <1>3, <1>4

LEMMA RetrySteps ==
  ASSUME TypeOK, NEW backoff \in Nat, Retry(backoff)
  PROVE  pc' = "idle" /\ timer' # NoTimer
  <1>1. now + backoff \in Nat
    BY DEF TypeOK
  <1>2. QED
    BY <1>1, EarliestIsSet DEF Retry, Idle

\* Before the end of a watch time there is time left, and a poll in it.
LEMMA LiveTimeLeft ==
  ASSUME TypeOK, UpdateWatch > 0, ~UpdateExpired
  PROVE  TimeLeft(cache, UpdateWatch) > 0 /\ PollInterval > 0
  <1>1. cache.start \in Int /\ now \in Int
    BY DEF TypeOK, StatefulSet
  <1>2. TimeLeft(cache, UpdateWatch) > 0
    BY <1>1 DEF TimeLeft, UpdateExpired
  <1>3. QED
    BY <1>2 DEF PollInterval

\* What a decision does under an update watch time: it ends an ended rollout,
\* polls, or writes; and what goes on is written with a poll.
LEMMA WatchedDecision ==
  ASSUME TypeOK, UpdateWatch > 0, Decide
  PROVE  /\ pc = "idle" /\ queued' = FALSE
         /\ UNCHANGED <<sts, cache, event, taint>>
         /\ timer # NoTimer => timer' # NoTimer
         /\ \/ pc' = "idle" /\ cache.state \in {"Done", "Failed"}
            \/ pc' = "idle" /\ timer' # NoTimer
            \/ /\ pc' = "write"
               /\ dec'.state \in {"Rollout", "CanaryUpscale"} => dec'.after > 0
               /\ dec'.state = "Canary" => cache.state = "Pending"
  <1>1. /\ pc = "idle" /\ queued' = FALSE
        /\ UNCHANGED <<sts, cache, event, taint>>
    BY DEF Decide, Terminal, UpdateTimesOut, Uncontrolled, UpscaleWaits, UpscaleDone,
           UpscaleMoves, CanaryFails, RolloutWaits, RolloutDone, RolloutMoves,
           PendingUpscales, PendingCanary, TakeRollout, TakeLive, Take, Unaffected,
           clusterVars, cacheVars, historyVars
  <1>2. /\ TimeLeft(cache, UpdateWatch) \in Int
        /\ ~UpdateExpired => TimeLeft(cache, UpdateWatch) > 0 /\ PollInterval > 0
        /\ PollInterval \in Int
    BY TimeLeftType, LiveTimeLeft DEF PollInterval
  <1>3. CASE Terminal
    <2>1. cache.state \in {"Failed", "Done"} /\ Finish(0, FALSE)
      BY <1>3 DEF Terminal, Take, Return
    <2>2. pc' = "idle" /\ (timer # NoTimer => timer' # NoTimer)
      BY <2>1 DEF Finish, Idle
    <2>3. QED
      BY <1>1, <2>1, <2>2
  <1>4. CASE Uncontrolled \/ UpscaleWaits
    <2>1. ~UpdateExpired /\ Finish(TimeLeft(cache, UpdateWatch), FALSE)
      BY <1>4 DEF Uncontrolled, UpscaleWaits, TakeLive, Return
    <2>2. QED
      BY <1>1, <1>2, <2>1, FinishSteps
  <1>5. CASE RolloutWaits
    <2>1. ~UpdateExpired /\ Finish(PollInterval, FALSE)
      BY <1>5 DEF RolloutWaits, TakeRollout, TakeLive, Return
    <2>2. QED
      BY <1>1, <1>2, <2>1, FinishSteps
  <1>6. CASE UpdateTimesOut \/ CanaryFails
    BY <1>1, <1>6 DEF UpdateTimesOut, CanaryFails, Update
  <1>7. CASE UpscaleDone \/ UpscaleMoves \/ PendingUpscales
    <2>1. ~UpdateExpired
      BY <1>7 DEF UpscaleDone, UpscaleMoves, PendingUpscales, TakeLive
    <2>2. pc' = "write" /\ timer' = timer /\ dec'.after = TimeLeft(cache, UpdateWatch)
          /\ dec'.state # "Canary"
      BY <1>7 DEF UpscaleDone, UpscaleMoves, PendingUpscales, Update
    <2>3. QED
      BY <1>1, <1>2, <2>1, <2>2
  <1>8. CASE RolloutDone \/ RolloutMoves
    <2>1. ~UpdateExpired
      BY <1>8 DEF RolloutDone, RolloutMoves, TakeRollout, TakeLive
    <2>2. pc' = "write" /\ timer' = timer /\ dec'.after = PollInterval
          /\ dec'.state # "Canary"
      BY <1>8 DEF RolloutDone, RolloutMoves, Update
    <2>3. QED
      BY <1>1, <1>2, <2>1, <2>2
  <1>9. CASE PendingCanary
    BY <1>1, <1>9 DEF PendingCanary, TakeLive, Take, Update
  <1>10. QED
    BY <1>3, <1>4, <1>5, <1>6, <1>7, <1>8, <1>9 DEF Decide

\* A decision for a rollout that goes on keeps its poll until it is written.
LEMMA PollSteps ==
  ASSUME IInv, [Next]_vars
  PROVE  PollInv'
  <1> SUFFICES ASSUME UpdateWatch > 0, pc' # "idle",
                      dec'.state \in {"Rollout", "CanaryUpscale"}
               PROVE  dec'.after > 0
    BY DEF PollInv
  <1>1. CASE Decide
    BY <1>1, WatchedDecision DEF IInv
  <1>2. CASE pc # "idle" /\ dec' = dec
    BY <1>2 DEF IInv, PollInv
  <1>3. CASE Write
    BY <1>2, <1>3 DEF Write, WriteInPlace, WriteConflict, WriteRejected, WriteAccepted,
                      Continue, Retry, Finish, Idle
  <1>4. CASE Cleanup
    BY <1>4 DEF Cleanup, Retry, Finish, Idle
  <1>5. CASE Informers \/ Resync \/ Tick \/ TimerFires
    BY <1>2, <1>5 DEF Informers, DeliverStatefulSet, DeliverPods, Resync, Tick, TimerFires,
                      workerVars
  <1>6. CASE Kubelet \/ Controller
    BY <1>2, <1>6 DEF Kubelet, PodBecomesReady, Controller, CreatePod, CondemnPod, RollPod,
                      Sync, SetPod, PublishStatus, workerVars
  <1>7. CASE Environment
    BY <1>2, <1>7 DEF Environment, UpdateTemplate, Scale, Reapply, PodFails, SetPod,
                      APIError, Crash, Retry, Idle, workerVars
  <1>8. CASE UNCHANGED vars
    BY <1>2, <1>8 DEF vars
  <1>9. QED
    BY <1>1, <1>3, <1>4, <1>5, <1>6, <1>7, <1>8 DEF Next, Worker

\* A step that takes no key off event, queue and timer, and leaves the worker
\* and the rollout's states alone.
LEMMA KeptFrame ==
  ASSUME KeptInv,
         sts'.state = sts.state, cache'.state = cache.state, UNCHANGED <<pc, dec>>,
         event => event', queued => queued', timer # NoTimer => timer' # NoTimer
  PROVE  KeptInv'
  BY DEF KeptInv

\* The steps of the worker keep a watched rollout waiting for something.
LEMMA WorkerKeeps ==
  ASSUME IInv, KeptInv, UpdateWatch > 0, "overtaken" \notin taint', Worker
  PROVE  KeptInv'
  <1> USE DEF KeptInv
  <1>1. TypeOK /\ (dec.state \in {"Rollout", "CanaryUpscale"} /\ pc # "idle" => dec.after > 0)
    BY DEF IInv, PollInv
  <1>2. dec.after \in Int /\ dec.requeue \in BOOLEAN /\ sts \in StatefulSet
    BY <1>1 DEF TypeOK
  <1>3. CASE TimerFires
    BY <1>3 DEF TimerFires, clusterVars, cacheVars, workerVars
  <1>4. CASE Decide
    BY <1>1, <1>4, WatchedDecision
  <1>5. CASE WriteInPlace
    <2>1. /\ pc = "write" /\ cache.state = dec.state
          /\ UNCHANGED <<sts, cache, event, queued>>
      BY <1>5 DEF WriteInPlace, InPlace, clusterVars, cacheVars
    <2>2. dec.state \in {"Failed", "Done", "Rollout", "Canary", "CanaryUpscale"}
      BY <2>1 DEF IInv, WalkInv, DecisionInv
    <2>3. \/ pc' = "cleanup" /\ dec' = dec /\ timer' = timer
          \/ Finish(dec.after, dec.requeue)
      BY <1>5 DEF WriteInPlace, Continue
    <2>4. sts.state \in {"Pending", "Rollout"} =>
            event \/ queued \/ dec.state \in {"Rollout", "CanaryUpscale"}
      BY <2>1, <2>2
    <2>5. QED
      BY <1>1, <1>2, <2>1, <2>3, <2>4, FinishSteps
  <1>6. CASE WriteConflict
    BY <1>1, <1>6, RetrySteps DEF WriteConflict, clusterVars, cacheVars
  <1>7. CASE WriteRejected
    <2>1. /\ UNCHANGED <<sts, cache, event, queued>>
          /\ Retry(0) \/ Retry(1)
      BY <1>7 DEF WriteRejected, clusterVars, cacheVars
    <2>2. QED
      BY <1>1, <2>1, RetrySteps
  <1>8. CASE WriteAccepted
    <2>1. /\ pc = "write" /\ cache = sts /\ cache' = cache /\ queued' = queued
          /\ sts'.state = dec.state
      BY <1>2, <1>8 DEF WriteAccepted, Store, cacheVars, IInv, WalkInv, CacheInv, StatefulSet
    <2>2. dec.base.state = sts.state
      BY <1>8 DEF WriteAccepted, RecordWrite, Overtaken
    <2>3. /\ dec.state # "Pending"
          /\ dec.state = "Rollout" => cache.state \in {"CanaryUpscale", "Canary", "Rollout"}
      BY <2>1, <2>2 DEF IInv, WalkInv, DecisionInv
    <2>4. \/ pc' = "cleanup" /\ dec' = dec /\ timer' = timer
          \/ Finish(dec.after, dec.requeue)
      BY <1>8 DEF WriteAccepted, Continue
    <2>5. dec.state = "Rollout" => timer' # NoTimer \/ (pc' = "cleanup" /\ dec' = dec)
      BY <1>1, <1>2, <2>1, <2>4, FinishSteps
    <2>6. pc' # "write"
      BY <1>1, <1>2, <2>4, FinishSteps
    <2>7. CASE dec.state = "Rollout"
      <3>1. sts'.state = "Rollout" /\ cache'.state \in {"CanaryUpscale", "Canary", "Rollout"}
        BY <2>1, <2>3, <2>7
      <3>2. timer' # NoTimer \/ (pc' = "cleanup" /\ dec'.state = "Rollout")
        BY <2>5, <2>7
      <3>3. QED
        BY <2>6, <3>1, <3>2
    <2>8. CASE dec.state # "Rollout"
      <3>1. sts'.state \notin {"Pending", "Rollout"}
        BY <2>1, <2>3, <2>8
      <3>2. QED
        BY <3>1
    <2>9. QED
      BY <2>7, <2>8
  <1>9. CASE Cleanup
    <2>1. /\ pc = "cleanup" /\ UNCHANGED <<sts, cache, event, queued>>
          /\ Finish(dec.after, dec.requeue) \/ Retry(0)
      BY <1>9 DEF Cleanup, clusterVars, cacheVars
    <2>2. QED
      BY <1>1, <1>2, <2>1, FinishSteps, RetrySteps
  <1>10. QED
    BY <1>3, <1>4, <1>5, <1>6, <1>7, <1>8, <1>9 DEF Worker, Write

\* A watched rollout is kept waiting for something by every step.
LEMMA WatchSteps ==
  ASSUME IInv, [Next]_vars
  PROVE  WatchInv'
  <1> SUFFICES ASSUME UpdateWatch > 0, "crash" \notin Disturbances, "overtaken" \notin taint'
               PROVE  KeptInv'
    BY DEF WatchInv
  <1>1. sts \in StatefulSet
    BY DEF IInv, TypeOK
  <1>2. ASSUME NEW r \in ReplicaCounts, UpdateTemplate(r)
        PROVE  KeptInv'
    <2>1. sts'.state = "Pending" /\ event'
      BY <1>1, <1>2 DEF UpdateTemplate, Store, ConfigureForRollout, CheckUpdate, StatefulSet
    <2>2. QED
      BY <2>1 DEF KeptInv
  <1>3. ASSUME "overtaken" \notin taint PROVE KeptInv
    BY <1>3 DEF IInv, WatchInv
  <1>4. CASE Worker
    <2>1. "overtaken" \notin taint
      <3>1. CASE WriteAccepted
        BY <3>1 DEF WriteAccepted, RecordWrite
      <3>2. CASE ~WriteAccepted
        BY <1>4, <3>2
           DEF Worker, TimerFires, Decide, Terminal, UpdateTimesOut, Uncontrolled,
               UpscaleWaits, UpscaleDone, UpscaleMoves, CanaryFails, RolloutWaits,
               RolloutDone, RolloutMoves, PendingUpscales, PendingCanary, TakeRollout,
               TakeLive, Take, Unaffected, Write, WriteInPlace, WriteConflict,
               WriteRejected, Cleanup, historyVars
      <3>3. QED
        BY <3>1, <3>2
    <2>2. QED
      BY <1>3, <1>4, <2>1, WorkerKeeps
  <1>5. CASE DeliverStatefulSet
    <2>1. /\ cache' = sts /\ event' = FALSE /\ queued' = (queued \/ event)
          /\ UNCHANGED <<sts, timer, pc, dec, taint>>
      BY <1>5 DEF DeliverStatefulSet, workerVars, historyVars
    <2>2. QED
      BY <1>3, <2>1 DEF KeptInv
  <1>6. CASE DeliverPods \/ Resync \/ Tick
    BY <1>3, <1>6, KeptFrame
       DEF DeliverPods, Resync, Tick, clusterVars, cacheVars, workerVars, historyVars
  <1>7. ASSUME NEW i \in Ordinals, NEW pod, SetPod(i, pod)
        PROVE  KeptInv'
    BY <1>3, <1>7, KeptFrame DEF SetPod, clusterVars, cacheVars, workerVars, historyVars
  <1>8. ASSUME NEW i \in Ordinals,
               PodBecomesReady(i) \/ PodFails(i) \/ CreatePod(i) \/ CondemnPod(i) \/ RollPod(i)
        PROVE  KeptInv'
    BY <1>7, <1>8 DEF PodBecomesReady, PodFails, CreatePod, CondemnPod, RollPod, Sync
  <1>9. CASE PublishStatus
    <2>1. sts'.state = sts.state /\ (event => event')
      BY <1>1, <1>9 DEF PublishStatus, Store, Status, StatefulSet, clusterVars
    <2>2. QED
      BY <1>3, <1>9, <2>1, KeptFrame DEF PublishStatus, cacheVars, workerVars, historyVars
  <1>10. ASSUME NEW r \in ReplicaCounts, Scale(r)
         PROVE  KeptInv'
    <2>1. sts'.state = sts.state /\ (event => event')
      BY <1>1, <1>10 DEF Scale, Store, StatefulSet
    <2>2. QED
      BY <1>3, <1>10, <2>1, KeptFrame DEF Scale, cacheVars, workerVars, historyVars
  <1>11. CASE Reapply
    <2>1. sts'.state = "none"
      BY <1>1, <1>11 DEF Reapply, Store, StatefulSet
    <2>2. QED
      BY <2>1 DEF KeptInv
  <1>12. CASE APIError
    <2>1. /\ pc' = "idle" /\ timer' # NoTimer
          /\ UNCHANGED <<sts, cache, event, queued, taint>>
      BY <1>12, RetrySteps DEF APIError, IInv, clusterVars, cacheVars, historyVars
    <2>2. QED
      BY <1>3, <2>1 DEF KeptInv
  <1>13. CASE UNCHANGED vars
    BY <1>3, <1>13, KeptFrame DEF vars
  <1>14. ~Crash
    BY DEF Crash, Disturb
  <1>15. QED
    BY <1>2, <1>4, <1>5, <1>6, <1>8, <1>9, <1>10, <1>11, <1>12, <1>13, <1>14
       DEF Next, Informers, Kubelet, Controller, Environment

-----------------------------------------------------------------------------
(* The inductive invariant *)

LEMMA InitIInv == Init => IInv
  <1> SUFFICES ASSUME Init PROVE IInv
    OBVIOUS
  <1>1. TypeOK
    BY InitType
  <1>2. /\ sts.partition = 0 /\ sts.state = "CanaryUpscale" /\ sts.rev \in Revisions
        /\ sts.updateRevision = 0 /\ sts.currentRevision = sts.rev
        /\ cache = sts /\ ~event /\ pc = "idle" /\ dec.base.rev = 1
        /\ first = 0 /\ passed = {} /\ taint = {}
        /\ \A i \in Ordinals : pods[i].rev = 0 /\ podCache[i].rev = 0
    <2>1. sts.rev \in Revisions
      BY <1>1 DEF TypeOK, StatefulSet
    <2>2. /\ sts.partition = 0 /\ sts.state = "CanaryUpscale"
          /\ sts.updateRevision = 0 /\ sts.currentRevision = sts.rev
      BY DEF Init
    <2>3. QED
      BY <2>1, <2>2 DEF Init, NoDecision, NoPod
  <1>3. CacheInv /\ CurrentInv /\ PodInv
    BY <1>2 DEF CacheInv, CurrentInv, PodInv, Revisions
  <1>4. PhaseInv /\ DecisionInv /\ WitnessInv /\ WalkInOrder /\ PassedPodsUpdated
    BY <1>2 DEF PhaseInv, DecisionInv, WitnessInv, WalkInOrder, PassedPodsUpdated, Ordinals
  <1>5. BadInv
    <2>1. ~NoPod.ready
      BY DEF NoPod
    <2>2. BadPodsInv
      BY <2>1 DEF Init, BadPodsInv
    <2>3. BadDecisionInv /\ BadWalkInv
      BY <1>2 DEF BadDecisionInv, BadWalkInv
    <2>4. QED
      BY <2>2, <2>3 DEF BadInv
  <1>6. PollInv /\ WatchInv
    BY <1>2 DEF PollInv, WatchInv, KeptInv
  <1>7. QED
    BY <1>1, <1>3, <1>4, <1>5, <1>6 DEF IInv, WalkInv

LEMMA NextIInv == IInv /\ [Next]_vars => IInv'
  <1> SUFFICES ASSUME IInv, [Next]_vars PROVE IInv'
    OBVIOUS
  <1>1. TypeOK' /\ BadInv' /\ PollInv' /\ WatchInv'
    BY NextType, BadPodsSteps, BadDecisionSteps, BadWalkSteps, PollSteps, WatchSteps
       DEF IInv, BadInv
  <1> SUFFICES WalkInv'
    BY <1>1 DEF IInv
  <1>2. CASE UNCHANGED vars
    <2>1. Quiet
      BY <1>2 DEF vars, Quiet, clusterVars, cacheVars, workerVars, historyVars
    <2>2. QED
      BY <2>1, QuietSteps
  <1>3. CASE Resync \/ Tick
    <2>1. Quiet
      BY <1>3 DEF Resync, Tick, Quiet, podVars
    <2>2. QED
      BY <2>1, QuietSteps
  <1>4. CASE APIError
    <2>1. Quiet
      BY <1>4 DEF APIError, Retry, Idle, Quiet, podVars
    <2>2. QED
      BY <2>1, QuietSteps
  <1>5. CASE Worker \/ Informers \/ Kubelet \/ Controller
    BY <1>5, WorkerSteps, InformerSteps, ClusterSteps
  <1>6. CASE Environment /\ ~APIError
    <2>1. CASE \E r \in ReplicaCounts : UpdateTemplate(r) \/ Scale(r)
      BY <2>1, TemplateSteps, ScaleSteps
    <2>2. CASE Reapply \/ Crash \/ \E i \in Ordinals : PodFails(i)
      BY <2>2, ReapplySteps, CrashSteps, ClusterSteps
    <2>3. QED
      BY <1>6, <2>1, <2>2 DEF Environment
  <1>7. QED
    BY <1>2, <1>3, <1>4, <1>5, <1>6 DEF Next

\* The inductive invariant holds: in a rollout that met no hazard the
\* partition walks down one ordinal at a time, and every pod it has left
\* behind runs the new template.
THEOREM Inductive == Spec => []IInv
  BY InitIInv, NextIInv, PTL DEF Spec

-----------------------------------------------------------------------------
(* What follows *)

\* The history of the walk is exactly the ordinals above the partition.
THEOREM WalkIsInOrder == Spec => []WalkInOrder
  <1>1. IInv => WalkInOrder
    BY DEF IInv, WalkInv
  <1>2. QED
    BY <1>1, Inductive, PTL

\* No pod behind the walk is on an older template, whatever fails later.
THEOREM PassedPodsStayUpdated == Spec => []PassedPodsUpdated
  <1>1. IInv => PassedPodsUpdated
    BY DEF IInv, WalkInv
  <1>2. QED
    BY <1>1, Inductive, PTL

\* Done means that no pod of the walk is on an older template.
THEOREM DoneIsUpdated == Spec => []DoneMeansUpdated
  <1>1. ASSUME IInv PROVE DoneMeansUpdated
    <2> SUFFICES ASSUME taint = {}, sts.state = "Done", NEW i \in Ordinals, i < first
                 PROVE  pods[i].rev \in {0, sts.rev}
      BY DEF DoneMeansUpdated
    <2>1. i \in passed
      BY <1>1, Ranges DEF IInv, WalkInv, WalkInOrder, PhaseInv, Ordinals
    <2>2. QED
      BY <1>1, <2>1 DEF IInv, WalkInv, PassedPodsUpdated
  <1>2. QED
    BY <1>1, Inductive, PTL

\* The partition passes the canary only once the canary is updated.
THEOREM CanaryGateIsKept == Spec => []CanaryGateHolds
  <1>1. ASSUME IInv PROVE CanaryGateHolds
    <2> SUFFICES ASSUME taint = {}, first > 0, sts.partition < first - 1
                 PROVE  pods[first - 1].rev \in {0, sts.rev}
      BY DEF CanaryGateHolds, CanaryGate
    <2>1. first - 1 \in passed
      BY <1>1, Ranges DEF IInv, WalkInv, WalkInOrder, Ordinals
    <2>2. QED
      BY <1>1, <2>1 DEF IInv, WalkInv, PassedPodsUpdated
  <1>2. QED
    BY <1>1, Inductive, PTL

\* The pods the partition protects stay on the old template, even in rollouts
\* that add pods, whose status lags or whose annotations are replaced.
THEOREM CanaryIsIsolated == Spec => []CanaryIsolation
  <1>1. IInv => CanaryIsolation
    BY DEF IInv, WalkInv, PodInv, CanaryIsolation
  <1>2. QED
    BY <1>1, Inductive, PTL

\* A template whose pods never become ready stays on the canary and the pods
\* that were never protected, whatever fails, lags or is re-created, as long as
\* it is not the current one.
THEOREM BadTemplateIsContained == Spec => []CanaryContainsBadTemplate
  <1>1. ASSUME IInv PROVE CanaryContainsBadTemplate
    <2> SUFFICES ASSUME taint = {}, sts.rev \in BadRevisions,
                        sts.currentRevision # sts.rev,
                        NEW i \in Ordinals, pods[i].rev = sts.rev
                 PROVE  i >= first - 1
      BY DEF CanaryContainsBadTemplate
    <2>1. i \in Int /\ sts.partition \in Int /\ first \in Int
      BY <1>1, Ranges DEF IInv, Ordinals
    <2>2. ~(i < sts.partition)
      BY <1>1 DEF IInv, WalkInv, PodInv
    <2>3. sts.partition >= first - 1
      BY <1>1 DEF IInv, BadInv, BadWalkInv
    <2>4. QED
      BY <2>1, <2>2, <2>3
  <1>2. QED
    BY <1>1, Inductive, PTL

\* It becomes the current one only when there is no pod that could be ready.
THEOREM BadIsCurrentOnlyWithoutPods == Spec => BadIsCurrentOfNobody
  <1>1. ASSUME IInv, [Next]_vars, sts'.currentRevision # sts.currentRevision,
               sts'.currentRevision \in BadRevisions
        PROVE  \A i \in Ordinals : ~Exists(i)
    <2>1. sts \in StatefulSet
      BY <1>1 DEF IInv, TypeOK
    <2>2. PublishStatus
      <3>1. CASE WriteAccepted
        BY <1>1, <2>1, <3>1 DEF WriteAccepted, Store, IInv, WalkInv, CacheInv, StatefulSet
      <3>2. CASE Reapply
        BY <1>1, <2>1, <3>2 DEF Reapply, Store, StatefulSet
      <3>3. CASE \E r \in ReplicaCounts : UpdateTemplate(r) \/ Scale(r)
        BY <1>1, <2>1, <3>3 DEF UpdateTemplate, Scale, Store, ConfigureForRollout,
                                StatefulSet
      <3>4. QED
        BY <1>1, <3>1, <3>2, <3>3, StatefulSetWriters
    <2>3. /\ sts'.currentRevision = sts.rev
          /\ {i \in Ordinals : pods[i].rev = sts.rev} = {i \in Ordinals : Exists(i)}
          /\ {i \in Ordinals : Healthy(i)} = {i \in Ordinals : Exists(i)}
      BY <1>1, <2>1, <2>2 DEF PublishStatus, Store, Status, StatefulSet, clusterVars
    <2>4. SUFFICES ASSUME NEW i \in Ordinals, Exists(i) PROVE FALSE
      OBVIOUS
    <2>5. pods[i].ready /\ pods[i].rev \in BadRevisions
      BY <1>1, <2>3, <2>4 DEF Healthy
    <2>6. QED
      BY <1>1, <2>5 DEF IInv, BadInv, BadPodsInv
  <1>2. QED
    BY <1>1, Inductive, PTL DEF Spec, BadIsCurrentOfNobody

\* A watched rollout that is pending or past its canary always waits for an
\* event, the queue, the timer or the reconciler at work, whatever conflicts or
\* fails short of a restart.
THEOREM WatchedRolloutIsKept == Spec => []WatchIsKept
  <1>1. ASSUME IInv PROVE WatchIsKept
    <2>1. pc \in {"idle", "write", "cleanup"}
      BY <1>1 DEF IInv, TypeOK
    <2>2. QED
      BY <1>1, <2>1 DEF IInv, WatchInv, KeptInv, WatchIsKept
  <1>2. QED
    BY <1>1, Inductive, PTL

\* How a step may change the partition and the state of the rollout.
LEMMA StatefulSetSteps ==
  ASSUME IInv, [Next]_vars
  PROVE  \/ sts'.state = sts.state /\ sts'.partition = sts.partition
         \/ sts'.rev # sts.rev
         \/ taint' \cap {"overtaken", "reapply"} # {}
         \/ /\ sts.state \notin {"Done", "Failed"}
            /\ sts'.partition \in {sts.partition, sts.partition - 1}
  <1> USE DEF IInv
  <1>1. sts \in StatefulSet
    BY DEF TypeOK
  <1>2. CASE WriteAccepted
    <2>1. /\ sts'.partition = dec.partition
          /\ ~Overtaken => dec.base.state = sts.state /\ dec.base.partition = sts.partition
          /\ Overtaken => "overtaken" \in taint'
      BY <1>1, <1>2 DEF WriteAccepted, Store, RecordWrite, Overtaken, WalkInv, CacheInv,
                        StatefulSet
    <2>2. QED
      BY <1>2, <2>1, Ranges DEF WriteAccepted, WalkInv, DecisionInv
  <1>3. CASE PublishStatus
    BY <1>1, <1>3 DEF PublishStatus, Store, Status, StatefulSet, clusterVars
  <1>4. CASE Reapply
    BY <1>4 DEF Reapply
  <1>5. ASSUME NEW r \in ReplicaCounts, UpdateTemplate(r)
        PROVE  sts'.rev # sts.rev
    <2>1. sts'.rev = sts.rev + 1
      BY <1>1, <1>5 DEF UpdateTemplate, Store, ConfigureForRollout, StatefulSet
    <2>2. QED
      BY <2>1, Ranges DEF Revisions
  <1>6. ASSUME NEW r \in ReplicaCounts, Scale(r)
        PROVE  sts'.state = sts.state /\ sts'.partition = sts.partition
    BY <1>1, <1>6 DEF Scale, Store, StatefulSet
  <1>7. QED
    BY <1>2, <1>3, <1>4, <1>5, <1>6, StatefulSetWriters

\* An ended rollout is reopened by a new template only.
THEOREM EndedRolloutStaysEnded == Spec => EndedStaysEnded
  <1>1. ASSUME IInv, [Next]_vars
        PROVE  sts.state \in {"Done", "Failed"} /\ sts'.state # sts.state
                 => sts'.rev # sts.rev \/ taint' \cap {"overtaken", "reapply"} # {}
    BY <1>1, StatefulSetSteps
  <1>2. QED
    BY <1>1, Inductive, PTL DEF Spec, EndedStaysEnded

\* Within a rollout the partition goes down one ordinal at a time.
THEOREM PartitionStepsDown == Spec => OneStepDown
  <1>1. ASSUME IInv, [Next]_vars
        PROVE  sts'.partition # sts.partition
                 => \/ sts'.partition = sts.partition - 1
                    \/ sts'.rev # sts.rev
                    \/ taint' \cap {"overtaken", "reapply"} # {}
    BY <1>1, StatefulSetSteps
  <1>2. QED
    BY <1>1, Inductive, PTL DEF Spec, OneStepDown
=============================================================================
