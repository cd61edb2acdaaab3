--------------------- MODULE StatefulSetRolloutRefinement ---------------------
(***************************************************************************)
(* Proof that the webhook, the reconciler, the StatefulSet controller and  *)
(* the pods implement CanaryWalk, for every size, number of templates and  *)
(* watch time; and that a rollout therefore keeps the walk's promise.      *)
(***************************************************************************)
EXTENDS StatefulSetRolloutProofs

USE ConstantsAssumption

Promised == INSTANCE CanaryWalkProofs WITH
  phase     <- OnWalk(sts.state, "off"),
  from      <- OnWalk(first, 0),
  partition <- OnWalk(sts.partition, 0),
  updated   <- OnWalk({i \in Ordinals : pods[i].rev \in {0, sts.rev}}, Ordinals)

\* The steps that write the history of the walk.
LEMMA HistoryWriters ==
  ASSUME [Next]_vars
  PROVE  \/ UNCHANGED historyVars
         \/ WriteAccepted \/ Reapply \/ \E r \in ReplicaCounts : UpdateTemplate(r)
  <1> USE DEF historyVars
  <1>1. CASE Worker
    BY <1>1 DEF Worker, TimerFires, Decide, Terminal, UpdateTimesOut, Uncontrolled,
                UpscaleWaits, UpscaleDone, UpscaleMoves, CanaryFails, RolloutWaits,
                RolloutDone, RolloutMoves, PendingUpscales, PendingCanary, TakeRollout,
                TakeLive, Take, Unaffected, Write, WriteInPlace, WriteConflict,
                WriteRejected, Cleanup
  <1>2. CASE Informers \/ Resync \/ Tick
    BY <1>2 DEF Informers, DeliverStatefulSet, DeliverPods, Resync, Tick
  <1>3. CASE Kubelet \/ Controller
    BY <1>3 DEF Kubelet, PodBecomesReady, Controller, CreatePod, CondemnPod, RollPod,
                Sync, SetPod, PublishStatus
  <1>4. CASE Environment
    BY <1>4 DEF Environment, PodFails, SetPod, APIError, Crash, Scale
  <1>5. CASE UNCHANGED vars
    BY <1>5 DEF vars
  <1>6. QED
    BY <1>1, <1>2, <1>3, <1>4, <1>5 DEF Next

\* A step changes one pod or none.
LEMMA PodWriters ==
  ASSUME IInv, [Next]_vars
  PROVE  \/ pods' = pods
         \/ \E i \in Ordinals, p \in Pod :
              /\ pods' = [pods EXCEPT ![i] = p]
              /\ p.rev \in {0, pods[i].rev}
                   \/ (sts.partition <= i => p.rev = sts.rev)
  <1> DEFINE Kept(i, p) == /\ pods' = [pods EXCEPT ![i] = p]
                           /\ p.rev \in {0, pods[i].rev}
                                \/ (sts.partition <= i => p.rev = sts.rev)
             Goal == \E i \in Ordinals, p \in Pod : Kept(i, p)
  <1>1. NoPod \in Pod /\ NoPod.rev = 0
    BY DEF NoPod, Pod
  <1>2. ASSUME Worker, pods' # pods
        PROVE  Goal
    <2>1. Cleanup
      BY <1>2 DEF Worker, TimerFires, Decide, Terminal, UpdateTimesOut, Uncontrolled,
                  UpscaleWaits, UpscaleDone, UpscaleMoves, CanaryFails, RolloutWaits,
                  RolloutDone, RolloutMoves, PendingUpscales, PendingCanary, TakeRollout,
                  TakeLive, Take, Unaffected, Write, WriteInPlace, WriteConflict,
                  WriteRejected, WriteAccepted, podVars
    <2>2. /\ pods' = [pods EXCEPT ![dec.partition] = NoPod]
          /\ PodAt(PodView, dec.partition).rev # 0
      BY <1>2, <2>1 DEF Cleanup
    <2>3. dec.partition \in Ordinals
      BY <1>1, <2>2 DEF PodAt
    <2>4. QED
      BY <1>1, <2>2, <2>3
  <1>3. ASSUME Informers \/ Resync \/ Tick
        PROVE  pods' = pods
    BY <1>3 DEF Informers, DeliverStatefulSet, DeliverPods, Resync, Tick, podVars
  <1>4. ASSUME NEW i \in Ordinals, NEW b \in BOOLEAN
        PROVE  /\ [pods[i] EXCEPT !.ready = b] \in Pod
               /\ [pods[i] EXCEPT !.ready = b].rev = pods[i].rev
    BY Ranges DEF IInv, Pod
  <1>5. ASSUME NEW i \in Ordinals, PodBecomesReady(i) \/ PodFails(i)
        PROVE  Goal
    BY <1>4, <1>5 DEF PodBecomesReady, PodFails, SetPod
  <1>6. ASSUME NEW i \in Ordinals, CreatePod(i)
        PROVE  Goal
    <2> DEFINE p == [rev |-> IF i < sts.partition THEN sts.currentRevision ELSE sts.rev,
                     ready |-> FALSE]
    <2>1. p \in Pod
      BY Ranges DEF IInv, Pod, Revisions
    <2>2. sts.partition <= i => p.rev = sts.rev
      BY Ranges DEF IInv, Ordinals
    <2>3. pods' = [pods EXCEPT ![i] = p]
      BY <1>6 DEF CreatePod, Sync, SetPod
    <2> HIDE DEF p
    <2>4. QED
      BY <2>1, <2>2, <2>3
  <1>7. ASSUME NEW i \in Ordinals, CondemnPod(i) \/ RollPod(i)
        PROVE  Goal
    BY <1>1, <1>7 DEF CondemnPod, RollPod, Sync, SetPod
  <1>8. CASE Controller
    BY <1>6, <1>7, <1>8 DEF Controller, PublishStatus
  <1>9. CASE Environment
    BY <1>5, <1>9 DEF Environment, UpdateTemplate, Scale, Reapply, APIError, Crash, podVars
  <1>10. CASE UNCHANGED vars
    BY <1>10 DEF vars
  <1>11. QED
    BY <1>2, <1>3, <1>5, <1>8, <1>9, <1>10 DEF Next, Kubelet

\* The ordinals without a pod on an older template.
Updated == {i \in Ordinals : pods[i].rev \in {0, sts.rev}}

\* A change of the pods leaves those the partition exposes updated.
LEMMA ExposedStay ==
  ASSUME IInv, [Next]_vars, sts'.rev = sts.rev, NEW i \in Updated, i >= sts.partition
  PROVE  i \in Updated'
  <1>1. pods \in [Ordinals -> Pod] /\ i \in Ordinals
    BY DEF Updated, IInv, TypeOK
  <1>2. CASE pods' = pods
    BY <1>2 DEF Updated
  <1>3. ASSUME NEW j \in Ordinals, NEW p \in Pod, pods' = [pods EXCEPT ![j] = p],
               p.rev \in {0, pods[j].rev} \/ (sts.partition <= j => p.rev = sts.rev)
        PROVE  i \in Updated'
    <2>1. pods'[i] = IF i = j THEN p ELSE pods[i]
      BY <1>1, <1>3
    <2>2. QED
      BY <1>1, <1>3, <2>1 DEF Updated
  <1>4. QED
    BY <1>2, <1>3, PodWriters

\* The accepted write of a decision that meets no hazard is a step of the walk.
LEMMA WriteWalks ==
  ASSUME IInv, WriteAccepted, taint' = {}
  PROVE  \/ Walk!Canary \/ Walk!Move \/ Walk!Upscale \/ Walk!Finish \/ Walk!Fail
         \/ UNCHANGED Walk!vars
  <1> DEFINE b == dec.base
  <1>1. /\ taint = {} /\ ~Overtaken /\ first' = first /\ pods' = pods
        /\ MovesPast => b.updateRevision = b.rev
        /\ "CanaryUpscale" \in {dec.state, b.state} => dec.partition = b.partition
        /\ dec.partition >= 0
    BY DEF WriteAccepted, RecordWrite, Moved, podVars
  <1>2. b.rev = sts.rev /\ b.partition = sts.partition /\ b.state = sts.state
    BY <1>1 DEF Overtaken
  <1>3. /\ sts'.partition = dec.partition /\ sts'.state = dec.state /\ sts'.rev = sts.rev
    <2>1. /\ sts' = [sts EXCEPT !.partition = dec.partition, !.state = dec.state]
          /\ sts \in StatefulSet
      BY DEF WriteAccepted, Store, IInv, WalkInv, CacheInv, TypeOK
    <2>2. QED
      BY <2>1 DEF StatefulSet
  <1>4. UNCHANGED <<OnWalk(first, 0),
                    OnWalk({i \in Ordinals : pods[i].rev \in {0, sts.rev}}, Ordinals)>>
    BY <1>1, <1>3 DEF OnWalk
  <1>5. /\ OnWalk(sts.state, "off") = sts.state /\ OnWalk(sts.state, "off")' = dec.state
        /\ OnWalk(sts.partition, 0) = sts.partition
        /\ OnWalk(sts.partition, 0)' = dec.partition
        /\ OnWalk(first, 0) = first
        /\ OnWalk({i \in Ordinals : pods[i].rev \in {0, sts.rev}}, Ordinals) = Updated
    BY <1>1, <1>3 DEF OnWalk, Updated
  <1>6. pc = "write" /\ sts.partition \in 0..MaxReplicas /\ sts.state \in States
    BY Ranges DEF WriteAccepted, IInv
  <1>7. MovesPast => sts.partition \in Updated
    BY <1>1, <1>2, <1>6 DEF IInv, WalkInv, WitnessInv, Updated
  <1>8. CASE dec.state = "Failed"
    <2>1. dec.partition = sts.partition /\ sts.state \notin {"Done", "Failed", "none"}
      BY <1>1, <1>2, <1>6, <1>8 DEF IInv, WalkInv, DecisionInv, PhaseInv
    <2>2. Walk!Fail
      BY <1>4, <1>5, <1>6, <1>8, <2>1 DEF Walk!Fail, Walk!End, Walk!Running, States
    <2>3. QED
      BY <2>2
  <1>9. CASE dec.state = "Done"
    <2>1. /\ dec.partition = 0 /\ sts.partition = 0
          /\ sts.state \in {"CanaryUpscale", "Canary", "Rollout"}
      BY <1>2, <1>6, <1>9 DEF IInv, WalkInv, DecisionInv
    <2>2. sts.state \in {"Canary", "Rollout"} => 0 \in Updated
      BY <1>2, <1>7, <1>9, <2>1 DEF MovesPast
    <2>3. Walk!Finish
      BY <1>4, <1>5, <1>9, <2>1, <2>2 DEF Walk!Finish, Walk!End
    <2>4. QED
      BY <2>3
  <1>10. CASE dec.state = "Rollout"
    <2>1. /\ dec.partition = sts.partition - 1
          /\ sts.state \in {"CanaryUpscale", "Canary", "Rollout"}
      BY <1>2, <1>6, <1>10 DEF IInv, WalkInv, DecisionInv
    <2>2. sts.state \in {"Canary", "Rollout"} /\ sts.partition > 0
      BY <1>1, <1>2, <1>6, <2>1
    <2>3. Walk!Move
      BY <1>2, <1>4, <1>5, <1>7, <1>10, <2>1, <2>2 DEF Walk!Move, Walk!Lower, MovesPast
    <2>4. QED
      BY <2>3
  <1>11. CASE dec.state = "Canary"
    <2>1. dec.partition = sts.partition - 1 /\ sts.state = "Pending"
      BY <1>2, <1>6, <1>11 DEF IInv, WalkInv, DecisionInv
    <2>2. sts.partition > 0
      BY <1>1, <1>6, <2>1
    <2>3. Walk!Canary
      BY <1>4, <1>5, <1>11, <2>1, <2>2 DEF Walk!Canary, Walk!Lower
    <2>4. QED
      BY <2>3
  <1>12. CASE dec.state = "CanaryUpscale"
    <2>1. sts.state = "Pending" /\ dec.partition = sts.partition /\ sts.partition = 0
      BY <1>1, <1>2, <1>6, <1>12 DEF IInv, WalkInv, DecisionInv
    <2>2. first = 0
      BY <1>1, <2>1 DEF IInv, WalkInv, PhaseInv
    <2>3. Walk!Upscale
      BY <1>4, <1>5, <1>12, <2>1, <2>2 DEF Walk!Upscale, Walk!End
    <2>4. QED
      BY <2>3
  <1>13. QED
    BY <1>6, <1>8, <1>9, <1>10, <1>11, <1>12 DEF IInv, WalkInv, DecisionInv

\* Another template starts a walk.
LEMMA TemplateStarts ==
  ASSUME IInv, IInv', NEW r \in ReplicaCounts, UpdateTemplate(r)
  PROVE  Walk!Start
  <1>1. /\ taint' = {} /\ first' = sts'.partition /\ sts'.state = "Pending"
        /\ first' \in 0..MaxReplicas
    <2>1. /\ taint' = {} /\ first' = sts'.partition
          /\ sts' = ConfigureForRollout([sts EXCEPT !.replicas = r, !.rev = sts.rev + 1])
          /\ sts \in StatefulSet
      BY DEF UpdateTemplate, Store, IInv, TypeOK
    <2>2. sts'.state = "Pending"
      BY <2>1 DEF ConfigureForRollout, StatefulSet
    <2>3. QED
      BY <2>1, <2>2 DEF IInv, TypeOK
  <1>2. /\ OnWalk(sts.state, "off")' = "Pending"
        /\ OnWalk(first, 0)' = first' /\ OnWalk(sts.partition, 0)' = first'
    BY <1>1 DEF OnWalk
  <1>3. OnWalk({i \in Ordinals : pods[i].rev \in {0, sts.rev}}, Ordinals)'
          \in SUBSET Walk!Ordinals
    BY <1>1 DEF OnWalk, Walk!Ordinals, Ordinals
  <1>4. QED
    BY <1>1, <1>2, <1>3 DEF Walk!Start

\* Every step maps to a step of the walk or to none.
LEMMA StepWalks ==
  ASSUME IInv, IInv', [Next]_vars
  PROVE  [Walk!Next]_(Walk!vars)
  <1>1. CASE taint' # {}
    <2>1. Walk!Lose
      BY <1>1 DEF Walk!Lose, OnWalk, Walk!Ordinals, Ordinals
    <2>2. QED
      BY <2>1 DEF Walk!Next
  <1>2. CASE \E r \in ReplicaCounts : UpdateTemplate(r)
    BY <1>2, TemplateStarts DEF Walk!Next
  <1>3. CASE taint' = {} /\ WriteAccepted
    BY <1>3, WriteWalks DEF Walk!Next
  <1>4. CASE taint' = {} /\ UNCHANGED historyVars
    <2>1. CASE WriteAccepted
      BY <1>3, <1>4, <2>1
    <2>2. CASE ~WriteAccepted /\ ~(\E r \in ReplicaCounts : UpdateTemplate(r))
      <3>1. taint = {} /\ taint' = {} /\ first' = first
        BY <1>4 DEF historyVars
      <3>2. /\ sts'.rev = sts.rev /\ sts'.state = sts.state
            /\ sts'.partition = sts.partition
        <4>1. sts \in StatefulSet
          BY DEF IInv, TypeOK
        <4>2. CASE PublishStatus
          BY <4>1, <4>2 DEF PublishStatus, Store, Status, StatefulSet, clusterVars
        <4>3. ASSUME NEW r \in ReplicaCounts, Scale(r)
              PROVE  /\ sts'.rev = sts.rev /\ sts'.state = sts.state
                     /\ sts'.partition = sts.partition
          BY <4>1, <4>3 DEF Scale, Store, StatefulSet
        <4>4. ~Reapply
          BY <3>1 DEF Reapply
        <4>5. QED
          BY <2>2, <4>2, <4>3, <4>4, StatefulSetWriters
      <3>3. \A i \in Updated : i >= sts.partition => i \in Updated'
        BY <3>2, ExposedStay
      <3>4. /\ OnWalk(sts.state, "off") = sts.state /\ OnWalk(sts.state, "off")' = sts.state
            /\ UNCHANGED <<OnWalk(first, 0), OnWalk(sts.partition, 0)>>
            /\ OnWalk(sts.partition, 0) = sts.partition
            /\ OnWalk({i \in Ordinals : pods[i].rev \in {0, sts.rev}}, Ordinals) = Updated
            /\ OnWalk({i \in Ordinals : pods[i].rev \in {0, sts.rev}}, Ordinals)' = Updated'
        BY <3>1, <3>2 DEF OnWalk, Updated
      <3>5. Updated' \in SUBSET Walk!Ordinals /\ sts.state # "off"
        BY Ranges DEF Updated, Walk!Ordinals, Ordinals, IInv, States
      <3>6. Walk!PodsChange
        BY <3>3, <3>4, <3>5 DEF Walk!PodsChange
      <3>7. QED
        BY <3>6 DEF Walk!Next
    <2>3. QED
      BY <1>2, <2>1, <2>2
  <1>5. Reapply => taint' # {}
    BY DEF Reapply
  <1>6. QED
    BY <1>1, <1>2, <1>3, <1>4, <1>5, HistoryWriters

\* A rollout that meets no hazard is a canary walk: whatever the caches, the
\* queue, the timers, retries, crashes and failing pods do to it.
THEOREM Refinement == Spec => ImplementsCanaryWalk
  <1>1. Init => Walk!Init
    <2> SUFFICES ASSUME Init PROVE Walk!Init
      OBVIOUS
    <2>1. /\ sts.partition = 0 /\ sts.state = "CanaryUpscale" /\ first = 0 /\ taint = {}
          /\ \A i \in Ordinals : pods[i].rev = 0
      BY DEF Init, NoPod
    <2>2. QED
      BY <2>1 DEF Walk!Init, OnWalk, Walk!Ordinals, Ordinals
  <1>2. IInv /\ IInv' /\ [Next]_vars => [Walk!Next]_(Walk!vars)
    BY StepWalks
  <1>3. QED
    BY <1>1, <1>2, Inductive, PTL DEF Spec, ImplementsCanaryWalk, Walk!Spec

\* And so it keeps the walk's promise.
THEOREM PromiseIsKept == Spec => []Walk!Promise
  <1>1. MaxReplicas \in Nat
    OBVIOUS
  <1>2. Promised!Spec => []Promised!Promise
    BY <1>1, Promised!WalkKeepsPromise
  <1>3. Walk!Init <=> Promised!Init
    BY DEF Walk!Init, Promised!Init, Walk!Ordinals, Promised!Ordinals
  <1>4. [Walk!Next]_(Walk!vars) <=> [Promised!Next]_(Promised!vars)
    BY DEF Walk!Next, Walk!vars, Walk!Start, Walk!PodsChange, Walk!Canary, Walk!Move,
           Walk!Upscale, Walk!Finish, Walk!Fail, Walk!Lose, Walk!Lower, Walk!End,
           Walk!Running, Walk!Ordinals, Promised!Next, Promised!vars, Promised!Start,
           Promised!PodsChange, Promised!Canary, Promised!Move, Promised!Upscale,
           Promised!Finish, Promised!Fail, Promised!Lose, Promised!Lower, Promised!End,
           Promised!Running, Promised!Ordinals
  <1>5. Walk!Promise <=> Promised!Promise
    BY DEF Walk!Promise, Promised!Promise, Walk!Ordinals, Promised!Ordinals
  <1>6. QED
    BY <1>2, <1>3, <1>4, <1>5, Refinement, PTL
       DEF ImplementsCanaryWalk, Walk!Spec, Promised!Spec
=============================================================================
