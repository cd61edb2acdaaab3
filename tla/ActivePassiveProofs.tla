------------------------- MODULE ActivePassiveProofs -------------------------
(***************************************************************************)
(* Proofs of the safety of labels, ordinals and start-up, for every number *)
(* of zones, pods, containers, incarnations, certificates and failures.    *)
(***************************************************************************)
EXTENDS ActivePassiveProperties, TLAPS

USE ProcessAssumption, ConstantsAssumption

-----------------------------------------------------------------------------
(* The process *)

\* Starting, serving, failing and losing the secret keep the order of the start.
LEMMA ProcessSteps ==
  ASSUME ProcessTypeOK, StartedInOrder,
         \/ Startup \/ StartManager \/ Serve \/ Exit \/ SecretDeleted
         \/ UNCHANGED processVars
  PROVE  ProcessTypeOK' /\ StartedInOrder'
  <1> USE DEF ProcessTypeOK, StartedInOrder, Running, Enter, Phases, Certificates
  <1>1. CASE Start \/ ApplyCRDs \/ NewManager
    BY <1>1 DEF Start, ApplyCRDs, NewManager
  <1>2. CASE SetupCertificate
    BY <1>2 DEF SetupCertificate
  <1>3. CASE DeleteWebhookConfig \/ CreateWebhookConfig
    <2>1. 0 \in Certificates
      OBVIOUS
    <2>2. QED
      BY <1>3, <2>1 DEF DeleteWebhookConfig, CreateWebhookConfig
  <1>4. CASE AddControllers
    BY <1>4 DEF AddControllers
  <1>5. CASE StartManager \/ Serve
    BY <1>5 DEF StartManager, Serve
  <1>6. CASE Exit \/ SecretDeleted
    <2>1. 0 \in Certificates
      OBVIOUS
    <2>2. CASE Exit
      BY <2>1, <2>2 DEF Exit
    <2>3. CASE SecretDeleted
      BY <2>1, <2>3 DEF SecretDeleted
    <2>4. QED
      BY <1>6, <2>2, <2>3
  <1>7. CASE UNCHANGED processVars
    BY <1>7 DEF processVars
  <1>8. QED
    BY <1>1, <1>2, <1>3, <1>4, <1>5, <1>6, <1>7 DEF Startup

\* As long as a webhook is registered, what is admitted is mutated.
LEMMA AdmittedIsMutated ==
  ASSUME hook # 0, Admits
  PROVE  Mutates
  BY DEF Admits, Mutates

-----------------------------------------------------------------------------
(* Types of the values the actions build *)

LEMMA Constants == NoPod \in Pod /\ NoPods \in [Pods -> Pod] /\ NoAnswer \in Answer
  <1>1. NoPod \in Pod
    BY DEF NoPod, Pod
  <1>2. PICK z \in Zones, o \in Ordinals : <<z, o>> \in Pods
    BY DEF Pods
  <1>3. (CHOOSE p \in Pods : TRUE) \in Pods
    BY <1>2
  <1>4. (CHOOSE c \in Containers : TRUE) \in Containers
    OBVIOUS
  <1>5. QED
    BY <1>1, <1>3, <1>4 DEF NoPods, NoAnswer, Answer

LEMMA DisturbType ==
  ASSUME left \in 0..MaxDisturbances, NEW kind, Disturb(kind)
  PROVE  left' \in 0..MaxDisturbances
  BY DEF Disturb

LEMMA MutatedType ==
  ASSUME NEW pod \in Pod
  PROVE  /\ Mutated(pod) \in Pod
         /\ pod.ordinal => Mutated(pod).ordinal
         /\ Mutates => Mutated(pod).ordinal
         /\ Mutated(pod).id = pod.id /\ Mutated(pod).exists = pod.exists
         /\ Mutated(pod).active = pod.active
  <1>1. Mutates \in BOOLEAN
    BY DEF Mutates
  <1>2. QED
    BY <1>1 DEF Mutated, Pod

-----------------------------------------------------------------------------
(* The inductive invariant, group by group *)

\* What the parts of the invariant about copies are stated on.
CopyVars == <<pods, podCache, fresh, listed, same, todo>>

\* What the part about the informer of the QuarksStatefulSet is stated on.
ShownVars == <<phase, present, specVars>>

\* Storing a new version of one pod, with every copy left alone.
LEMMA StoreSteps ==
  ASSUME IInv, NEW p \in Pods, NEW pod \in Pod, StorePod(p, pod),
         UNCHANGED <<podCache, listed, todo, pc, answer>>
  PROVE  /\ pods' \in [Pods -> Pod] /\ fresh' \subseteq Pods /\ same' \subseteq Pods
         /\ CopiesInv' /\ AnswerInv'
  <1> USE DEF IInv, TypeOK
  <1>1. /\ pods' \in [Pods -> Pod] /\ fresh' \subseteq Pods /\ same' \subseteq Pods
        /\ pods'[p] = pod /\ \A q \in Pods : q # p => pods'[q] = pods[q]
    BY DEF StorePod
  <1>2. CopiesInv'
    BY <1>1 DEF StorePod, CopiesInv
  <1>3. AnswerInv'
    BY <1>1 DEF StorePod, AnswerInv, Answer
  <1>4. QED
    BY <1>1, <1>2, <1>3

\* The pods of the cluster and the clients that label them.
LEMMA PodSteps ==
  ASSUME IInv, NEW p \in Pods,
         \/ CreatePod(p) \/ PodGoes(p) \/ PodCollected(p) \/ PodReady(p)
         \/ PodUnready(p) \/ ClientLabels(p)
  PROVE  IInv'
  <1> USE DEF IInv, TypeOK
  <1>0. NoPod \in Pod /\ pods[p] \in Pod /\ pods[p].id \in 0..MaxIncarnations
    BY Constants DEF Pod
  <1>1. /\ Aside
        /\ healthy' = healthy /\ hung' \subseteq Pods
        /\ left' \in 0..MaxDisturbances
    BY DEF CreatePod, PodGoes, PodCollected, PodReady, PodUnready, ClientLabels,
           Disturb
  <1>2. PICK pod \in Pod : StorePod(p, pod)
    <2>1. CASE CreatePod(p)
      <3> DEFINE new == [NoPod EXCEPT !.id = pods[p].id + 1, !.exists = TRUE]
      <3>1. new \in Pod
        <4>1. pods[p].id + 1 \in 0..MaxIncarnations
          BY <2>1, <1>0 DEF CreatePod
        <4>2. QED
          BY <4>1 DEF Pod, NoPod
      <3>2. QED
        BY <2>1, <3>1, MutatedType DEF CreatePod
    <2>2. CASE PodGoes(p) \/ PodCollected(p)
      <3> DEFINE new == [NoPod EXCEPT !.id = pods[p].id]
      <3>1. new \in Pod
        BY <1>0 DEF Pod, NoPod
      <3>2. StorePod(p, new)
        BY <2>2 DEF PodGoes, PodCollected
      <3>3. QED
        BY <3>1, <3>2
    <2>3. CASE PodReady(p) \/ PodUnready(p)
      <3> DEFINE new(ready) == [pods[p] EXCEPT !.ready = ready]
      <3>1. \A ready \in BOOLEAN : new(ready) \in Pod
        BY <1>0 DEF Pod
      <3>2. StorePod(p, new(TRUE)) \/ StorePod(p, new(FALSE))
        BY <2>3 DEF PodReady, PodUnready
      <3>3. QED
        BY <3>1, <3>2
    <2>4. CASE ClientLabels(p)
      <3> DEFINE new == [pods[p] EXCEPT !.active = ~pods[p].active]
      <3>1. new \in Pod
        BY <1>0 DEF Pod
      <3>2. QED
        BY <2>4, <3>1, MutatedType DEF ClientLabels
    <2>5. QED
      BY <2>1, <2>2, <2>3, <2>4
  <1>3. UNCHANGED <<podCache, listed, todo, pc, answer>>
    BY <1>1 DEF Aside
  <1>4. /\ pods' \in [Pods -> Pod] /\ fresh' \subseteq Pods /\ same' \subseteq Pods
        /\ CopiesInv' /\ AnswerInv'
    BY <1>2, <1>3, StoreSteps
  <1>5. ProcessTypeOK' /\ StartedInOrder'
    BY <1>1, ProcessSteps DEF Aside
  <1>6. TypeOK'
    BY <1>1, <1>4, <1>5 DEF Aside, specVars
  <1>7. ShownInv'
    BY <1>1 DEF Aside, ShownInv, Running, specVars, processVars
  <1>8. QED
    BY <1>4, <1>5, <1>6, <1>7

\* Steps that leave the pods and their copies alone.
LEMMA AsideSteps ==
  ASSUME IInv, TypeOK', StartedInOrder', ShownInv', UNCHANGED CopyVars,
         UNCHANGED answer \/ pc' # "mark", pc' = "mark" => pc = "mark"
  PROVE  IInv'
  BY DEF IInv, CopyVars, CopiesInv, AnswerInv

\* Steps that leave the informer of the QuarksStatefulSet alone.
LEMMA ShownSteps ==
  ASSUME ShownInv, UNCHANGED ShownVars
  PROVE  ShownInv'
  BY DEF ShownInv, ShownVars, Running, specVars

\* The informers, the application, the spec and the StatefulSets.
LEMMA ClusterSteps ==
  ASSUME IInv,
         \/ \E p \in Pods : \/ DeliverPod(p) \/ Hangs(p)
                            \/ \E c \in Containers : AppSwitches(c, p)
         \/ \E z \in Zones : RaiseVersion(z) \/ StatefulSetCollected(z)
         \/ \E cs \in SUBSET Containers : UpdateQsts(cs)
         \/ Delete \/ DeliverSpec \/ DeliverDeletion
  PROVE  IInv'
  <1> USE DEF IInv
  <1>1. CASE \E p \in Pods : DeliverPod(p)
    <2> PICK p \in Pods : DeliverPod(p)
      BY <1>1
    <2>1. TypeOK' /\ StartedInOrder'
      BY ProcessSteps DEF DeliverPod, TypeOK, clusterVars, roundVars, specVars
    <2>2. CopiesInv'
      BY DEF DeliverPod, TypeOK, CopiesInv, clusterVars, roundVars
    <2>3. AnswerInv'
      BY DEF DeliverPod, TypeOK, AnswerInv, clusterVars, roundVars
    <2>4. ShownInv'
      BY ShownSteps DEF DeliverPod, ShownVars, clusterVars, processVars
    <2>5. QED
      BY <2>1, <2>2, <2>3, <2>4
  <1>2. CASE \E p \in Pods : \/ Hangs(p)
                             \/ \E c \in Containers : AppSwitches(c, p)
    <2>1. /\ Aside /\ UNCHANGED <<pods, fresh, same>>
          /\ healthy' \subseteq Containers \X Pods /\ hung' \subseteq Pods
          /\ left' \in 0..MaxDisturbances
      <3>1. CASE \E p \in Pods : Hangs(p)
        BY <3>1, DisturbType DEF Hangs, TypeOK
      <3>2. CASE \E p \in Pods, c \in Containers : AppSwitches(c, p)
        <4> PICK p \in Pods, c \in Containers : AppSwitches(c, p)
          BY <3>2
        <4>1. <<c, p>> \in Containers \X Pods
          OBVIOUS
        <4>2. QED
          BY <4>1, DisturbType DEF AppSwitches, TypeOK
      <3>3. QED
        BY <1>2, <3>1, <3>2
    <2>2. TypeOK' /\ StartedInOrder'
      BY <2>1, ProcessSteps DEF Aside, TypeOK, specVars
    <2>3. ShownInv'
      BY <2>1, ShownSteps DEF Aside, ShownVars, processVars
    <2>4. QED
      BY <2>1, <2>2, <2>3, AsideSteps DEF Aside, CopyVars
  <1>3. CASE \E z \in Zones : RaiseVersion(z) \/ StatefulSetCollected(z)
    <2>1. /\ version' \in [Zones -> 0..MaxVersion] /\ left' \in 0..MaxDisturbances
          /\ UNCHANGED <<processVars, present, pods, probes, healthy, hung, cacheVars,
                         roundVars, queued, timer, pc>>
      <3>1. CASE \E z \in Zones : RaiseVersion(z)
        BY <3>1 DEF RaiseVersion, TypeOK, Disturb
      <3>2. CASE \E z \in Zones : StatefulSetCollected(z)
        BY <3>2 DEF StatefulSetCollected, TypeOK
      <3>3. QED
        BY <1>3, <3>1, <3>2
    <2>2. TypeOK' /\ StartedInOrder'
      BY <2>1, ProcessSteps DEF TypeOK, cacheVars, specVars, roundVars
    <2>3. ShownInv'
      BY <2>1, ShownSteps DEF ShownVars, cacheVars, processVars
    <2>4. QED
      BY <2>1, <2>2, <2>3, AsideSteps DEF CopyVars, cacheVars, roundVars
  <1>4. CASE \E cs \in SUBSET Containers : UpdateQsts(cs)
    <2> PICK cs \in SUBSET Containers : UpdateQsts(cs)
      BY <1>4
    <2>1. watch' \in Seq(SUBSET Containers) /\ left' \in 0..MaxDisturbances
      BY DisturbType DEF UpdateQsts, TypeOK
    <2>2. TypeOK' /\ StartedInOrder'
      BY <2>1, ProcessSteps DEF UpdateQsts, TypeOK, roundVars
    <2>3. ShownInv'
      BY DEF UpdateQsts, ShownInv, Running, processVars
    <2>4. QED
      BY <2>2, <2>3, AsideSteps DEF UpdateQsts, CopyVars, roundVars
  <1>5. CASE Delete
    <2>1. TypeOK' /\ StartedInOrder'
      <3>1. left' \in 0..MaxDisturbances
        BY <1>5, DisturbType DEF Delete, TypeOK
      <3>2. QED
        BY <1>5, <3>1, ProcessSteps DEF Delete, TypeOK, cacheVars, specVars, roundVars
    <2>2. ShownInv'
      BY <1>5 DEF Delete, ShownInv, Running, cacheVars, specVars, processVars
    <2>3. QED
      BY <1>5, <2>1, <2>2, AsideSteps DEF Delete, CopyVars, cacheVars, roundVars
  <1>6. CASE DeliverSpec \/ DeliverDeletion
    <2>1. watch' \in Seq(SUBSET Containers) /\ known' \subseteq Containers
          /\ queued' \in BOOLEAN
      <3>1. CASE DeliverSpec
        <4>1. /\ watch \in Seq(SUBSET Containers) /\ watch # <<>>
              /\ queued' = (queued \/ Head(watch) # {})
          BY <3>1 DEF DeliverSpec, TypeOK
        <4>2. Head(watch) \in SUBSET Containers /\ Tail(watch) \in Seq(SUBSET Containers)
          BY <4>1
        <4>3. queued' \in BOOLEAN
          BY <4>1
        <4>4. QED
          BY <3>1, <4>2, <4>3 DEF DeliverSpec
      <3>2. CASE DeliverDeletion
        BY <3>2 DEF DeliverDeletion, TypeOK
      <3>3. QED
        BY <1>6, <3>1, <3>2
    <2>2. TypeOK' /\ StartedInOrder'
      BY <1>6, <2>1, ProcessSteps
         DEF DeliverSpec, DeliverDeletion, TypeOK, clusterVars, roundVars
    <2>3. ShownInv'
      BY <1>6 DEF DeliverSpec, DeliverDeletion, ShownInv, Running, clusterVars, processVars
    <2>4. QED
      BY <1>6, <2>2, <2>3, AsideSteps
         DEF DeliverSpec, DeliverDeletion, CopyVars, clusterVars, roundVars
  <1>7. QED
    BY <1>1, <1>2, <1>3, <1>4, <1>5, <1>6

\* What a step of the worker that stores no pod leaves alone or resets.
LEMMA RoundAsideSteps ==
  ASSUME IInv, Unaffected, UNCHANGED <<pods, podCache, fresh>>,
         queued' \in BOOLEAN, timer' \in BOOLEAN, pc' \in {"idle", "list", "probe"},
         round' \subseteq Zones, todo' \subseteq Pods, answer' \in Answer,
         \/ UNCHANGED <<todo, listed, same>>
         \/ listed' = NoPods /\ same' = {}
         \/ /\ listed' = [p \in Pods |-> IF p \in todo' THEN podCache[p] ELSE NoPod]
            /\ same' = fresh \cap todo'
  PROVE  IInv'
  <1> USE DEF IInv
  <1>1. listed' \in [Pods -> Pod] /\ same' \subseteq Pods
    BY Constants DEF TypeOK
  <1>2. TypeOK' /\ StartedInOrder'
    BY <1>1, ProcessSteps DEF Unaffected, TypeOK, specVars
  <1>3. CopiesInv'
    BY DEF CopiesInv, TypeOK, NoPods
  <1>4. AnswerInv'
    BY DEF AnswerInv
  <1>5. ShownInv'
    BY ShownSteps DEF Unaffected, ShownVars, processVars
  <1>6. QED
    BY <1>2, <1>3, <1>4, <1>5

\* The turns of the worker that leave the pods alone.
LEMMA RoundSteps ==
  ASSUME IInv,
         \/ TimerFires \/ NotFound \/ NoProbe \/ ZoneDone \/ EndRound \/ MarkFails
         \/ \E c \in Containers : BeginRound(c)
         \/ \E z \in Zones : ListPods(z)
  PROVE  IInv'
  <1> USE DEF IInv, TypeOK
  <1>1. CASE TimerFires
    <2>1. TypeOK' /\ StartedInOrder'
      BY <1>1, ProcessSteps DEF TimerFires, clusterVars, cacheVars, specVars, roundVars
    <2>2. ShownInv'
      BY <1>1, ShownSteps DEF TimerFires, ShownVars, clusterVars, cacheVars, processVars
    <2>3. QED
      BY <1>1, <2>1, <2>2, AsideSteps
         DEF TimerFires, CopyVars, clusterVars, cacheVars, roundVars
  <1>2. CASE NotFound \/ NoProbe \/ EndRound \/ MarkFails
    <2>1. (timer \/ PeriodSeconds >= 0) \in BOOLEAN
      OBVIOUS
    <2>2. QED
      BY <1>2, <2>1, Constants, RoundAsideSteps
         DEF NotFound, NoProbe, EndRound, MarkFails, Retry, RoundOver, roundVars
  <1>3. CASE ZoneDone
    BY <1>3, RoundAsideSteps DEF ZoneDone
  <1>4. CASE \E c \in Containers : BeginRound(c)
    <2> PICK c \in Containers : BeginRound(c)
      BY <1>4
    <2>1. answer' \in Answer
      BY Constants DEF BeginRound, Answer
    <2>2. round' \subseteq Zones
      BY DEF BeginRound, NewestZones
    <2>3. QED
      BY <2>1, <2>2, RoundAsideSteps DEF BeginRound
  <1>5. CASE \E z \in Zones : ListPods(z)
    BY <1>5, RoundAsideSteps DEF ListPods
  <1>6. QED
    BY <1>1, <1>2, <1>3, <1>4, <1>5

\* A probe's answer, and the label it leads to.
LEMMA MarkSteps ==
  ASSUME IInv, MarkInPlace \/ MarkPod \/ \E p \in Pods : Probe(p)
  PROVE  IInv'
  <1> USE DEF IInv, TypeOK
  <1>1. CASE \E p \in Pods : Probe(p)
    <2> PICK p \in Pods : Probe(p)
      BY <1>1
    <2>1. PICK ok \in BOOLEAN :
            answer' = [answer EXCEPT !.pod = p, !.id = pods[p].id, !.ok = ok]
      BY DEF Probe
    <2>2. /\ answer' \in Answer /\ answer'.pod = p /\ answer'.id = pods[p].id
      BY <2>1 DEF Answer, Pod
    <2>3. left' \in 0..MaxDisturbances
      BY DisturbType DEF Probe
    <2>4. TypeOK' /\ StartedInOrder'
      BY <2>2, <2>3, ProcessSteps DEF Probe, clusterVars, cacheVars, specVars
    <2>5. CopiesInv' /\ AnswerInv'
      BY <2>2 DEF Probe, CopiesInv, AnswerInv, clusterVars, cacheVars
    <2>6. ShownInv'
      BY ShownSteps DEF Probe, ShownVars, clusterVars, cacheVars, processVars
    <2>7. QED
      BY <2>4, <2>5, <2>6
  <1>2. CASE MarkInPlace \/ MarkPod
    <2>1. /\ answer.pod \in Pods
          /\ answer' \in Answer /\ listed' \in [Pods -> Pod]
          /\ \A p \in Pods : listed'[p] = IF p = answer.pod THEN NoPod ELSE listed[p]
      <3>1. /\ listed' = [listed EXCEPT ![answer.pod] = NoPod]
            /\ answer' = [NoAnswer EXCEPT !.container = answer.container]
        BY <1>2 DEF MarkInPlace, MarkPod, NextPod
      <3>2. answer.pod \in Pods /\ answer.container \in Containers
        BY DEF Answer
      <3>3. answer' \in Answer
        BY <3>1, <3>2, Constants DEF Answer
      <3>4. QED
        BY <3>1, <3>2, <3>3, Constants
    <2>2. ShownInv'
      BY <1>2, ShownSteps DEF MarkInPlace, MarkPod, Unaffected, ShownVars, processVars
    <2>3. CASE MarkInPlace
      <3>1. TypeOK' /\ StartedInOrder'
        BY <2>1, <2>3, ProcessSteps DEF MarkInPlace, NextPod, Unaffected, specVars
      <3>2. CopiesInv' /\ AnswerInv'
        BY <2>1, <2>3 DEF MarkInPlace, NextPod, Unaffected, CopiesInv, AnswerInv
      <3>3. QED
        BY <2>2, <3>1, <3>2
    <2>4. CASE MarkPod
      <3> DEFINE p   == answer.pod
                 new == [listed[p] EXCEPT !.active = Wanted]
      <3>1. StorePod(p, Mutated(new)) /\ p \in same /\ p \in Pods
        BY <2>1, <2>4 DEF MarkPod
      <3>2. Wanted \in BOOLEAN
        BY <2>1 DEF Wanted, Pod
      <3>3. listed[p] \in Pod
        BY <3>1
      <3>4. new \in Pod
        BY <3>2, <3>3 DEF Pod
      <3>5. Mutated(new) \in Pod
        BY <3>4, MutatedType
      <3>6. /\ pods' \in [Pods -> Pod] /\ fresh' \subseteq Pods /\ same' \subseteq Pods
            /\ \A q \in Pods : q # p => pods'[q] = pods[q]
        BY <3>1, <3>5 DEF StorePod
      <3>7. TypeOK' /\ StartedInOrder'
        BY <2>1, <2>4, <3>6, ProcessSteps DEF MarkPod, NextPod, Unaffected, specVars
      <3>8. CopiesInv'
        BY <2>1, <2>4, <3>1, <3>6 DEF MarkPod, NextPod, StorePod, CopiesInv
      <3>9. AnswerInv'
        BY <2>4 DEF MarkPod, NextPod, AnswerInv
      <3>10. QED
        BY <2>2, <3>7, <3>8, <3>9
    <2>5. QED
      BY <1>2, <2>3, <2>4
  <1>3. QED
    BY <1>1, <1>2

\* The process starts, dies or loses its secret; a failing call ends the round.
LEMMA OperatorSteps ==
  ASSUME IInv, Process \/ Crash \/ LoseSecret \/ CallFails
  PROVE  IInv'
  <1> USE DEF IInv, TypeOK
  <1>1. CASE (Startup \/ Serve) /\ NotYetRunning
    <2>1. TypeOK' /\ StartedInOrder'
      BY <1>1, ProcessSteps DEF NotYetRunning, clusterVars, cacheVars, specVars, roundVars
    <2>2. Running' = Running
      BY <1>1 DEF Startup, Start, ApplyCRDs, NewManager, SetupCertificate,
           DeleteWebhookConfig, CreateWebhookConfig, AddControllers, Serve, Enter, Running
    <2>3. ShownInv'
      BY <1>1, <2>2 DEF NotYetRunning, ShownInv, clusterVars, cacheVars, specVars
    <2>4. QED
      BY <1>1, <2>1, <2>3, AsideSteps DEF NotYetRunning, CopyVars, clusterVars, cacheVars,
                                          roundVars
  <1>2. CASE Run
    <2>1. ProcessTypeOK' /\ StartedInOrder'
      BY <1>2, ProcessSteps DEF Run
    <2>2. <<>> \in Seq(SUBSET Containers)
      OBVIOUS
    <2>3. TypeOK'
      BY <1>2, <2>1, <2>2 DEF Run, clusterVars, roundVars
    <2>4. CopiesInv' /\ AnswerInv'
      BY <1>2 DEF Run, CopiesInv, AnswerInv, clusterVars, roundVars
    <2>5. ShownInv'
      BY <1>2 DEF Run, StartManager, Enter, ShownInv, Running, clusterVars
    <2>6. QED
      BY <2>1, <2>3, <2>4, <2>5
  <1>3. CASE Crash \/ LoseSecret
    <2>1. ProcessTypeOK' /\ StartedInOrder'
      BY <1>3, ProcessSteps DEF Crash, LoseSecret
    <2>2. left' \in 0..MaxDisturbances /\ <<>> \in Seq(SUBSET Containers)
      BY <1>3, DisturbType DEF Crash, LoseSecret
    <2>3. TypeOK'
      BY <1>3, <2>1, <2>2, Constants
         DEF Crash, LoseSecret, RoundOver, clusterVars, cacheVars, specVars, roundVars
    <2>4. CopiesInv' /\ AnswerInv'
      BY <1>3 DEF Crash, LoseSecret, RoundOver, CopiesInv, AnswerInv, clusterVars,
           cacheVars, roundVars
    <2>5. ShownInv'
      BY <1>3 DEF Crash, LoseSecret, Exit, SecretDeleted, ShownInv, Running, clusterVars,
           cacheVars, specVars
    <2>6. QED
      BY <2>1, <2>3, <2>4, <2>5
  <1>4. CASE CallFails
    <2>1. left' \in 0..MaxDisturbances
      BY <1>4, DisturbType DEF CallFails
    <2>2. TypeOK' /\ StartedInOrder'
      BY <1>4, <2>1, Constants, ProcessSteps
         DEF CallFails, Retry, RoundOver, clusterVars, cacheVars, specVars
    <2>3. CopiesInv' /\ AnswerInv'
      BY <1>4 DEF CallFails, Retry, RoundOver, CopiesInv, AnswerInv, clusterVars,
           cacheVars
    <2>4. ShownInv'
      BY <1>4, ShownSteps DEF CallFails, ShownVars, clusterVars, cacheVars, processVars
    <2>5. QED
      BY <2>2, <2>3, <2>4
  <1>5. QED
    BY <1>1, <1>2, <1>3, <1>4 DEF Process

LEMMA InitIInv == Init => IInv
  <1> SUFFICES ASSUME Init PROVE IInv
    OBVIOUS
  <1>1. ProcessTypeOK /\ StartedInOrder
    <2>1. 0 \in Certificates
      BY DEF Certificates
    <2>2. QED
      BY <2>1 DEF Init, ProcessInit, ProcessTypeOK, StartedInOrder, Phases
  <1>2. version \in [Zones -> 0..MaxVersion] /\ left \in 0..MaxDisturbances
    BY DEF Init
  <1>3. TypeOK
    <2>1. <<>> \in Seq(SUBSET Containers)
      OBVIOUS
    <2>2. QED
      BY <1>1, <1>2, <2>1, Constants DEF Init, TypeOK
  <1>4. CopiesInv /\ AnswerInv /\ ShownInv
    BY DEF Init, ProcessInit, Running, CopiesInv, AnswerInv, ShownInv
  <1>5. QED
    BY <1>1, <1>3, <1>4 DEF IInv

LEMMA NextIInv == IInv /\ [Next]_vars => IInv'
  <1> SUFFICES ASSUME IInv, [Next]_vars PROVE IInv'
    OBVIOUS
  <1>1. CASE UNCHANGED vars
    <2>1. TypeOK' /\ StartedInOrder'
      BY <1>1, ProcessSteps
         DEF IInv, TypeOK, vars, clusterVars, cacheVars, specVars, roundVars
    <2>2. ShownInv'
      BY <1>1, ShownSteps DEF IInv, ShownVars, vars, clusterVars, cacheVars, processVars
    <2>3. QED
      BY <1>1, <2>1, <2>2, AsideSteps DEF vars, CopyVars, clusterVars, cacheVars, roundVars
  <1>2. CASE Process \/ Crash \/ LoseSecret \/ CallFails
    BY <1>2, OperatorSteps
  <1>3. CASE Round
    BY <1>3, RoundSteps, MarkSteps DEF Round
  <1>4. CASE Informers \/ Cluster \/ Reconciler
    BY <1>4, ClusterSteps, PodSteps DEF Informers, Cluster, Reconciler
  <1>5. CASE Environment
    BY <1>5, OperatorSteps, ClusterSteps, PodSteps DEF Environment
  <1>6. QED
    BY <1>1, <1>2, <1>3, <1>4, <1>5 DEF Next

-----------------------------------------------------------------------------
(* What changes a pod *)

\* A step that changes a pod is one of these, about that pod.
LEMMA OnePodChanges ==
  ASSUME TypeOK, [Next]_vars, NEW p \in Pods
  PROVE  \/ pods'[p] = pods[p]
         \/ CreatePod(p) \/ PodGoes(p) \/ PodCollected(p) \/ PodReady(p) \/ PodUnready(p)
         \/ ClientLabels(p)
         \/ MarkPod /\ answer.pod = p
  <1>1. CASE \E q \in Pods : \/ CreatePod(q) \/ PodGoes(q) \/ PodCollected(q)
                             \/ PodReady(q) \/ PodUnready(q) \/ ClientLabels(q)
    <2> PICK q \in Pods : \/ CreatePod(q) \/ PodGoes(q) \/ PodCollected(q)
                          \/ PodReady(q) \/ PodUnready(q) \/ ClientLabels(q)
      BY <1>1
    <2>1. CASE q = p
      BY <2>1
    <2>2. CASE q # p
      <3>1. \E pod : StorePod(q, pod)
        BY DEF CreatePod, PodGoes, PodCollected, PodReady, PodUnready, ClientLabels
      <3>2. QED
        BY <2>2, <3>1 DEF StorePod, TypeOK
    <2>3. QED
      BY <2>1, <2>2
  <1>2. CASE MarkPod
    BY <1>2 DEF MarkPod, StorePod, TypeOK
  <1>3. CASE Process \/ Crash \/ LoseSecret \/ CallFails \/ Delete \/ UNCHANGED vars
    <2>1. pods' = pods
      BY <1>3 DEF Process, NotYetRunning, Run, Crash, LoseSecret, CallFails, Delete,
                  vars, clusterVars
    <2>2. QED
      BY <2>1
  <1>4. CASE \/ Informers \/ Reconciler
             \/ \E z \in Zones : StatefulSetCollected(z)
             \/ \E cs \in SUBSET Containers : UpdateQsts(cs)
             \/ \E q \in Pods : Hangs(q) \/ \E c \in Containers : AppSwitches(c, q)
    <2>1. pods' = pods
      BY <1>4 DEF Informers, Reconciler, DeliverSpec, DeliverDeletion, DeliverPod,
                  RaiseVersion, StatefulSetCollected, UpdateQsts, Hangs, AppSwitches,
                  clusterVars
    <2>2. QED
      BY <2>1
  <1>5. CASE Round /\ ~MarkPod
    <2>1. pods' = pods
      BY <1>5 DEF Round, TimerFires, NotFound, NoProbe, ZoneDone, EndRound,
           MarkInPlace, MarkFails, BeginRound, ListPods, Probe, clusterVars
    <2>2. QED
      BY <2>1
  <1>6. QED
    BY <1>1, <1>2, <1>3, <1>4, <1>5 DEF Next, Cluster, Environment

-----------------------------------------------------------------------------
(* The theorems *)

\* The inductive invariant, with every type: copies of pods are old or true, an
\* answer is that of the pod listed, and the informer shows the QuarksStatefulSet
\* until the watch has told it everything, the deletion last.
THEOREM Inductive == Spec => []IInv
  BY InitIInv, NextIInv, PTL DEF Spec

\* A webhook server that listens has the certificate that the registered
\* configuration trusts (SetupCertificate before CreateMutationWebhookServerConfig).
THEOREM ServingIsTrusted == Spec => []ServedIsTrusted
  <1>1. IInv => ServedIsTrusted
    BY DEF IInv, StartedInOrder, ServedIsTrusted, Running
  <1>2. QED
    BY <1>1, Inductive, PTL

\* A pod misses its ordinal label only if no webhook was registered when it was
\* created, and no update of a pod that has it takes it away: MarkPod writes the
\* server's version back, and whatever passes Admits while a configuration is
\* registered passes PodMutator.Handle.
THEOREM EveryPodIsNumbered == Spec => PodsAreNumbered
  <1> DEFINE Excused(p) ==
        pods'[p].exists /\ ~pods'[p].ordinal =>
          \/ pods[p].exists /\ pods[p].id = pods'[p].id /\ ~pods[p].ordinal
          \/ ~pods[p].exists /\ hook = 0 /\ phase \notin {"controllers", "ready", "running"}
  <1>1. ASSUME IInv, [Next]_vars PROVE \A p \in Pods : Excused(p)
    <2> TAKE p \in Pods
    <2>1. CASE pods'[p] = pods[p]
      BY <2>1
    <2>2. CASE CreatePod(p)
      <3> DEFINE new == [NoPod EXCEPT !.id = pods[p].id + 1, !.exists = TRUE]
      <3>1. pods'[p] = Mutated(new) /\ Admits /\ ~pods[p].exists
        BY <1>1, <2>2 DEF CreatePod, StorePod, IInv, TypeOK
      <3>2. pods[p].id + 1 \in 0..MaxIncarnations
        BY <1>1, <2>2 DEF CreatePod, IInv, TypeOK, Pod
      <3>3. new \in Pod
        BY <3>2 DEF NoPod, Pod
      <3>4. CASE hook # 0
        BY <3>1, <3>3, <3>4, AdmittedIsMutated, MutatedType
      <3>5. CASE hook = 0
        BY <1>1, <3>1, <3>5 DEF IInv, StartedInOrder
      <3>6. QED
        BY <3>4, <3>5
    <2>3. CASE PodGoes(p) \/ PodCollected(p)
      <3>1. pods'[p] = [NoPod EXCEPT !.id = pods[p].id]
        BY <1>1, <2>3 DEF PodGoes, PodCollected, StorePod, IInv, TypeOK
      <3>2. QED
        BY <3>1 DEF NoPod
    <2>4. CASE PodReady(p) \/ PodUnready(p)
      <3>1. PICK r \in BOOLEAN : pods' = [pods EXCEPT ![p] = [pods[p] EXCEPT !.ready = r]]
        BY <2>4 DEF PodReady, PodUnready, StorePod
      <3>2. pods \in [Pods -> Pod] /\ pods[p] \in Pod
        BY <1>1 DEF IInv, TypeOK
      <3>3. pods'[p] = [pods[p] EXCEPT !.ready = r]
        BY <3>1, <3>2
      <3>4. QED
        BY <3>2, <3>3 DEF Pod
    <2>5. CASE ClientLabels(p)
      <3> DEFINE new == [pods[p] EXCEPT !.active = ~pods[p].active]
      <3>1. pods[p] \in Pod /\ pods'[p] = Mutated(new)
        BY <1>1, <2>5 DEF ClientLabels, StorePod, IInv, TypeOK
      <3>2. new \in Pod /\ new.id = pods[p].id
            /\ new.exists = pods[p].exists /\ new.ordinal = pods[p].ordinal
        BY <3>1 DEF Pod
      <3>3. QED
        BY <3>1, <3>2, MutatedType
    <2>6. CASE MarkPod /\ answer.pod = p
      <3> DEFINE new == [listed[p] EXCEPT !.active = Wanted]
      <3>1. pods[p] \in Pod /\ listed[p] = pods[p] /\ pods'[p] = Mutated(new)
        BY <1>1, <2>6 DEF MarkPod, StorePod, IInv, TypeOK, CopiesInv
      <3>2. Wanted \in BOOLEAN
        BY <2>6, <3>1 DEF Wanted, Pod
      <3>3. new \in Pod /\ new.id = pods[p].id
            /\ new.exists = pods[p].exists /\ new.ordinal = pods[p].ordinal
        BY <3>1, <3>2 DEF Pod
      <3>4. QED
        BY <3>1, <3>3, MutatedType
    <2>7. TypeOK
      BY <1>1 DEF IInv
    <2>8. QED
      BY <1>1, <2>1, <2>2, <2>3, <2>4, <2>5, <2>6, <2>7, OnePodChanges
  <1>2. IInv /\ [Next]_vars => [\A p \in Pods : Excused(p)]_vars
    BY <1>1
  <1>3. QED
    BY <1>2, Inductive, PTL DEF Spec, PodsAreNumbered
-----------------------------------------------------------------------------
\* The label is changed by hand, or by the answer of the pod that has it: the
\* update of updatePodLabels carries the version that was listed before the
\* probe, so it conflicts when the pod was replaced or became unready since.
THEOREM LabelsAreTheProbes == Spec => LabelsFollowProbe
  <1> DEFINE Justified(p) ==
        pods'[p].id = pods[p].id /\ pods'[p].exists /\ pods'[p].active # pods[p].active
          => \/ ClientLabels(p)
             \/ /\ pc = "mark" /\ answer.pod = p /\ answer.id = pods[p].id
                /\ pods'[p].active = answer.ok
                /\ answer.ok => pods[p].ready
  <1>1. ASSUME IInv, [Next]_vars PROVE \A p \in Pods : Justified(p)
    <2> TAKE p \in Pods
    <2>1. CASE pods'[p] = pods[p] \/ ClientLabels(p)
      BY <2>1
    <2>2. CASE CreatePod(p)
      <3> DEFINE new == [NoPod EXCEPT !.id = pods[p].id + 1, !.exists = TRUE]
      <3>1. pods'[p] = Mutated(new)
        BY <1>1, <2>2 DEF CreatePod, StorePod, IInv, TypeOK
      <3>2. Mutated(new).id = pods[p].id + 1
        BY DEF Mutated, NoPod
      <3>3. pods[p].id \in 0..MaxIncarnations
        BY <1>1 DEF IInv, TypeOK, Pod
      <3>4. QED
        BY <3>1, <3>2, <3>3
    <2>3. CASE PodGoes(p) \/ PodCollected(p)
      <3>1. pods'[p] = [NoPod EXCEPT !.id = pods[p].id]
        BY <1>1, <2>3 DEF PodGoes, PodCollected, StorePod, IInv, TypeOK
      <3>2. QED
        BY <3>1 DEF NoPod
    <2>4. CASE PodReady(p) \/ PodUnready(p)
      <3>1. PICK r \in BOOLEAN : pods' = [pods EXCEPT ![p] = [pods[p] EXCEPT !.ready = r]]
        BY <2>4 DEF PodReady, PodUnready, StorePod
      <3>2. pods \in [Pods -> Pod] /\ pods[p] \in Pod
        BY <1>1 DEF IInv, TypeOK
      <3>3. pods'[p] = [pods[p] EXCEPT !.ready = r]
        BY <3>1, <3>2
      <3>4. QED
        BY <3>2, <3>3 DEF Pod
    <2>5. CASE MarkPod /\ answer.pod = p
      <3> DEFINE new == [listed[p] EXCEPT !.active = Wanted]
      <3>1. /\ p \in same /\ pc = "mark"
            /\ pods'[p] = Mutated(new)
            /\ Wanted # listed[p].active
        BY <1>1, <2>5 DEF MarkPod, StorePod, IInv, TypeOK
      <3>2. listed[p] = pods[p] /\ answer.id = pods[p].id /\ pods[p] \in Pod
        BY <1>1, <2>5, <3>1 DEF IInv, CopiesInv, AnswerInv, TypeOK
      <3>3. Wanted = IF answer.ok THEN pods[p].active \/ pods[p].ready ELSE FALSE
        BY <2>5, <3>2 DEF Wanted
      <3>4. Mutated(new).active = Wanted
        BY <3>2 DEF Mutated, Pod
      <3>5. answer.ok \in BOOLEAN /\ pods[p].active \in BOOLEAN
        BY <1>1, <3>2 DEF IInv, TypeOK, Answer, Pod
      <3>6. Wanted = answer.ok /\ (answer.ok => pods[p].ready)
        BY <3>1, <3>2, <3>3, <3>5
      <3>7. QED
        BY <2>5, <3>1, <3>2, <3>4, <3>6
    <2>6. TypeOK
      BY <1>1 DEF IInv
    <2>7. QED
      BY <1>1, <2>1, <2>2, <2>3, <2>4, <2>5, <2>6, OnePodChanges
  <1>2. IInv /\ [Next]_vars => [\A p \in Pods : Justified(p)]_vars
    BY <1>1
  <1>3. QED
    BY <1>2, Inductive, PTL DEF Spec, LabelsFollowProbe
-----------------------------------------------------------------------------
\* Whatever fails, is deleted or restarts, the rounds of a QuarksStatefulSet with
\* probes go on: every return of Reconcile but the one for a QuarksStatefulSet
\* that is gone leaves a timer, and a new process queues what it finds.  For a
\* negative PeriodSeconds nothing is claimed.
THEOREM RoundsAreKept == Spec => []RoundsGoOn
  <1>1. Init => RoundsGoOn
    BY DEF Init, ProcessInit, RoundsGoOn, Running
  <1>2. RoundsGoOn /\ [Next]_vars => RoundsGoOn'
    <2> SUFFICES ASSUME RoundsGoOn, [Next]_vars PROVE RoundsGoOn'
      OBVIOUS
    <2>1. CASE UNCHANGED <<processVars, shown, known, queued, timer, pc>>
      BY <2>1 DEF RoundsGoOn, Running, processVars
    <2>2. CASE Process
      <3>1. CASE Run
        BY <3>1 DEF Run, RoundsGoOn
      <3>2. CASE (Startup \/ Serve) /\ NotYetRunning
        <4>1. Running' => Running
          BY <3>2 DEF Startup, Start, ApplyCRDs, NewManager, SetupCertificate,
               DeleteWebhookConfig, CreateWebhookConfig, AddControllers, Serve, Enter,
               Running
        <4>2. QED
          BY <3>2, <4>1 DEF NotYetRunning, RoundsGoOn, cacheVars, specVars
      <3>3. QED
        BY <2>2, <3>1, <3>2 DEF Process
    <2>3. CASE Crash \/ LoseSecret
      <3>1. CASE Crash
        BY <3>1 DEF Crash, RoundsGoOn
      <3>2. CASE LoseSecret
        BY <3>2 DEF LoseSecret, SecretDeleted, RoundsGoOn, Running, cacheVars, specVars
      <3>3. QED
        BY <2>3, <3>1, <3>2
    <2>4. CASE TimerFires \/ NoProbe \/ MarkFails \/ CallFails
      \* they queue the key, or set the timer
      BY <2>4 DEF TimerFires, NoProbe, MarkFails, CallFails, Retry, RoundsGoOn
    <2>5. CASE NotFound
      BY <2>5 DEF NotFound, Unaffected, RoundsGoOn, specVars
    <2>6. CASE EndRound
      <3>1. PeriodSeconds >= 0 => timer'
        BY <2>6 DEF EndRound
      <3>2. QED
        BY <3>1 DEF RoundsGoOn
    <2>7. CASE \/ ZoneDone \/ MarkInPlace \/ MarkPod
               \/ \E c \in Containers : BeginRound(c)
               \/ \E z \in Zones : ListPods(z)
               \/ \E p \in Pods : Probe(p)
      \* the worker keeps the key
      <3>1. pc' # "idle"
        BY <2>7 DEF ZoneDone, MarkInPlace, MarkPod, BeginRound, ListPods, Probe, NextPod
      <3>2. QED
        BY <3>1 DEF RoundsGoOn
    <2>8. CASE DeliverSpec \/ DeliverDeletion
      BY <2>8 DEF DeliverSpec, DeliverDeletion, RoundsGoOn
    <2>9. CASE Delete
      BY <2>1, <2>9 DEF Delete, cacheVars, specVars
    <2>10. CASE \/ \E p \in Pods : DeliverPod(p)
                \/ Cluster \/ Reconciler
                \/ \E cs \in SUBSET Containers : UpdateQsts(cs)
                \/ \E p \in Pods : \/ PodGoes(p) \/ PodUnready(p) \/ ClientLabels(p)
                                    \/ Hangs(p)
                                    \/ \E c \in Containers : AppSwitches(c, p)
      <3>1. UNCHANGED <<processVars, shown, known, queued, timer, pc>>
        BY <2>10 DEF DeliverPod, Cluster, CreatePod, PodCollected, PodReady,
             StatefulSetCollected, Reconciler, RaiseVersion, UpdateQsts, PodGoes,
             PodUnready, ClientLabels, Hangs, AppSwitches, Aside, cacheVars, specVars
      <3>2. QED
        BY <2>1, <3>1
    <2>11. CASE UNCHANGED vars
      BY <2>1, <2>11 DEF vars, cacheVars, specVars
    <2>12. QED
      BY <2>2, <2>3, <2>4, <2>5, <2>6, <2>7, <2>8, <2>9, <2>10, <2>11
         DEF Next, Round, Informers, Environment
  <1>3. QED
    BY <1>1, <1>2, PTL DEF Spec
-----------------------------------------------------------------------------
\* A deleted QuarksStatefulSet runs out of work once the informer has seen the
\* deletion: the watch has nothing more to deliver, a key that is taken is dropped,
\* a round in hand leaves a timer at most, which queues the key once, and no new
\* process or failing call brings back what is gone.
THEOREM DeletedFadesAway == Spec => DeletedRunsOut
  <1>1. IInv /\ [Next]_vars => [~present /\ ~shown => WorkAhead' <= WorkAhead]_vars
    <2> SUFFICES ASSUME TypeOK, ShownInv, Next, ~present, ~shown
                 PROVE WorkAhead' <= WorkAhead
      BY DEF IInv
    <2>1. ASSUME UNCHANGED <<queued, timer>>, pc' # "idle" => pc # "idle"
          PROVE  WorkAhead' <= WorkAhead
      BY <2>1 DEF WorkAhead
    <2>2. CASE Process
      <3>1. CASE Run
        <4>1. ~queued' /\ UNCHANGED <<timer, pc>>
          BY <3>1 DEF Run
        <4>2. QED
          BY <4>1 DEF WorkAhead
      <3>2. CASE NotYetRunning
        BY <2>1, <3>2 DEF NotYetRunning
      <3>3. QED
        BY <2>2, <3>1, <3>2 DEF Process
    <2>3. CASE TimerFires
      BY <2>3 DEF TimerFires, WorkAhead
    <2>4. CASE NotFound
      BY <2>4 DEF NotFound, WorkAhead
    <2>5. CASE EndRound \/ MarkFails \/ CallFails
      \* the round in hand becomes a timer
      <3>1. pc # "idle" /\ pc' = "idle" /\ queued' = queued
        BY <2>5 DEF EndRound, MarkFails, CallFails, Retry, RoundOver
      <3>2. QED
        BY <3>1 DEF WorkAhead
    <2>6. CASE \/ NoProbe \/ DeliverSpec \/ DeliverDeletion \/ Reconciler
               \/ \E c \in Containers : BeginRound(c)
               \/ \E cs \in SUBSET Containers : UpdateQsts(cs)
      \* not without the QuarksStatefulSet, and the watch is empty
      BY <2>6 DEF NoProbe, DeliverSpec, DeliverDeletion, Reconciler, RaiseVersion,
           BeginRound, UpdateQsts, ShownInv
    <2>7. CASE \/ ZoneDone \/ MarkInPlace \/ MarkPod
               \/ \E z \in Zones : ListPods(z)
               \/ \E p \in Pods : Probe(p)
      <3>1. pc # "idle" /\ UNCHANGED <<queued, timer>>
        BY <2>7 DEF ZoneDone, MarkInPlace, MarkPod, ListPods, Probe
      <3>2. QED
        BY <2>1, <3>1
    <2>8. CASE Crash
      BY <2>8 DEF Crash, RoundOver, WorkAhead
    <2>9. CASE \/ \E p \in Pods : DeliverPod(p)
               \/ Cluster \/ Delete \/ LoseSecret
               \/ \E p \in Pods : \/ PodGoes(p) \/ PodUnready(p) \/ ClientLabels(p)
                                   \/ Hangs(p)
                                   \/ \E c \in Containers : AppSwitches(c, p)
      <3>1. UNCHANGED <<queued, timer, pc>>
        BY <2>9 DEF DeliverPod, Cluster, CreatePod, PodCollected, PodReady,
             StatefulSetCollected, Delete, LoseSecret, PodGoes, PodUnready, ClientLabels, Hangs, AppSwitches, Aside
      <3>2. QED
        BY <2>1, <3>1
    <2>10. QED
      BY <2>2, <2>3, <2>4, <2>5, <2>6, <2>7, <2>8, <2>9
         DEF Next, Round, Informers, Environment
  <1>2. QED
    BY <1>1, Inductive, PTL DEF Spec, DeletedRunsOut
-----------------------------------------------------------------------------
\* KubeConfig() looks at the environment and the cluster, not at --kubeconfig.
\* Where it finds nothing the active/passive controller ends every start after
\* the webhooks were registered, and no pod of a monitored namespace is admitted
\* but between the deletion and the creation of the configuration in a start.
THEOREM NothingAdmittedWithoutProbeConfig ==
  ASSUME ~ProbeConfig
  PROVE  Spec => [](hook # 0 => ~Admits)
  <1> DEFINE Stopped == phase \notin {"ready", "running"} /\ ~serving
  <1>1. Init => Stopped
    BY DEF Init, ProcessInit
  <1>2. Stopped /\ [Next]_vars => Stopped'
    <2> SUFFICES ASSUME Stopped, [Next]_vars PROVE Stopped'
      OBVIOUS
    <2>1. CASE UNCHANGED processVars
      BY <2>1 DEF processVars
    <2>2. CASE Process
      BY <2>2 DEF Process, Startup, Start, ApplyCRDs, NewManager, SetupCertificate,
           DeleteWebhookConfig, CreateWebhookConfig, AddControllers, Run, StartManager,
           Serve, Enter, Running
    <2>3. CASE Crash \/ LoseSecret
      BY <2>3 DEF Crash, LoseSecret, Exit, SecretDeleted
    <2>4. CASE Informers \/ Round \/ Reconciler
      <3>1. ~Running
        BY DEF Running
      <3>2. ~(Informers \/ Round \/ Reconciler)
        BY <3>1 DEF Informers, Round, Reconciler, DeliverSpec, DeliverDeletion, DeliverPod,
             RaiseVersion, TimerFires, NotFound, NoProbe, ZoneDone, EndRound, MarkInPlace, MarkPod,
             MarkFails, BeginRound, ListPods, Probe
      <3>3. QED
        BY <2>4, <3>2
    <2>5. CASE Cluster \/ (Environment /\ ~Crash /\ ~LoseSecret)
      <3>1. UNCHANGED processVars
        BY <2>5 DEF Cluster, Environment, CreatePod, PodGoes, PodCollected, PodReady,
             PodUnready, StatefulSetCollected, ClientLabels, Hangs, AppSwitches,
             UpdateQsts, Delete, CallFails, Aside
      <3>2. QED
        BY <2>1, <3>1
    <2>6. QED
      BY <2>1, <2>2, <2>3, <2>4, <2>5 DEF Next, vars
  <1>3. Stopped => (hook # 0 => ~Admits)
    BY DEF Admits
  <1>4. QED
    BY <1>1, <1>2, <1>3, PTL DEF Spec
=============================================================================
