------------------------- MODULE StatefulSetRollout -------------------------
(***************************************************************************)
(* The canary rollout of one StatefulSet: the mutating webhook that starts *)
(* it, the rollout reconciler that lowers the partition pod by pod, the    *)
(* predicate, work queue and timers that decide when it runs, and, as      *)
(* environment, the API server, the informer caches, the StatefulSet       *)
(* controller and the pods.                                                *)
(*                                                                         *)
(* The reconciler reads a cached copy of the StatefulSet, decides, reads   *)
(* it AGAIN inside CreateOrUpdate and writes its decision over the second  *)
(* copy.  The first read is Decide*, the second read and the update are    *)
(* the single action Write: a version accepted between them makes the      *)
(* update conflict, exactly as if the second read had been stale.          *)
(***************************************************************************)
EXTENDS Integers, FiniteSets

CONSTANTS
  MaxReplicas,      \* bound: the most pods a StatefulSet has
  ReplicaCounts,    \* the values spec.replicas takes
  MaxRevision,      \* bound: how many pod templates are ever applied
  InitialRevisions, \* the template the behaviour begins with
  BadRevisions,     \* templates whose pods never become ready
  UpdateWatch,      \* update-watch-time annotation, in ticks of one minute;
  CanaryWatch,      \*   canary-watch-time: 0 absent, below 0 not a number
  MaxTime,          \* bound: the last tick
  Disturbances,     \* what the environment may do to a rollout ...
  MaxDisturbances,  \* ... and the bound on how often
  LaggingPods,      \* TRUE: pods are read from an informer cache that lags
  Prompt            \* TRUE: the operator drains its queue within a tick

DisturbanceKinds ==
  {"template", "scale", "reapply", "podfails", "apierror", "crash"}

ASSUME ConstantsAssumption ==
  /\ MaxReplicas \in Nat \ {0}
  /\ ReplicaCounts \subseteq 0..MaxReplicas /\ ReplicaCounts # {}
  /\ MaxRevision \in Nat \ {0}
  /\ InitialRevisions \subseteq 1..MaxRevision
  /\ BadRevisions \subseteq 1..MaxRevision
  /\ UpdateWatch \in Int /\ CanaryWatch \in Int
  /\ MaxTime \in Nat
  /\ Disturbances \subseteq DisturbanceKinds
  /\ MaxDisturbances \in Nat
  /\ LaggingPods \in BOOLEAN /\ Prompt \in BOOLEAN

VARIABLES
  sts,      \* the StatefulSet at the API server
  cache,    \* the informer's copy of it
  stale,    \* the server has accepted a version the informer has not seen
  event,    \* ... and one of those updates passes CheckUpdate
  pods,     \* the pods at the API server, by ordinal
  podCache, \* the informer's copy of them
  unsynced, \* the StatefulSet controller has acted and not yet written status
  queued,   \* the key is in the rollout controller's work queue
  timer,    \* when the delaying queue adds the key (one entry: the earliest)
  now,      \* wall clock, in ticks
  pc,       \* where the reconcile worker is
  dec,      \* what the worker decided, with the version it decided on
  left,     \* disturbances still allowed
  first,    \* history: the partition the webhook gave this rollout
  passed,   \* history: ordinals the reconciler moved past in this rollout
  taint     \* history: why this rollout's walk is not a plain canary walk

clusterVars == <<sts, stale, event>>
cacheVars   == <<cache, podCache>>
podVars     == <<pods, unsynced>>
workerVars  == <<pc, dec>>
historyVars == <<first, passed, taint>>
vars == <<sts, cache, stale, event, pods, podCache, unsynced, queued, timer, now,
          pc, dec, left, first, passed, taint>>

Ordinals  == 0..(MaxReplicas - 1)
Revisions == 1..MaxRevision
States    == {"none", "Pending", "Canary", "Rollout", "Done", "Failed",
              "CanaryUpscale"}
Taints    == {"overtaken", "lagging", "upscale", "reapply"}
NoTimer   == -1
NoStart   == -1
NoPod     == [rev |-> 0, ready |-> FALSE]
Pod       == [rev : 0..MaxRevision, ready : BOOLEAN]

StatefulSet ==
  [replicas : 0..MaxReplicas, partition : 0..MaxReplicas, state : States,
   rev : Revisions, start : -1..MaxTime,
   statusReplicas : Nat, readyReplicas : Nat, updatedReplicas : Nat,
   updateRevision : 0..MaxRevision, currentRevision : Revisions]

\* The part of the version read first that the decision depends on.
Basis(s) == [rev |-> s.rev, partition |-> s.partition, state |-> s.state,
             updateRevision |-> s.updateRevision]
Bases == [rev : Revisions, partition : 0..MaxReplicas, state : States,
          updateRevision : 0..MaxRevision]

NoDecision == [base |-> [rev |-> 1, partition |-> 0, state |-> "none",
                         updateRevision |-> 0],
               partition |-> 0, state |-> "none", after |-> 0, requeue |-> FALSE]

-----------------------------------------------------------------------------
(* API server and caches *)

\* Mutant of CheckUpdate: a pod that becomes ready passes unnoticed.
CheckUpdateIgnoringReady(old, new) ==
  /\ new.state \notin {"none", "Done", "Failed"}
  /\ \/ new.state = "Pending"
     \/ old.updatedReplicas # new.updatedReplicas
     \/ old.statusReplicas # new.statusReplicas

\* The predicate of an update event: a rollout just started, or a change of
\* the counters in a rollout that has not ended.
CheckUpdate(old, new) ==
  /\ new.state \notin {"none", "Done", "Failed"}
  /\ \/ new.state = "Pending"
     \/ old.readyReplicas # new.readyReplicas
     \/ old.updatedReplicas # new.updatedReplicas
     \/ old.statusReplicas # new.statusReplicas

\* The server holds version s; the informer will see it.
Store(s) ==
  /\ sts' = s
  /\ stale' = TRUE
  /\ event' = (event \/ CheckUpdate(sts, s))

Disturb(kind) == kind \in Disturbances /\ left > 0 /\ left' = left - 1

\* Delivery of every pending watch event: the cache catches up and the key is
\* queued if one of them passed the predicate.
DeliverStatefulSet ==
  /\ stale
  /\ cache' = sts
  /\ stale' = FALSE /\ event' = FALSE
  /\ queued' = (queued \/ event)
  /\ UNCHANGED <<sts, podVars, podCache, timer, now, workerVars, left, historyVars>>

DeliverPods ==
  /\ LaggingPods /\ podCache # pods
  /\ podCache' = pods
  /\ UNCHANGED <<clusterVars, cache, podVars, queued, timer, now, workerVars,
                 left, historyVars>>

-----------------------------------------------------------------------------
(* Clients of the API server and the mutating webhook *)

\* ConfigureStatefulSetForRollout
ConfigureForRollout(s) ==
  [s EXCEPT !.partition = IF s.replicas < s.statusReplicas
                            THEN s.replicas ELSE s.statusReplicas,
            !.state = "Pending",
            !.start = now]

\* A client applies a new pod template (and maybe a new size): the webhook
\* sees that the template differs and starts a rollout.  Rollouts start early
\* enough for their watch time to pass before the clock stops.
UpdateTemplate(r) ==
  /\ Disturb("template")
  /\ sts.rev < MaxRevision
  /\ now + UpdateWatch <= MaxTime
  /\ Store(ConfigureForRollout([sts EXCEPT !.replicas = r, !.rev = sts.rev + 1]))
  /\ first' = sts'.partition
  /\ passed' = {} /\ taint' = {}
  /\ UNCHANGED <<cacheVars, podVars, queued, timer, now, workerVars>>

\* A client changes only the size: the webhook leaves the object alone.
Scale(r) ==
  /\ Disturb("scale")
  /\ r # sts.replicas
  /\ Store([sts EXCEPT !.replicas = r])
  /\ UNCHANGED <<cacheVars, podVars, queued, timer, now, workerVars, historyVars>>

\* The QuarksStatefulSet reconciler re-applies an unchanged template: its
\* mutate function replaces the annotations and the update strategy by those
\* of the QuarksStatefulSet, and the webhook finds the template unchanged.
Reapply ==
  /\ Disturb("reapply")
  /\ sts.state # "none"
  /\ Store([sts EXCEPT !.partition = 0, !.state = "none", !.start = NoStart])
  /\ taint' = taint \cup {"reapply"}
  /\ UNCHANGED <<cacheVars, podVars, queued, timer, now, workerVars, first, passed>>

-----------------------------------------------------------------------------
(* The StatefulSet controller and the pods (OrderedReady) *)

Exists(i)  == pods[i].rev # 0
Healthy(i) == Exists(i) /\ pods[i].ready

SetPod(i, pod) ==
  /\ pods' = [pods EXCEPT ![i] = pod]
  /\ UNCHANGED <<clusterVars, cacheVars, queued, timer, now, workerVars,
                 historyVars>>

\* A sync of the controller acts on one pod and ends by writing the status.
Sync(i, pod) ==
  /\ ~unsynced /\ unsynced' = TRUE
  /\ SetPod(i, pod)
  /\ UNCHANGED left

\* The lowest missing pod, once all below it are healthy; pods below the
\* partition get the current revision, the others the update revision.
CreatePod(i) ==
  /\ i < sts.replicas /\ ~Exists(i)
  /\ \A j \in 0..(i - 1) : Healthy(j)
  /\ Sync(i, [rev |-> IF i < sts.partition THEN sts.currentRevision
                                           ELSE sts.rev,
              ready |-> FALSE])

\* Scale-down, highest ordinal first.
CondemnPod(i) ==
  /\ i >= sts.replicas /\ Exists(i)
  /\ \A j \in Ordinals : j > i => ~Exists(j)
  /\ Sync(i, NoPod)

\* Rolling update: with every pod healthy, delete the highest outdated one
\* that the partition exposes.
RollPod(i) ==
  /\ sts.partition <= i /\ i < sts.replicas
  /\ \A j \in 0..(sts.replicas - 1) : Healthy(j)
  /\ pods[i].rev # sts.rev
  /\ \A j \in Ordinals : i < j /\ j < sts.replicas => pods[j].rev = sts.rev
  /\ Sync(i, NoPod)

PodBecomesReady(i) ==
  /\ Exists(i) /\ ~pods[i].ready /\ pods[i].rev \notin BadRevisions
  /\ SetPod(i, [pods[i] EXCEPT !.ready = TRUE])
  /\ UNCHANGED <<left, unsynced>>

PodFails(i) ==
  /\ Disturb("podfails")
  /\ Healthy(i)
  /\ SetPod(i, [pods[i] EXCEPT !.ready = FALSE])
  /\ UNCHANGED unsynced

\* What the controller writes to the status; an update is complete, and the
\* update revision becomes the current one, when every pod has it.
Status(s) ==
  LET existing == {i \in Ordinals : Exists(i)}
      ready    == {i \in Ordinals : Healthy(i)}
      updated  == {i \in Ordinals : pods[i].rev = s.rev}
  IN [s EXCEPT !.statusReplicas = Cardinality(existing),
               !.readyReplicas = Cardinality(ready),
               !.updatedReplicas = Cardinality(updated),
               !.updateRevision = s.rev,
               !.currentRevision = IF updated = existing /\ ready = existing
                                     THEN s.rev ELSE s.currentRevision]

PublishStatus ==
  /\ unsynced \/ sts # Status(sts)
  /\ unsynced' = FALSE
  /\ IF sts # Status(sts) THEN Store(Status(sts)) ELSE UNCHANGED clusterVars
  /\ UNCHANGED <<cacheVars, pods, queued, timer, now, workerVars, left,
                 historyVars>>

-----------------------------------------------------------------------------
(* Time, the work queue and the worker *)

\* time.Until the end of the watch time: 0 means no watch time, and an expired
\* or unreadable one is negative.
TimeLeft(s, watch) ==
  IF watch = 0 THEN 0
  ELSE IF \/ watch < 0
          \/ s.start = NoStart
          \/ s.start + watch <= now
       THEN -1 ELSE s.start + watch - now

Earliest(t) == IF timer = NoTimer \/ t < timer THEN t ELSE timer

Idle == pc' = "idle" /\ dec' = NoDecision

\* What the controller does with reconcile.Result; RequeueAfter wins over
\* Requeue, and neither cancels a timer already set.
Finish(after, requeue) ==
  /\ Idle
  /\ timer' = IF after > 0 THEN Earliest(now + after)
              ELSE IF requeue THEN Earliest(now) ELSE timer

\* Reconcile returned an error: the key comes back after a back-off.
Retry(backoff) == Idle /\ timer' = Earliest(now + backoff)

Busy == queued \/ pc # "idle" \/ stale \/ (timer # NoTimer /\ timer <= now)

Tick ==
  /\ now < MaxTime
  /\ Prompt => ~Busy
  /\ now' = now + 1
  /\ UNCHANGED <<clusterVars, cacheVars, podVars, queued, timer, workerVars, left,
                 historyVars>>

TimerFires ==
  /\ timer # NoTimer /\ timer <= now
  /\ timer' = NoTimer
  /\ queued' = TRUE
  /\ UNCHANGED <<clusterVars, cacheVars, podVars, now, workerVars, left, historyVars>>

\* The informer's periodic resync, an update event whose old and new object are
\* the cached one; its period is longer than any timer of the operator.
Resync ==
  /\ ~Busy /\ timer = NoTimer
  /\ CheckUpdate(cache, cache)
  /\ queued' = TRUE
  /\ UNCHANGED <<clusterVars, cacheVars, podVars, timer, now, workerVars, left,
                 historyVars>>

\* The operator process dies and comes back: the queue, the timers and the
\* reconcile in flight are gone, the new informer lists the current objects and
\* reports them as created, which the controller's predicate drops.
Crash ==
  /\ Disturb("crash")
  /\ Idle
  /\ queued' = FALSE /\ timer' = NoTimer
  /\ stale' = FALSE /\ event' = FALSE
  /\ cache' = sts /\ podCache' = IF LaggingPods THEN pods ELSE podCache
  /\ UNCHANGED <<sts, podVars, now, historyVars>>

-----------------------------------------------------------------------------
(* ReconcileStatefulSetRollout.Reconcile, up to the decision *)

PodView == IF LaggingPods THEN podCache ELSE pods
PodAt(view, i) == IF i \in Ordinals THEN view[i] ELSE NoPod

\* Mutants of PartitionPodIsReadyAndUpdated: one of its two checks is lost.
PartitionPodIsReady ==
  LET pod == PodAt(PodView, cache.partition) IN pod.rev # 0 /\ pod.ready
PartitionPodIsUpdated ==
  LET pod == PodAt(PodView, cache.partition)
  IN pod.rev # 0 /\ pod.rev = cache.updateRevision

\* partitionPodIsReadyAndUpdated: compares the pod with the status's revision.
PartitionPodIsReadyAndUpdated ==
  LET pod == PodAt(PodView, cache.partition)
  IN pod.rev # 0 /\ pod.ready /\ pod.rev = cache.updateRevision

UpdateExpired == TimeLeft(cache, UpdateWatch) < 0
CanaryExpired == TimeLeft(cache, CanaryWatch) < 0

Unaffected == UNCHANGED <<clusterVars, cacheVars, podVars, now, left, historyVars>>

\* The worker takes the key and reads the cached StatefulSet.
Take(states) ==
  /\ pc = "idle" /\ queued
  /\ queued' = FALSE
  /\ cache.state \in states
  /\ Unaffected

\* The same, past the check that ends a reconcile whose update watch expired.
TakeLive(states) == Take(states) /\ ~UpdateExpired

Return(after) == Finish(after, FALSE)

Update(partition, state, after, requeue) ==
  /\ pc' = "write"
  /\ dec' = [base |-> Basis(cache), partition |-> partition, state |-> state,
             after |-> after, requeue |-> requeue]
  /\ UNCHANGED timer

Terminal == Take({"Failed", "Done"}) /\ Return(0)

\* Mutant of UpdateTimesOut: the timeout is looked at before the state.
UpdateTimesOutFirst ==
  /\ Take(States)
  /\ UpdateExpired
  /\ Update(cache.partition, "Failed", 0, FALSE)

\* Mutant of UpdateTimesOut: a failed canary is put back behind the partition.
UpdateTimesOutRollsBack ==
  /\ Take(States \ {"Failed", "Done"})
  /\ UpdateExpired
  /\ Update(IF cache.partition < MaxReplicas THEN cache.partition + 1
                                            ELSE cache.partition,
            "Failed", 0, FALSE)

\* failIfTimedOut
UpdateTimesOut ==
  /\ Take(States \ {"Failed", "Done"})
  /\ UpdateExpired
  /\ Update(cache.partition, "Failed", 0, FALSE)

Uncontrolled == TakeLive({"none"}) /\ Return(TimeLeft(cache, UpdateWatch))

UpscaleComplete == /\ cache.statusReplicas = cache.replicas
                   /\ cache.readyReplicas = cache.replicas

UpscaleWaits == /\ TakeLive({"CanaryUpscale"}) /\ ~UpscaleComplete
                /\ Return(TimeLeft(cache, UpdateWatch))

UpscaleDone ==
  /\ TakeLive({"CanaryUpscale"}) /\ UpscaleComplete
  /\ cache.partition = 0
  /\ Update(0, "Done", TimeLeft(cache, UpdateWatch), FALSE)

UpscaleMoves ==
  /\ TakeLive({"CanaryUpscale"}) /\ UpscaleComplete
  /\ cache.partition # 0
  /\ Update(cache.partition - 1, "Rollout", TimeLeft(cache, UpdateWatch), FALSE)

CanaryFails ==
  /\ TakeLive({"Canary"}) /\ CanaryExpired
  /\ Update(cache.partition, "Failed", TimeLeft(cache, UpdateWatch), FALSE)

\* A canary in time falls through to the rollout.
TakeRollout == /\ TakeLive({"Canary", "Rollout"})
               /\ cache.state = "Canary" => ~CanaryExpired

\* A rollout under a watch time polls at least every minute (one tick).
PollInterval == LET l == TimeLeft(cache, UpdateWatch)
                IN IF l > 1 THEN 1 ELSE l

\* Mutant of RolloutWaits: nothing polls for the end of the watch time.
RolloutForgets == TakeRollout /\ ~PartitionPodIsReadyAndUpdated /\ Return(0)

RolloutWaits == /\ TakeRollout /\ ~PartitionPodIsReadyAndUpdated
                /\ Return(PollInterval)

\* Mutant of RolloutDone: partition 0 is taken for the end of the rollout.
RolloutDoneAtZero ==
  /\ TakeRollout
  /\ cache.partition = 0
  /\ Update(0, "Done", PollInterval, FALSE)

RolloutDone ==
  /\ TakeRollout /\ PartitionPodIsReadyAndUpdated
  /\ cache.partition = 0
  /\ Update(0, "Done", PollInterval, FALSE)

\* Mutant of RolloutMoves: Done as soon as the last partition is removed.
RolloutMovesAndEnds ==
  /\ TakeRollout /\ PartitionPodIsReadyAndUpdated
  /\ cache.partition # 0
  /\ Update(cache.partition - 1, IF cache.partition = 1 THEN "Done" ELSE "Rollout",
            PollInterval, TRUE)

RolloutMoves ==
  /\ TakeRollout /\ PartitionPodIsReadyAndUpdated
  /\ cache.partition # 0
  /\ Update(cache.partition - 1, "Rollout", PollInterval, TRUE)

PendingUpscales ==
  /\ TakeLive({"Pending"}) /\ cache.statusReplicas < cache.replicas
  /\ Update(IF cache.partition > 0 THEN cache.partition - 1 ELSE 0,
            "CanaryUpscale", TimeLeft(cache, UpdateWatch), FALSE)

\* Mutant of PendingCanary: the canary opens two ordinals at once.
PendingTwoCanaries ==
  /\ TakeLive({"Pending"}) /\ cache.statusReplicas >= cache.replicas
  /\ Update(cache.partition - 2, "Canary", TimeLeft(cache, CanaryWatch), FALSE)

PendingCanary ==
  /\ TakeLive({"Pending"}) /\ cache.statusReplicas >= cache.replicas
  /\ Update(cache.partition - 1, "Canary", TimeLeft(cache, CanaryWatch), FALSE)

Decide ==
  \/ Terminal \/ UpdateTimesOut \/ Uncontrolled
  \/ UpscaleWaits \/ UpscaleDone \/ UpscaleMoves
  \/ CanaryFails
  \/ RolloutWaits \/ RolloutDone \/ RolloutMoves
  \/ PendingUpscales \/ PendingCanary

-----------------------------------------------------------------------------
(* updateStatefulSet: second read, update *)

\* CreateOrUpdate writes nothing when the object read has the decided values.
InPlace == cache.partition = dec.partition /\ cache.state = dec.state

Moved == dec.base.partition # dec.partition

\* The caller goes on: clean up behind a moved partition, or return.
Continue ==
  IF Moved THEN pc' = "cleanup" /\ UNCHANGED <<dec, timer>>
           ELSE Finish(dec.after, dec.requeue)

\* History: a decision taken on another version than the one it replaces, or
\* on a status that does not know the template yet, or that is not a canary's.
Overtaken == \/ dec.base.rev # sts.rev
             \/ dec.base.partition # sts.partition
             \/ dec.base.state # sts.state
MovesPast == /\ dec.base.state \in {"Canary", "Rollout"}
             /\ dec.state \in {"Rollout", "Done"}
RecordWrite ==
  /\ taint' = taint
       \cup (IF Overtaken THEN {"overtaken"} ELSE {})
       \cup (IF MovesPast /\ dec.base.updateRevision # dec.base.rev
               THEN {"lagging"} ELSE {})
       \cup (IF Moved /\ "CanaryUpscale" \in {dec.state, dec.base.state}
               THEN {"upscale"} ELSE {})
  /\ passed' = IF /\ MovesPast /\ ~Overtaken
                   /\ dec.base.updateRevision = dec.base.rev
                 THEN passed \cup {dec.base.partition} ELSE passed
  /\ UNCHANGED first

WriteInPlace ==
  /\ pc = "write" /\ InPlace
  /\ Continue
  /\ UNCHANGED <<clusterVars, cacheVars, podVars, queued, now, left, historyVars>>

WriteConflict ==
  /\ pc = "write" /\ ~InPlace /\ stale
  /\ Retry(0)
  /\ UNCHANGED <<clusterVars, cacheVars, podVars, queued, now, left, historyVars>>

\* The API server rejects a negative partition, every time it is retried; the
\* back-off soon exceeds a tick, while the clock runs.
WriteRejected ==
  /\ pc = "write" /\ ~InPlace /\ ~stale /\ dec.partition < 0
  /\ Retry(IF now < MaxTime THEN 1 ELSE 0)
  /\ UNCHANGED <<clusterVars, cacheVars, podVars, queued, now, left, historyVars>>

WriteAccepted ==
  /\ pc = "write" /\ ~InPlace /\ ~stale /\ dec.partition >= 0
  /\ Store([cache EXCEPT !.partition = dec.partition, !.state = dec.state])
  /\ RecordWrite
  /\ Continue
  /\ UNCHANGED <<cacheVars, podVars, queued, now, left>>

Write == WriteInPlace \/ WriteConflict \/ WriteRejected \/ WriteAccepted

\* CleanupNonReadyPod deletes by name the pod that its cache shows unready; it
\* fails if that pod is already gone.
Cleanup ==
  /\ pc = "cleanup"
  /\ LET seen == PodAt(PodView, dec.partition)
     IN IF seen.rev = 0 \/ seen.ready
          THEN Finish(dec.after, dec.requeue) /\ UNCHANGED pods
          ELSE IF Exists(dec.partition)
          THEN /\ Finish(dec.after, dec.requeue)
               /\ pods' = [pods EXCEPT ![dec.partition] = NoPod]
          ELSE Retry(0) /\ UNCHANGED pods
  /\ UNCHANGED <<unsynced, clusterVars, cacheVars, queued, now, left, historyVars>>

\* Any API call of the worker may fail.
APIError ==
  /\ Disturb("apierror")
  /\ pc # "idle"
  /\ Retry(0)
  /\ UNCHANGED <<clusterVars, cacheVars, podVars, queued, now, historyVars>>

-----------------------------------------------------------------------------
(* A StatefulSet as the create webhook leaves it, with no pods yet. *)
Init ==
  /\ \E rev \in InitialRevisions :
       sts \in [replicas : ReplicaCounts, partition : {0},
               state : {"CanaryUpscale"}, rev : {rev}, start : {0},
               statusReplicas : {0}, readyReplicas : {0}, updatedReplicas : {0},
               updateRevision : {0}, currentRevision : {rev}]
  /\ cache = sts /\ stale = FALSE /\ event = FALSE
  /\ pods = [i \in Ordinals |-> NoPod] /\ podCache = pods
  /\ unsynced = FALSE
  /\ queued = FALSE /\ timer = NoTimer /\ now = 0
  /\ pc = "idle" /\ dec = NoDecision
  /\ left = MaxDisturbances
  /\ first = 0 /\ passed = {} /\ taint = {}

Worker    == TimerFires \/ Decide \/ Write \/ Cleanup
Informers == DeliverStatefulSet \/ DeliverPods
Kubelet   == \E i \in Ordinals : PodBecomesReady(i)
Controller ==
  \/ PublishStatus
  \/ \E i \in Ordinals : CreatePod(i) \/ CondemnPod(i) \/ RollPod(i)
Environment ==
  \/ \E r \in ReplicaCounts : UpdateTemplate(r) \/ Scale(r)
  \/ Reapply
  \/ \E i \in Ordinals : PodFails(i)
  \/ APIError
  \/ Crash

Next == Worker \/ Informers \/ Resync \/ Kubelet \/ Controller \/ Tick
        \/ Environment

Spec == Init /\ [][Next]_vars

\* The worker, the informers, the StatefulSet controller, the kubelet and the
\* clock keep running; clients and failures owe nothing.
Fairness ==
  /\ WF_vars(Worker) /\ WF_vars(DeliverStatefulSet) /\ WF_vars(DeliverPods)
  /\ WF_vars(Resync) /\ WF_vars(Kubelet) /\ WF_vars(Controller)
  /\ WF_vars(Tick)

LiveSpec == Spec /\ Fairness

=============================================================================
