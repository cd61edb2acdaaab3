# Quarks StatefulSet: TLA+ verification

Quarks StatefulSet is a Kubernetes operator. A *QuarksStatefulSet* describes an
application in one or several zones; the operator renders it into StatefulSets,
and rolls each new pod template out with a *canary*: the partition of the
StatefulSet is lowered by one, the pod that this exposes is watched, and only
when it is ready and updated does the partition go on down to zero.

This directory holds TLA+ models of that code, TLC configurations that check
them on small instances, and proofs, checked by TLAPS, that the safety
properties hold for every number of replicas, templates, zones, specs, pods and
goroutines.

| file | what it is |
|---|---|
| `StatefulSetRollout.tla` | the rollout of one StatefulSet: webhook, reconciler, controller, environment |
| `StatefulSetRolloutProperties.tla` | its properties, the inductive invariant and the mapping to the abstract walk |
| `CanaryWalk.tla` | what a rollout promises, without caches, queues and timers |
| `QuarksStatefulSet.tla` | from a QuarksStatefulSet to its StatefulSets: reconciler, predicates, status reconciler |
| `QuarksStatefulSetProperties.tla` | its properties and the inductive invariant |
| `ZoneChain.tla` | what the zones of a QuarksStatefulSet promise, without caches, queues and conflicts |
| `ZoneRendering.tla` | what one zone becomes: names, labels, selector, affinity, environment |
| `OperatorProcess.tla` | the process: start-up, certificate, webhook configuration, restart |
| `ActivePassive.tla` | probe rounds and pod mutator, running in that process |
| `ActivePassiveProperties.tla` | the properties of the two and the inductive invariant |
| `FakeCalls.tla`, `FakeCallsProperties.tla` | the generated fakes under several goroutines |
| `MC*.tla`, `*.cfg` | the instances for TLC |
| `*Proofs.tla`, `StatefulSetRolloutRefinement.tla` | the theorems |
| `PROJECT.json` | which definition models which lines, the runs, mutants, hazards, findings |

## 1. Inventory

All paths are under `src/pkg/kube`.

| component | state it keeps | operations |
|---|---|---|
| **rollout webhook** `controllers/statefulset/statefulset_webhook.go`, `statefulset_rollout_util.go` | none; writes annotations (`canary-rollout`, `update-start-time`) and `updateStrategy.partition` into the object it admits | on create: state CanaryUpscale, partition 0; on update with another pod template: state Pending, partition = min(wanted, counted replicas); otherwise nothing |
| **rollout reconciler** `statefulset_rollout_reconciler.go` | none of its own: the rollout state lives in the annotations and partition of the StatefulSet | one `Reconcile` that advances the state machine Pending → Canary → Rollout → Done (or CanaryUpscale → Rollout/Done), or to Failed when a watch time is over |
| **rollout controller** `statefulset_rollout_controller.go` | controller-runtime work queue and delaying queue, in memory | `CheckUpdate` predicate on update events; create, delete and generic events dropped |
| **cleanup** `CleanupNonReadyPod` | none | deletes the unready pod the moved partition exposes |
| **QuarksStatefulSet reconciler** `controllers/quarksstatefulset/quarksstatefulset_reconciler.go`, `util.go`, `util/mutate` | `status.lastReconcile`; versions counted in labels of the StatefulSets | read, 10-second merge window, next version, one StatefulSet per zone, affinity and environment, create or update |
| **QuarksStatefulSet controller** `quarksstatefulset_controller.go`, `util/reference/reconciles.go` | work queue | watches QuarksStatefulSets, and the ConfigMaps and Secrets they reference |
| **status reconciler** `status_reconciler.go` | `status.ready` | Ready when every replica is updated and ready |
| **active/passive reconciler** `active_passive_reconciler.go` | the label `quarks.cloudfoundry.org/pod-active` on pods | runs a probe in every pod periodically, labels the active ones |
| **pod mutator** `controllers/quarksstatefulset/pod_mutator.go`, `pod_webhook.go` | none | adds the pod-ordinal label to every pod that is created or updated |
| **operator process** `src/cmd/internal/root.go`, `operator/operator.go`, `controllers/controllers.go` | the certificate of its webhook server; leaves a secret and a webhook configuration (failure policy Fail) in the cluster | applies CRDs, sets up the certificate, registers the webhooks, adds the controllers, serves |
| **generated fakes** `controllers/fakes` | arguments, answers and invocations of every method, each under a mutex | a call, Calls, Returns, ReturnsOnCall, Invocations |
| API types, generated client, test suites | - | - |

How they meet: the QuarksStatefulSet reconciler writes StatefulSets through the
rollout webhook; the webhook's annotations start the rollout reconciler, through
a watch event that `CheckUpdate` lets pass; the rollout reconciler writes the
partition; the StatefulSet controller of Kubernetes reacts to the partition by
deleting and creating pods; the pods' readiness comes back as counters in the
StatefulSet's status, whose change is the next event. Nothing is called
directly: every hand-over goes through the API server and an informer cache
that may be old.

What is hard in it:

* **two reads in one reconcile.** `Reconcile` decides on a cached read;
  `CreateOrUpdate` reads again and writes the decision over the second version.
* **two caches.** StatefulSets and pods come from separate informers.
* **a status that lags.** `updateRevision` and the counters are written by
  another controller, some time after the template.
* **wake-ups.** The reconciler polls only if a watch time is configured. Without
  one, progress depends on a change of three counters between consecutive
  versions, and a change that does not show there wakes nobody.
* **timers in memory.** A restart loses them, and `CreateFunc` drops the initial
  list that would bring the key back.
* **pods that come and go** between the check of one ordinal and the next.
* **admission depends on the process.** The webhooks are registered before the
  server listens and survive it: while the process is down nothing is created,
  and it comes back with another certificate if the secret was lost. A start deletes
  the configuration it finds and creates its own: in between pods are admitted unseen.
* **a deleted object that is still shown.** The probe rounds read the QuarksStatefulSet
  from an informer, which learns of its updates and of its deletion some time later.
* **a probe is not the pod it answers for.** A round lists pods from an informer,
  runs a command in whatever pod has the name now, and updates the listed version.
* **locks in two orders.** A call of a fake takes its method's mutex, then that of
  the invocations; `Invocations` takes them the other way round.
* **other writers**: clients that apply a template or a size, and the owning
  QuarksStatefulSet, whose mutate function replaces annotations and strategy.

`PROJECT.json` lists each of these hazards at its line, with the properties that
would catch it going wrong.

What would make each component correct: the rollout never lowers the partition
beyond a canary that has not been updated, passes every ordinal in order, leaves
nothing outdated behind, ends (when a watch time is set, always; when the template
is good, Done) and stays ended. The QuarksStatefulSet reconciler should create
each version once per zone, never reuse a version, and react to the last change of
what it reads. The status should be Ready only for the current template. An
active label should belong to a pod whose last probe succeeded; every pod that a
webhook is registered for should carry its ordinal; and the operator should find its way back to admitting pods
after any restart. A test that shares a fake should read what was called.

## 2. Plan

1. *(done)* `StatefulSetRollout`: the operator's core behaviour, with its
   environment, safety, liveness and proofs.
2. *(done)* `QuarksStatefulSet`: `Reconcile` with the merge window, versions and zones, the
   predicates of its controller, informer lag, restart, the status reconciler, and proofs of the
   order of versions and zones.
3. *(done)* `CanaryWalk`: an abstract specification of a rollout (a partition walking down
   a row of pods, opened by the canary), which `StatefulSetRollout` implements
   as long as `taint` is empty; the refinement checked and proved.
4. *(done)* `OperatorProcess` and `ActivePassive`: start-up, webhooks, pod mutator and
   probe rounds in one composition.
5. *(done)* `ZoneRendering`: the rendering of a zone as operators, with lemmas for all inputs.
6. *(done)* `FakeCalls`: the fakes behind the unit tests.
7. *(done)* `ZoneChain`: an abstract specification of a QuarksStatefulSet's zones (what clients
   offer enters at the first zone and moves down the row), which `QuarksStatefulSet` implements
   in every history; the refinement checked and proved.
8. *(done)* Every safety property of the runs as a theorem, except for
   `OnlyMutexesBlock`, which is about ENABLED; and, for the liveness properties of the three
   controllers, the part that is safety: that no wake-up is lost (`WatchIsKept`,
   `NothingForgotten`, `CreationIsKept`, `ReportIsDue`, `RoundsGoOn`) and that what is deleted,
   and seen to be, gains no more work (`DeletedRunsOut`).
9. Left to model: a composition of 1 and 2 (the owner's reconcile under a rollout in
   progress, in place of the action `Reapply`); deletion during a rollout; several operators.

## 3. StatefulSetRollout

### State

`sts` is the StatefulSet at the API server: wanted replicas, partition, the
`canary-rollout` annotation (`state`), the number of its pod template (`rev`),
the update start time, and the status fields the code reads. `cache` is the informer's copy.
`stale` and `event` summarise the watch stream between the two: versions the
informer has not seen, and whether the difference of some consecutive pair of
them passes `CheckUpdate`. `pods` are the pods by ordinal (`rev` 0: no pod) and
`podCache` the informer's copy, used when `LaggingPods` is TRUE. `queued`, `timer`
are the work queue and the delaying queue for the one key: both deduplicate,
the second keeps the earliest deadline. `pc` and `dec` are the worker inside
`Reconcile`: idle, before the write with a decision, before the cleanup.

`left` bounds the environment. `first`, `passed` and `taint` are history
variables that no guard reads: where the webhook started the walk, which
ordinals the reconciler has checked and moved past, and which hazards this
rollout has met.

### Actions and code

* `Terminal` … `PendingCanary` are the branches of `Reconcile` up to its
  decision, in the order of the code's conditions; each is guarded by the negation of those
  before it (`TakeLive`: the update watch is not over; `TakeRollout`: nor is the canary's).
  The cached StatefulSet is read once here.
* `WriteInPlace`, `WriteConflict`, `WriteRejected`, `WriteAccepted` are
  `updateStatefulSet`: the second read, no write when it already has the wanted values, the
  conflict when the cache is old, the API server's refusal of a negative partition, and the update. `Continue`
  is the rest of `updateWithPartitionMove`. That a write between second read
  and update makes the update fail is the same as the second read being stale,
  so these two are one step.
* `Cleanup` is `CleanupNonReadyPod`; `APIError` is any failing call of the worker.
* `Finish` and `Retry` are what controller-runtime does with the result: RequeueAfter
  wins over Requeue, an error re-adds the key with back-off.
* `UpdateTemplate`, `Scale`, `Reapply` are clients' updates as the webhook
  leaves them; `Reapply` is the owner's `StatefulSetMutateFn`, which puts back
  its own annotations and strategy.
* `DeliverStatefulSet`, `DeliverPods`, `Resync`, `TimerFires`, `Tick` and `Crash` are the informers,
  clock and process; `CreatePod`, `CondemnPod`, `RollPod`, `PublishStatus`,
  `PodBecomesReady`, `PodFails` the StatefulSet controller (OrderedReady) and the
  kubelet, modelled from how the code uses them and marked external in the map.

Initially the create webhook has just admitted the StatefulSet, in state
CanaryUpscale with partition 0, and no pod exists.

A status write covers only what the rollout reads, and updates are complete when every existing
pod is ready and updated, at which point the update revision becomes the current
one. Times are in ticks of one minute, the reconciler's polling interval.

### Hazards the safety properties are relative to

The code does not keep the canary's promise in every history. Rather than leaving out
of the model the steps that break it, the model records them in `taint` and the properties
say which are harmless:

| taint | step |
|---|---|
| `overtaken` | a decision written over a version it was not taken on |
| `lagging` | a pod judged by a status that does not know the template yet |
| `upscale` | CanaryUpscale lowers the partition on replica counts alone |
| `reapply` | the owner's mutate function wipes annotations and partition |

A new template starts a new rollout and clears it. `CanaryIsolation` needs only
the absence of `overtaken`, the others the absence of all four;
`EndedStaysEnded` and `OneStepDown` name the exceptions in their statement.

### Runs

| run | expected | properties | what it shows |
|---|---|---|---|
| `rollout_canary` | pass | `IInv`, `WalkInOrder`, `PassedPodsUpdated`, `CanaryGateHolds`, `DoneMeansUpdated`, `CanaryContainsBadTemplate`, `OneStepDown`, `ImplementsCanaryWalk` | Safety of the walk without watch times: three templates of which one never becomes ready, new sizes, failing pods, API errors, restarts and the owner's reconcile. The order of the walk, the canary gate, no pod left behind, containment, one ordinal per step, and the refinement of the abstract walk. |
| `rollout_completes` | pass | `GoodTemplateRollsOut` | Without watch times, a good template reaches every pod and ends Done, at every size from one to three and also when the StatefulSet was created with a template that never becomes ready. |
| `rollout_ends` | pass | `IInv`, `CanaryIsolation`, `WatchIsKept`, `EndedStaysEnded`, `WatchedUpdateEnds` | With both watch times set, every rollout ends, Done or Failed, although its template never becomes ready, the pod cache lags behind the events and API calls fail: a pending rollout, or one past its canary, always has something ahead that wakes the reconciler. Once ended it stays ended, and a failed one leaves the pods behind the partition alone. |
| `gate_overtaken` | violation | `GateWhenOvertaken` | A template applied between the reconciler's first read and its write: the decision of the old rollout is written over the new one and opens the partition below the new canary. |
| `gate_upscaled` | violation | `GateWhenUpscaled` | A rollout that also adds replicas lowers the partition on replica counts alone, past a canary that still runs the old template. |
| `early_update` | violation | `EarlyUpdateRollsOut` | An update that arrives before the status counts a pod ends in a partition of -1, which the API server rejects at every retry. |
| `missed_pod_event` | violation | `GoodTemplateRollsOut` | The StatefulSet event that announces the ready pod is handled before the pod cache shows it, and nothing wakes the reconciler again. |

`CHECK_DEADLOCK FALSE` throughout: a system whose rollout has ended and whose
environment has used its disturbances is at rest.

### Bounds and why they are enough

* `MaxReplicas` 2 (3 for `rollout_completes` and `gate_upscaled`): with two pods there is a
  canary and a pod it protects; with three, a middle one that is neither first
  nor last. The proofs have no such bound. `ReplicaCounts` are the sizes a client may ask for:
  one and two in `rollout_canary`, so that a rollout also grows and shrinks; never none.
* `MaxRevision` 2 or 3: the template of creation, an update, an update that
  overtakes an update. `InitialRevisions` are the templates of creation, `BadRevisions`
  those whose pods never become ready: the second template in `rollout_canary`, the first in
  `rollout_completes`, where creation fails and the update repairs it.
* `MaxDisturbances`: how many client updates, pod failures, API errors, crashes occur in
  a behaviour, in any order and at any point. Two let any two hazards meet.
* `MaxTime` 3 with watch times of 2 and 1 ticks in `rollout_ends`: a watch time that
  passes before, during and after the rollout. 0 elsewhere: no watch time, no clock.
  Timeouts therefore meet templates and API errors in any order, but restarts, resizing and
  the owner's reconcile only in the proofs, which have no such bound.
* `Prompt`: the clock moves only when the operator has nothing to do. It is used in
  `rollout_ends`, so that a bounded clock does not stop with work undone; the safety run
  has no clock.
* `LaggingPods`: FALSE where the pod cache is not what the run is about.

### Fairness

`LiveSpec` adds weak fairness of the worker (the Go routines of controller-runtime
run whenever the queue is not empty), of both informers (a watch delivers what the server
accepted), of the informer's resync (periodic in controller-runtime), of the StatefulSet controller and the
kubelet, and of the clock. None is assumed of clients or of failures, whose number
`MaxDisturbances` bounds: retries that keep failing for ever are not excused
by fairness but by that bound. No strong fairness is needed.

### Liveness and what it is relative to

`WatchedUpdateEnds` and `GoodTemplateRollsOut` assume `Orderly`: no `overtaken` write,
and a Pending rollout whose first partition was taken from a status that had
counted the pods (`Counted`). The first is the finding `gate_overtaken`. The second
matters because the partition is computed from a count that may be too low: at 0 it leads
to the decrement below zero of `early_update`. `GoodTemplateRollsOut` is checked
with one template update per behaviour: after two in quick succession the cleanup of
the first rollout's last step may still be in flight, its effect coincides with the
start of the second, and no counter changes after the second canary's write: the reconciler
is not woken again. That is the wake-up hazard of the inventory
(`statefulset_rollout_controller.go:73`), of which `missed_pod_event` shows a
shorter instance.

`WatchIsKept` is what `WatchedUpdateEnds` rests on, as a safety property: under an update watch
time a Pending rollout, and one past its canary, has an event, a key, a timer or the
reconciler working for it. Not included is the state Canary: its timer is what the canary's watch
time has left, which may be none (`statefulset_rollout_reconciler.go:158`), nor is a restart, which
loses the timer, or an `overtaken` write, which may put a rollout back into Pending under a cache that shows an ended one.

### Findings

* `gate_overtaken` (controllers/statefulset/statefulset_rollout_reconciler.go:234): CreateOrUpdate re-reads the StatefulSet and writes the partition and state decided on the first read over whatever the second read returns, so a rollout started in between gets the partition of its predecessor and its canary is skipped; src/pkg/kube/controllers/statefulset/statefulset_rollout_controller.go:23 says "The purpose of this controller is to remove the partition of the statefulset if the canary succeeds."
* `gate_upscaled` (controllers/statefulset/statefulset_rollout_reconciler.go:112): CanaryUpscale lowers the partition when Replicas and ReadyReplicas equal the wanted size, without looking at the revision of the partition's pod; src/pkg/kube/controllers/statefulset/statefulset_rollout_controller.go:23 says "The purpose of this controller is to remove the partition of the statefulset if the canary succeeds."
* `early_update` (controllers/statefulset/statefulset_rollout_reconciler.go:160): a Pending rollout with partition 0 and enough replicas decrements the partition to -1; the API server refuses it and every retry decides the same. src/pkg/kube/controllers/statefulset/statefulset_rollout_reconciler_emulated_test.go:81 says "if startup fails and it can be recovered by update": an update that arrives before the first pod is counted never ends.
* `missed_pod_event` (controllers/statefulset/statefulset_rollout_reconciler.go:255): the pod is read from a cache of its own, which may be older than the StatefulSet version whose event woke the reconciler; the reconciler waits for another event, and CheckUpdate lets none through once the counters are final, so a succeeded canary keeps its partition; src/pkg/kube/controllers/statefulset/statefulset_rollout_controller.go:23 says "The purpose of this controller is to remove the partition of the statefulset if the canary succeeds."

Four more divergences of the same kind were met and are listed as hazards: a
reconcile before the status names the new revision accepts the old pod as a
canary (taint `lagging`), the owner's reconcile wipes a rollout in progress (taint `reapply`),
a restart loses the timer of a stuck rollout, whose create event is then
filtered, and without a canary watch time the move from Pending to Canary replaces
the timer of the update watch by none (`statefulset_rollout_reconciler.go:158`).
`rollout_ends` therefore sets both watch times and has no restart.

### The abstract walk

`CanaryWalk` says what all of this is for in four variables: `phase`, where the walk
began (`from`), the `partition`, and the ordinals without an outdated pod (`updated`). The partition
goes down one ordinal at a time, past the first one as a canary and past the others only
when they are updated; pods below the partition may change at will; a rollout ends Done only at
zero with everything updated. Its `Promise` is that nothing outdated is left behind the
partition, nor below the start of a Done rollout.

`ImplementsCanaryWalk` is `CanaryWalk` with `phase` the `canary-rollout` annotation, `from`
the history variable `first`, `partition` the StatefulSet's, and `updated` the ordinals whose pod
is missing or has the current template. Everything else - informers, queue, timers, retries, crashes,
the pods' controller - are stutters or the steps `PodsChange`. Once a rollout meets one of the
hazards it is "off" the walk (`Lose`); the next template starts a new one. The refinement is one of the
properties of `rollout_canary` and a theorem.

## 4. QuarksStatefulSet

### State

`qsts` is the QuarksStatefulSet at the API server: a number for its spec (`gen`;
template, affinity and environment are functions of it), how many zones the spec names, whether
`LastReconcile` is stamped, and `Ready`. `qcache` is the informer's copy.
Instead of resource versions, `current` is the set of readers (informer, reconciler, status reconciler) whose copy is
the server's version: an update conflicts when its writer is not in it.
`sts` and `stsCache` are the StatefulSets by zone with their version annotation, the spec and secret version they
were made from, and whether all their replicas are ready; `unseen` are the zones for which the informer is behind. `secret` is the
latest version of the one versioned secret the pod template mounts. `timer`
says what the delaying queue's entry for the key waits for: a back-off (`retry`, which may
end at any time) or the end of the window. `meltdown` holds while the ten seconds after the stamp last. Three variables are history: `served` are the zones that have been ready;
`dropped` is set when the status reconciler drops a report; and `lost` names what may have lost a trigger: a `crash`, or the `timer` of the
window, by a retry that takes its place or by a restart inside the window.

### Actions and code

* `SecretMissing`, `FirstReconcile`, `InMeltdown` and `Calculate` are the returns and the loop's start in
  `Reconcile`, guarded in the order of the code. `Stamp` and `StampConflicts` are the status update of line 120.
* `ZoneInPlace`, `ZoneWritten` and `ZoneConflicts` are one turn of the loop over the zones: `CreateOrUpdate` with `StatefulSetMutateFn`. A StatefulSet
  the cache does not show yet makes the creation fail as an old one makes the update fail.
  A zone removed from the spec keeps its StatefulSet, as in the code.
* `StatusReads`, `StatusReports` are the status reconciler; its failed update is dropped.
* `DeliverQsts`, `DeliverSecret`, `ConfigMapChanges`, `Crash` carry the predicates of
  the controller. `DeliverStatefulSets` brings the informer up to date for all zones at once, as one ordered watch does.

### Runs

| run | expected | properties | what it shows |
|---|---|---|---|
| `qsts_updates` | pass | `IInv`, `ZonesInOrder`, `ReadyMeansServed`, `NothingForgotten`, `ReportIsDue`, `CreationIsKept`, `VersionsGoUp`, `StampedOnce`, `UpdatesAreApplied`, `ImplementsZoneChain` | Two zones, specs that add and remove one, new secrets, ConfigMap events, conflicts, failing calls, pods that lose readiness and restarts: versions and contents only go up and zone by zone, the window is opened once, Ready is never reported too early, and only a conflict keeps it from being reported; a creation survives restarts; and without a restart or a replaced timer no trigger is lost, so that the last spec and secret reach every zone. All of it is a behaviour of the abstract chain of zones. |
| `qsts_never_created` | violation | `StatefulSetsAreCreated` | A ConfigMap event right after the creation: the second reconcile does not see LastReconcile yet, conflicts, and its quick retry takes the place of the timer that was to end the window. The retry falls into the window and nothing comes back: no StatefulSet is ever created. |

### Bounds and why they are enough

Two zones give a first and a last; specs move between one and two, so zones are added and left behind. Three specs and
two secret versions let an update overtake another. Two disturbances of any kind meet at any point,
among them the restart, the failing call, the conflict by an unrelated update (`touch`) and lost readiness.

### Fairness and what liveness is relative to

Weak fairness of the two reconcilers, the informers, the timers, the end of the window and the kubelet; none of clients and
failures. `UpdatesAreApplied` excludes two histories: a restart (`lost` contains `crash`: the create event of a
QuarksStatefulSet that already has StatefulSets is filtered, so a spec not yet applied stays unapplied) and the window's timer sharing its entry
in the delaying queue with an earlier deadline (`lost` contains `timer`). Everything else - conflicts, stale lists, failing calls in the middle of the zones -
is included.

`NothingForgotten` is its safety part, and holds under the same condition on `lost`: while `Applied` is false, an event, a secret
the informer has not shown, the queue, the timer or the reconciler is there to bring the zones further.

`CreationIsKept` goes further where restarts do no harm: as long as there is no StatefulSet, the create event of a new process passes, so the key is
always queued, waiting or worked on. What it excepts is the window: its timer is the one thing that ends the merge (`lost` contains `timer`).

`ReportIsDue` is about `Ready`, which is looked at only when a StatefulSet has an event: whenever the informer shows the newest ones ready, the status says so, or
the status reconciler has that event ahead of it or is about to write. The one exception is the conflict it swallows (`dropped`).

A version number is not a name for one spec: a list that does not show the last write gives the same number again, to a newer
spec. What holds, and is checked, is that versions, specs and secrets of a StatefulSet never go back and
that no zone is ahead of one before it.

### Finding

* `qsts_never_created` (controllers/quarksstatefulset/quarksstatefulset_reconciler.go:130): a reconcile that falls into the window returns without a requeue and relies on the timer set at line 127; a conflict at line 120 (a second trigger handled before the informer shows LastReconcile) re-adds the key with a short back-off, and the delaying queue keeps one entry per key, the earliest: the timer is gone, the retry falls into the window, and the StatefulSet is never created. src/integration/quarks_statefulset_test.go:68 says "should create a statefulSet and eventually a pod".

### The abstract chain

`ZoneChain` says what this comes to for somebody who sees neither informers nor queues: `offer` is the newest spec and secret, `window` the merge window, `content`
the version, spec and secret that each zone is made from, `served` and `ready` are as above. After the window, `Publish` moves one zone to something no older than
it has and no newer than what the zone before it has, for the first zone than what is offered; its version is one above some zone's or a used one.
Its `Promise` is that contents get no newer along the row, that nothing precedes the end of the window or the secret, that a zone has the newest spec only if
that spec names it, and that once Ready is reported the first zone exists.

`ImplementsZoneChain` is `ZoneChain` with `offer`, `window` and `content` read off the API server's objects (`Offered`, `MergeWindow`, `Made`): the stamp of `LastReconcile` opens the
window, and informers, queue, timers, conflicts, failures and restarts are stutters. Unlike the abstract walk of the rollout it has no exceptions: it holds in every
history, restarts and lost timers included, because it promises nothing about when a zone follows. That is `UpdatesAreApplied`. The refinement is one of the
properties of `qsts_updates` and a theorem.

### Rendering

`ZoneRendering` translates `generateSingleStatefulSet`, `updateAffinity`, `injectContainerEnv` and
`upsertEnvs` as operators on a QuarksStatefulSet and a zone's index, and `Updated` is what
`StatefulSetMutateFn` makes of an existing StatefulSet: everything but the selector and the owner. A name is a
sequence of numbers, since all that matters is which names coincide. `MCQuarksStatefulSet` evaluates four assumptions
about it over small inputs, as part of `qsts_updates`: renderings are accepted,
`RenamedZonesAreRefused`, `NamesMayCollide` (the StatefulSet `X-z0` of `X` and of a QuarksStatefulSet named `X-z0`),
and that `UpsertEnvs`, which is written without recursion, is the loop of the code.

## 5. OperatorProcess and ActivePassive

### State

`OperatorProcess` has the `phase` the process is in, whether its webhook server is `serving`, the certificate
`cert` in its directory, the `secret` the certificate is kept in, and `hook`: the certificate that the registered webhook
configuration trusts, 0 while there is none: before the first start, and from the moment a starting process has deleted the configuration
of an earlier one until it has created its own (phase `register`). Certificates are numbered as they are issued. `Admits` is what the API
server makes of failure policy Fail: an object is admitted if no webhook is registered, or if
the server can be reached and is trusted.

`ActivePassive` extends it with one QuarksStatefulSet: `present`, the `version` of each zone's StatefulSet, the `pods` with an
incarnation number, readiness and two labels, the informer's `podCache`, the containers its `probes` name, where a probe would succeed
now (`healthy`) or never return (`hung`). What the controller knows of the QuarksStatefulSet is its informer's: whether it is `shown`, and
with which probes (`known`); `watch` is what the informer has still to be told, one entry for each update, in order. `pc`, `round`, `todo`, `listed` and `answer` are the worker in a round.
As in the QuarksStatefulSet, `fresh` and `same` stand for resource versions: the pods of which the informer's and the round's copy are the
server's version.

### Actions and code

* `Start` ... `StartManager` and `Serve` are `RunE`, `NewManager`, `AddHooks`, `AddToManager` and `mgr.Start`, in their order; `Exit`
  is any failing step or kill. The call at `controllers.go:90` is two steps, `DeleteWebhookConfig` and `CreateWebhookConfig`: the
  library deletes the configuration and creates it anew, and the process may be killed in between.
* `Mutated` is the pod mutator; it runs in the actions in which the API server creates or updates a pod, `CreatePod`, `ClientLabels` and
  `MarkPod`, and not for the status.
* `NotFound`, `NoProbe`, `BeginRound`, `ListPods`, `Probe`, `MarkInPlace`, `MarkPod`, `MarkFails`, `ZoneDone`, `EndRound`
  and `CallFails` are `Reconcile` and the functions it calls. The probe runs by name in the pod there is now;
  the update carries the version listed before. The QuarksStatefulSet is the informer's: `NotFound` waits until that shows none, and
  `BeginRound` may start a round for one that is deleted. It takes any of the probes, as the range over a map does.
* `UpdateQsts` is any update of the QuarksStatefulSet, of the probes or of something else; `DeliverSpec` brings the informer the oldest one it
  has not seen, and queues the key if that has probes, as `UpdateFunc` does. `DeliverDeletion` comes last and queues nothing (`DeleteFunc`).
* `StatefulSetCollected` and `PodCollected` are the garbage collector's, some time after the deletion.
* `RaiseVersion` is the QuarksStatefulSet reconciler seen from here: zone by zone, and possibly stopping in between.
* `Crash` ends the process at any point; `Run` starts the informers of the next one.

### Runs

| run | expected | properties | what it shows |
|---|---|---|---|
| `active_labels` | pass | `IInv`, `ServedIsTrusted`, `RoundsGoOn`, `PodsAreNumbered`, `LabelsFollowProbe`, `DeletedRunsOut` | Two zones, two containers to probe, and every disturbance: pods replaced, unready, labelled by hand or hanging, moved leaders, new versions, updated probes, deletion, API errors, restarts and a lost certificate. A label changes only by the answer of the pod that has it, a pod misses its ordinal only if it was created while no webhook was registered, a serving webhook is trusted, nothing ends the rounds, and once the informer has seen a deletion there is never more work than before. |
| `active_settles` | pass | `PodsComeBack`, `LabelsSettle`, `DeletedIsForgotten` | One zone with two pods: the pods come back through restarts of the operator and new certificates, the labels agree with the probes once the environment is quiet, and a deleted QuarksStatefulSet is forgotten, whatever its informer had still to see. |

### Bounds and why they are enough

Two zones of one pod each in `active_labels`: two pods that are handled in one round, with a first and a second zone, and which may be at
different versions. One zone of two pods in `active_settles`: a conflict on one ends the loop before the other. Two incarnations of each name let a pod be replaced between list, probe and update. Two containers in `active_labels`, so that
rounds differ in whom they ask; one in `active_settles`. Two certificates: one to be lost and one after it. Two disturbances
at any point, of any kind in `active_labels`; `active_settles` leaves out new versions, which make no difference to a single zone, and what only
hides or undoes a label (unready pods, labels set by hand, hanging probes). Each update is a disturbance, so at most two wait in `watch`.

### Fairness and what liveness is relative to

Weak fairness of the process (the Deployment restarts it), the round, the informers, the creation of missing pods, the collection of StatefulSets
whose owner is gone, and the first creation of each zone's StatefulSet. None of clients, failures, or of pods becoming ready. `LabelsSettle` holds
once the environment is quiet, with at least one probe and none that hangs: that the labels of a
QuarksStatefulSet whose probes were removed stay for ever, that a hanging probe blocks the worker, and that an answer depends on the container that was asked are listed as hazards.
It speaks of pods whose probes agree (`Silent`, `Responds`), since a round asks one of them.
`RoundsGoOn`, checked in `active_labels`, is the part of it that is safety: a running operator whose informer shows probes has the next round ahead of it, also while the
QuarksStatefulSet is deleted and still shown, for every `PeriodSeconds` that is not negative. The run has `PeriodSeconds` 0, the one value that the code treats apart.
`DeletedRunsOut` is the safety part of `DeletedIsForgotten`: a key, a timer and a round count one, two and three, and once the informer has seen the deletion no step raises
the sum, a restart included, since a new process finds nothing to queue. Before that it may rise: rounds begin for the object that is still shown, and update events that
are delivered late queue the key again. Fairness of the watch ends that, and then brings the sum down to nothing.
`PodsAreNumbered` is a statement about steps, because a pod created in the gap between two configurations keeps the label it did not get until something updates it. It says that
nothing else leaves a pod without one: not a process that is down, starting or not trusted behind a registered configuration, and not an update, whoever's copy it writes back.
`active_settles` runs with a probe configuration; without one nothing is alive, see `NothingAdmittedWithoutProbeConfig` below.

## 6. FakeCalls

`client.go`, `manager.go` and `status_writer.go` are generated from interfaces and have one method shape. `Fake` selects
which of the three an instance is; the methods and the order in which `Invocations` locks them are those of the files.
`stub`, `onCall`, `calls` and `recorded` are the fields of a fake, by method; a goroutine is where it stands in a method
(`lock`, `record`, `recorded`, `check`, `stub`) or in `Invocations` (`read`, with the number of mutexes it holds). Who holds and who waits for a mutex
follows from those positions (`Writes`, `Waits`, `Reads`), with Go's rule that a waiting `Lock` keeps new readers out.
`Take` ... `RunsStub` are a call, `Calls`, `Returns`, `ReturnsOnCall` the configuration, `Invocations`, `RLockNext`, `Copy` the inspection. Arguments are not modelled, answers are the
number of the call they are for. `CallsNil` is the panic of a goroutine whose stub was set to nil between its check and its call.

| run | expected | properties | what it shows |
|---|---|---|---|
| `fakes_shared` | pass | `IInv`, `SnapshotAgrees`, `EachAnswerOnce`, `NilStubIsARace`, `OnlyMutexesBlock`, `BlockedByInvocations` | Three goroutines that call, configure and inspect one fake: Invocations agrees with the call counts, each answer is given once, a nil stub is called only after a race with its reset, a goroutine waits for the mutex it needs next and nothing else, and only Invocations can block a call for good. |

Three goroutines are a caller, another one or a configurer, and an inspector; four operations let them overlap in
every way. `status_writer.go` has two methods, enough for a lock order; the proofs cover
the other two fakes. Two properties are about the lock order. `OnlyMutexesBlock`: a goroutine has a step (ENABLED) exactly when
the mutex it needs is free, so that nothing else holds it up. `BlockedByInvocations`: if none of the goroutines under way can have its mutex, an `Invocations` and a call hold each
other's. Calls and configuration alone never block each other, but `Invocations` beside a call can, and then for good (`CHECK_DEADLOCK FALSE`). No liveness is claimed.

## 7. Theorems

### The rollout

`StatefulSetRolloutProofs.tla`, for every value of the constants that satisfies
`ConstantsAssumption` (positive bounds; watch times are any integers, so unreadable
and absent annotations are covered):

* `TypeCorrect`: every variable keeps its type: no accepted write leaves a partition out of range.
* `Inductive` (`IInv`): the inductive invariant, below.
* `WalkIsInOrder` (`WalkInOrder`): the ordinals moved past are exactly those above the partition.
* `PassedPodsStayUpdated` (`PassedPodsUpdated`): no pod behind the walk is on an older template, whatever fails later.
* `CanaryGateIsKept` (`CanaryGateHolds`): without one of the four hazards the partition passes the canary only once it is updated.
* `DoneIsUpdated` (`DoneMeansUpdated`): Done leaves no pod of the walk on an older template.
* `CanaryIsIsolated` (`CanaryIsolation`): pods the partition protects do not get the new template, unless every pod already had it, whatever crashes, lags or is wiped.
* `EndedRolloutStaysEnded` (`EndedStaysEnded`): an ended rollout is reopened by a new template, a wipe or an overtaken write only.
* `PartitionStepsDown` (`OneStepDown`): within a rollout the partition goes down by one per step.
* `BadTemplateIsContained` (`CanaryContainsBadTemplate`): a template whose pods never become ready reaches the canary and the pods never protected only, unless it has become the current revision, for every size, zero included.
* `BadIsCurrentOnlyWithoutPods`: a template whose pods never become ready is made the current revision only while there is no pod.
* `WatchedRolloutIsKept` (`WatchIsKept`): under an update watch time a pending rollout, or one past its canary, always has an event, a key, a timer or the reconciler working for it, whatever conflicts, lags or fails short of a restart.

The proof is by one inductive invariant, `IInv == TypeOK /\ WalkInv /\ BadInv /\ PollInv /\ WatchInv`, also
checked by TLC in `rollout_canary` and `rollout_ends`. Why each part of `WalkInv` is needed:

* `CacheInv`: a cache that is not stale equals the server's version, so an
  accepted write is written over exactly what the second read saw; and no
  revision anywhere is ahead of the template counter.
* `CurrentInv`: the update revision becomes current only when every pod has it, so a
  pod re-created at the current revision after that is not outdated.
* `PodInv`: above the partition a pod once seen updated never goes back, in either
  view; below it neither view shows the new template.
* `PhaseInv`: where each state stands in the walk (Pending at `first`, Canary
  one below it, Rollout below `first`, CanaryUpscale and Done at 0).
* `DecisionInv`: what the decision in flight may be, given the version it was
  taken on: the link between the two reads.
* `WitnessInv`: the pod a decision in flight has seen updated still is, or is
  gone, when the decision is written. Without it `PassedPodsUpdated` is not
  inductive: between check and write the pod may be deleted, and the argument
  that its successor is updated is `PodInv`.

`BadInv` is about templates whose pods never become ready: no view shows such a pod ready (`BadPodsInv`), so no
decision moves past one (`BadDecisionInv`), so a rollout of such a template does not get below its canary (`BadWalkInv`),
below which `PodInv` allows the template on no pod. `CanaryContainsBadTemplate` is stated with
the condition that the template has not become the current revision, which is needed: after a scale-down has
removed every pod, the counters of an update that has reached nobody agree, the StatefulSet
controller makes the template the current revision, and then creates pods with it on both sides of the partition. With
the sizes one and two this takes two templates and a new size in a row, more than the bound of `rollout_canary` admits;
it came up as a case of the proof that could not be closed, and TLC shows it with three disturbances. `BadIsCurrentOnlyWithoutPods` says that there is no other way.

`PollInv` and `WatchInv` carry `WatchIsKept`. A rollout whose version is not announced is in the cache, in a state from which `Reconcile`
goes on or asks for another turn (`KeptInv`, first two parts): not necessarily the same state, since a conflicting writer
may have been faster. A decision that keeps the rollout going carries a positive `RequeueAfter` (`PollInv`), because
`failIfTimedOut` ends the rollout before `getTimeOut` could return anything else. The third part is about the move from Pending to Canary, the one decision
without such a timer: where the rollout is already past its canary, an event or the key is on its way beside it.

There is one lemma per action (or group of actions with the same footprint), and each has one step per part of
the invariant the action can disturb. `CanaryGate`, `DoneMeansUpdated` and
`CanaryIsolation` follow from the invariant; the two action properties
are proved from `DecisionInv`, `CacheInv` and the step.

`StatefulSetRolloutRefinement.tla` and `CanaryWalkProofs.tla`:

* `Refinement` (`ImplementsCanaryWalk`): a rollout that meets no hazard is a canary walk, and one that does is off the walk until the next template, for every number of pods and templates.
* `PromiseIsKept`: the rollout keeps the promise of the abstract walk: nothing outdated behind the partition, nor below the start of a Done rollout.
* `WalkKeepsPromise`: the abstract walk keeps its promise, for every number of pods.

The refinement uses the same invariant, on both sides of a step: `PhaseInv` says which phase a decision continues,
`DecisionInv` and `CacheInv` that it is written over the version it was taken on, `WitnessInv` that the pod the walk moves past is updated,
and `PodInv` that the pods behind the partition stay so. Steps fall into four groups: a new template is `Start`, a pod's step is `PodsChange` or a stutter, an accepted write is the move of its
decision or, if it meets a hazard, `Lose`, and all others leave the mapped variables alone.

Model-checked only: the liveness properties, since fairness is outside the prover's reach.

### Versions and zones

`QuarksStatefulSetProofs.tla`, for every number of zones, specs, secrets and disturbances that
satisfies `ConstantsAssumption`:

* `TypeCorrect`: every variable keeps its type.
* `Inductive` (`IInv`): the inductive invariant, below.
* `ZonesStayInOrder` (`ZonesInOrder`): no zone is ahead of one before it in version, spec or secret.
* `VersionsNeverGoBack` (`VersionsGoUp`): a version counted in an old list never puts a StatefulSet back.
* `WindowOpensOnce` (`StampedOnce`): the merge window is opened once, and before the first StatefulSet, whatever the informer shows of LastReconcile.
* `ReadyIsServed` (`ReadyMeansServed`): Ready is reported only after a StatefulSet had all its pods ready.
* `NoTriggerIsLost` (`NothingForgotten`): while a zone lacks the last spec or secret, an event, a key, a timer or the reconciler is on its way to it, through any lag, conflicts and failing calls.
* `CreationIsOnItsWay` (`CreationIsKept`): as long as there is no StatefulSet the key is on its way, through conflicts, failing calls and restarts, unless the window's timer is lost, which runs as long as the window is open.
* `NoReportIsLost` (`ReportIsDue`): once the informer shows the newest StatefulSets ready, Ready is reported or about to be, unless the last report met a conflict.
* `Refinement` (`ImplementsZoneChain`): reconcilers, informers and queue implement the chain of zones, for every number of zones, specs and secrets.
* `PromiseIsKept`: the StatefulSets keep the promise of the chain: they get no newer along the zones, none precedes the end of the window or the secret, the newest spec reaches the zones it names only, and once Ready is reported the first zone's exists.

and in `ZoneChainProofs.tla`:

* `ChainKeepsPromise`: the abstract chain keeps its promise, for every number of zones.

`IInv == TypeOK /\ CopiesInv /\ JobInv /\ ZonesInOrder /\ WindowInv /\ ServedInv /\ TriggerInv /\ SourceInv` is checked by TLC in `qsts_updates`.

* `CopiesInv`: every copy is an old version of what it copies, and a StatefulSet at the server is
  at most one version above the highest the informer shows. That one version is why a number counted in an old list
  is never below what is already there: it may be the same number again, with a spec at least as new.
* `JobInv`: while the zones are written, no zone is above the job, and those before the current one are not below it.
  When a zone is written, the first half says it does not go back and that the zones after it are not
  ahead, the second that it does not overtake those before it. For a zone found in place, `CopiesInv` carries
  "as desired" from the cache to the server.

* `WindowInv`: as long as `LastReconcile` is not stamped, and in the window, there is no StatefulSet and none is in hand.
  The stamp cannot be stored twice because the reconciler's copy, if it still is the server's version, is one without a stamp.
* `ServedInv`: a StatefulSet that any copy shows ready has been ready, and so a report under way rests on one that was.
* `TriggerInv`: what is not announced is in the informer's copy; and when no key is on its way, what the zones in hand
  or, between reconciles, the zones themselves are made from is what that copy shows. A new spec or secret breaks the second half and
  queues the key as the informer shows it; a conflict or a failing call in the middle of the zones sets the timer; and a reconcile that
  falls into the window does nothing, so the timer that ends the window has to be there still.
* `SourceInv`: a job that writes zones has a version above 0, and one made from the newest spec writes the zones that spec names. The first says
  that a zone that is written exists, the second that no zone gets the newest spec without being named by it.

`ReportIsDue` is inductive together with `TypeOK`: every event of a StatefulSet queues the status reconciler, which looks at the list it finds then. `CreationIsKept` needs
`IInv` at one point, the end of the loop over the zones: a zone in place or written has the job's version, so there is a StatefulSet.

The refinement takes `IInv` on the left of a step: `UpdateSpec` and `NewSecret` are `Offer`; `Stamp` and `WindowEnds` are `PassWindow`
(`WindowInv`: the stamp is the first one); `ZoneWritten` is `Publish` (`CopiesInv` bounds the version by one above a zone's, `JobInv` gives "no older than it has" and "no newer than
the zone before", `SourceInv` the zones that are named, `TriggerInv` the secret); `BecomesReady` is `Serve`; `StatusReports` is `Report` (`ServedInv`). All other steps leave the
mapped variables alone (`ChainFrame`). `PromiseIsKept` is then `ChainKeepsPromise` through the mapping.

The highest version is a `CHOOSE` over the informer's list: that the list is bounded and the maximum exists
is proved from the well-foundedness of the natural numbers (`LeastNatural`, `ListBounded`,
`MaxVersionIsHighest`). Steps are grouped by footprint: those that leave StatefulSets and copies alone
(`AsideStep`), those that bring the informer up to date (`SyncStep`), the pods (`PodStep`), and
one lemma each for counting a version and for the turns of the loop.

Model-checked only: the liveness property.

### Labels, webhooks and process

`ActivePassiveProofs.tla`, for every number of zones, pods, containers and certificates:

* `Inductive` (`IInv`): the inductive invariant: copies of pods are old or true, an answer is that of the pod listed, and the informer shows the QuarksStatefulSet until the watch has told it everything, the deletion last.
* `ServingIsTrusted` (`ServedIsTrusted`): a listening webhook server has the certificate that the registered configuration trusts.
* `EveryPodIsNumbered` (`PodsAreNumbered`): a pod misses its ordinal label only if it was created while no webhook was registered, which is before the first start or in the gap a start leaves between two configurations; no update takes the label away.
* `LabelsAreTheProbes` (`LabelsFollowProbe`): a label is changed by hand or by the current answer of the very pod that has it, and set on ready pods only.
* `RoundsAreKept` (`RoundsGoOn`): the probe rounds of a QuarksStatefulSet that the informer shows go on through conflicts, failing calls, changed probes and restarts, for every period that is not negative.
* `DeletedFadesAway` (`DeletedRunsOut`): once the QuarksStatefulSet is deleted and its informer has seen that, no step, a restart included, adds to the work ahead of it.
* `NothingAdmittedWithoutProbeConfig`: where KubeConfig() finds nothing, no pod is admitted as long as a webhook configuration is registered; a start only opens the moment between two of them.

`IInv == TypeOK /\ StartedInOrder /\ CopiesInv /\ AnswerInv /\ ShownInv`, checked by TLC in `active_labels`.
`StartedInOrder` orders certificate, configuration and server: a process past its start has its own configuration registered, so that the gap is before it. `CopiesInv` makes an accepted update one of exactly the pod
listed; with `AnswerInv`, that the answer in hand is that pod's unless it changed, it gives `LabelsFollowProbe`. A step that changes a pod is one of seven (`OnePodChanges`); for `PodsAreNumbered` each either
writes back the label there is (`CopiesInv` again, for the round's update) or passes `Admits`, which with a registered configuration is the mutator.
`RoundsGoOn` is inductive by itself: each return of `Reconcile` sets the timer, but for that of a QuarksStatefulSet that is not shown, and a new process queues what it finds.
`ShownInv` has the watch empty once the QuarksStatefulSet is not shown. `DeletedRunsOut` then goes action by action: those that queue a key or set a timer either end a round, or fire the timer, or need a
QuarksStatefulSet that is shown.
Model-checked only: the liveness properties.

### The fakes

`FakeCallsProofs.tla`, for each fake, any number of goroutines and of operations:

* `SharedFakes` (`IInv`): the inductive invariant of the fakes: exclusive writers, arguments ahead of invocations by the call that records.
* `AnswersAreNotShared` (`EachAnswerOnce`): an answer set for one call is given to one call at most, for each of the three fakes and any number of goroutines.
* `SnapshotsAgree` (`SnapshotAgrees`): what Invocations copies agrees with the call counts of every method.
* `PanicsAreRaces` (`NilStubIsARace`): a call panics on a nil stub only if the stub was taken away under it.
* `OnlyReadersBlock` (`BlockedByInvocations`): when no goroutine can have the mutex it needs, an Invocations and a call hold each other's: calls and configuration alone never block for good.

`IInv == TypeOK /\ ExclusiveInv /\ RecordedInv /\ EachAnswerOnce /\ StubInv`: one writer of a method and no reader beside it, so that
arguments and invocations differ by the call that is recording, and the number a call was given is below the count and
nobody else's. `Invocations` holds every method's mutex when it copies, hence no call records.
The argument of `OnlyReadersBlock`: if no call records, then every goroutine
that waits does so because of an `Invocations`, the one that has got furthest included; but the method it is to lock next could only be held
by an `Invocations` that has got further (`GreatestBelow`, `SomebodyMayGo`). A call that records and waits does so for an `Invocations`. Model-checked only: `OnlyMutexesBlock`, which is about what is ENABLED.

### Renderings

`ZoneRenderingProofs.tla`, for all QuarksStatefulSets:

* `SelectorMatchesTemplate`: a rendered StatefulSet selects its own pods, whatever labels the template brings.
* `UpdateKeepsTheZone`: an update of a zone is accepted exactly when its index keeps its zone's name.
* `ProbesStayInTheZone`: the probes of a zone reach its own pods and those of no other zone.
* `AffinityIsAnAlternative`: a pod runs in its zone or wherever the template's own affinity lets it.
* `ContainersSeeTheirZone`: every container whose template sets the variables once at most sees its own zone and index.

The environment lemmas (`UpsertOne`, `UpsertKeeps`, `UpsertTwo`) say that an upsert sets its own variable, leaves the others, and keeps a
list without duplicates without duplicates. Two of these theorems describe behaviour one may not want: an update that renames a zone is refused at every
retry (`UpdateKeepsTheZone`), and a node affinity of the template lets pods out of their zone (`AffinityIsAnAlternative`), although
`docs/examples/README.md` speaks of zones as where the pods run.

## 8. Not modelled

* StatefulSets without the canary annotation: the webhook leaves them alone.
* Deletion of the StatefulSet during a rollout: the reconciler's read then fails with an error and is retried.
* The meltdown window (`statefulset_rollout_reconciler.go:82`): the annotation it reads is set on
  an object that the second read of `CreateOrUpdate` overwrites, so it is never stored.
* More than one StatefulSet in a rollout, or QuarksStatefulSet in a probe round: the reconcilers handle keys
  independently; one worker per key is guaranteed by controller-runtime.
* Parallel pod management: QuarksStatefulSet templates that set it are outside this model.
* In the probe rounds: a lag of the StatefulSet informer, StatefulSets that the other reconciler creates for a QuarksStatefulSet already
  deleted (the garbage collector takes them again), and the difference between an empty and an absent map of probes.
* More than one replica of the operator.
* In the rollout and the QuarksStatefulSet: versions that the webhook does not see. Their StatefulSets are admitted while it is registered
  and serves; what is written in the gap that `OperatorProcess` has between two configurations is left out there.
* In the fakes: stubs that call the fake they belong to, the unsynchronised read of the default answer while
  `Returns` writes it, and the readers `CallCount` and `ArgsForCall`.
* The vendored libraries (`versionedsecretstore`, `podref`, `meltdown`) beyond what the code uses of them;
  several QuarksStatefulSets sharing a secret; the namespace predicate and `skip.Reconciles`.
* Flag parsing, logging, events, metrics, contexts and their cancellation.
* API types, deep copies and the generated client: data and pure delegation.
* The test suites and their environment (`src/integration`, `src/e2e`, `src/testing`).
