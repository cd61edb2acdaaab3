---------------------------- MODULE ActivePassive ----------------------------
(***************************************************************************)
(* The active/passive controller: rounds of probes run inside the pods of  *)
(* a QuarksStatefulSet, whose answers become a label on the pods; together *)
(* with the process that runs the rounds and admits the pods.              *)
(*                                                                         *)
(* A pod is listed from the informer, probed by name at the API server and *)
(* updated with the resource version that was listed.  Instead of resource *)
(* versions, fresh and same are the pods of which the informer's and the   *)
(* round's copy is the server's version.  The QuarksStatefulSet itself is  *)
(* read from an informer that its watch brings up to date event by event.  *)
(***************************************************************************)
EXTENDS OperatorProcess, FiniteSets, Sequences

CONSTANTS
  Zones, Ordinals,  \* a pod is named by its zone and its ordinal
  MaxVersion,       \* bound: versions of a zone's StatefulSet
  MaxIncarnations,  \* bound: how often a pod name is used
  Containers,       \* the containers a probe may be meant for
  PeriodSeconds,    \* 0 stands for the default of 30 seconds
  Disturbances,     \* what clients, pods and failures may do ...
  MaxDisturbances   \* ... and the bound on how often

DisturbanceKinds == {"version", "replace", "unready", "label", "app", "hang",
                     "probes", "delete", "apierror", "crash", "secret"}

ASSUME ConstantsAssumption ==
  /\ Zones # {} /\ Ordinals # {} /\ Containers # {}
  /\ MaxVersion \in Nat /\ MaxIncarnations \in Nat \ {0}
  /\ PeriodSeconds \in Int
  /\ Disturbances \subseteq DisturbanceKinds
  /\ MaxDisturbances \in Nat

VARIABLES
  present,  \* the QuarksStatefulSet exists
  version,  \* version of each zone's StatefulSet, 0: not created yet
  pods,     \* the pods at the API server
  podCache, \* the informer's copy of them
  fresh,    \* ... and where it is the server's version
  probes,   \* the containers Spec.ActivePassiveProbes names
  shown,    \* the informer shows the QuarksStatefulSet
  known,    \* ... with these probes
  watch,    \* the probes of its updates that the informer has still to see
  healthy,  \* where the probe's command would succeed now
  hung,     \* pods in which it never returns
  queued,   \* the key is in the controller's work queue
  timer,    \* the delaying queue will add it
  pc,       \* where the reconcile worker is
  round,    \* the StatefulSets it has still to list
  todo,     \* the pods of the current one it has still to handle
  listed,   \* the pods as listed
  same,     \* ... and where that still is the server's version
  answer,   \* of the last probe
  left      \* disturbances still allowed

clusterVars == <<present, version, pods, probes, healthy, hung>>
specVars    == <<shown, known, watch>>
cacheVars   == <<podCache, fresh, specVars>>
roundVars   == <<round, todo, listed, same, answer>>
vars == <<processVars, clusterVars, cacheVars, roundVars, queued, timer, pc, left>>

Pods == Zones \X Ordinals
Pod  == [id : 0..MaxIncarnations, exists : BOOLEAN, ready : BOOLEAN,
         active : BOOLEAN, ordinal : BOOLEAN]
NoPod == [id |-> 0, exists |-> FALSE, ready |-> FALSE, active |-> FALSE,
          ordinal |-> FALSE]
Answer   == [pod : Pods, container : Containers, id : 0..MaxIncarnations,
             ok : BOOLEAN]
NoPods == [p \in Pods |-> NoPod]
NoAnswer == [pod |-> CHOOSE p \in Pods : TRUE,
             container |-> CHOOSE c \in Containers : TRUE, id |-> 0, ok |-> FALSE]

Disturb(kind) == kind \in Disturbances /\ left > 0 /\ left' = left - 1

-----------------------------------------------------------------------------
(* Pods and their informer *)

\* setPodOrdinal, run by the pod mutator on what is created or updated.
Mutated(pod) == [pod EXCEPT !.ordinal = pod.ordinal \/ Mutates]

\* The server holds a new version of p.
StorePod(p, pod) ==
  /\ pods' = [pods EXCEPT ![p] = pod]
  /\ fresh' = fresh \ {p} /\ same' = same \ {p}

Aside == UNCHANGED <<processVars, present, version, probes, podCache, specVars, queued,
                     timer, pc, round, todo, listed, answer>>

\* The StatefulSet controller; the pod has to be admitted.
CreatePod(p) ==
  /\ version[p[1]] > 0 /\ ~pods[p].exists
  /\ pods[p].id < MaxIncarnations
  /\ Admits
  /\ StorePod(p, Mutated([NoPod EXCEPT !.id = pods[p].id + 1, !.exists = TRUE]))
  /\ Aside /\ UNCHANGED <<healthy, hung, left>>

\* Rolled by a partition, evicted or lost with its node; a hanging command ends.
PodGoes(p) ==
  /\ Disturb("replace")
  /\ pods[p].exists /\ pods[p].id < MaxIncarnations
  /\ StorePod(p, [NoPod EXCEPT !.id = pods[p].id])
  /\ hung' = hung \ {p}
  /\ Aside /\ UNCHANGED healthy

\* The garbage collector, after the owners are gone.
PodCollected(p) ==
  /\ ~present /\ version[p[1]] = 0 /\ pods[p].exists
  /\ StorePod(p, [NoPod EXCEPT !.id = pods[p].id])
  /\ hung' = hung \ {p}
  /\ Aside /\ UNCHANGED <<healthy, left>>

\* The status subresource does not pass the webhook.
PodReady(p) ==
  /\ pods[p].exists /\ ~pods[p].ready
  /\ StorePod(p, [pods[p] EXCEPT !.ready = TRUE])
  /\ Aside /\ UNCHANGED <<healthy, hung, left>>

PodUnready(p) ==
  /\ Disturb("unready")
  /\ pods[p].exists /\ pods[p].ready
  /\ StorePod(p, [pods[p] EXCEPT !.ready = FALSE])
  /\ Aside /\ UNCHANGED <<healthy, hung>>

\* A client sets or removes the label by hand.
ClientLabels(p) ==
  /\ Disturb("label")
  /\ pods[p].exists /\ Admits
  /\ StorePod(p, Mutated([pods[p] EXCEPT !.active = ~pods[p].active]))
  /\ Aside /\ UNCHANGED <<healthy, hung>>

DeliverPod(p) ==
  /\ Running /\ p \notin fresh
  /\ podCache' = [podCache EXCEPT ![p] = pods[p]]
  /\ fresh' = fresh \cup {p}
  /\ UNCHANGED <<processVars, clusterVars, specVars, roundVars, queued, timer, pc, left>>

\* The application's leader moves, or a process in a pod stops answering.
AppSwitches(c, p) ==
  /\ Disturb("app")
  /\ healthy' = IF <<c, p>> \in healthy THEN healthy \ {<<c, p>>}
                                        ELSE healthy \cup {<<c, p>>}
  /\ Aside /\ UNCHANGED <<pods, fresh, same, hung>>

Hangs(p) ==
  /\ Disturb("hang")
  /\ pods[p].exists
  /\ hung' = hung \cup {p}
  /\ Aside /\ UNCHANGED <<pods, fresh, same, healthy>>

-----------------------------------------------------------------------------
(* The QuarksStatefulSet and its StatefulSets *)

\* A reconcile of the QuarksStatefulSet, in a running operator, creates or
\* updates the StatefulSets zone by zone; it may stop after any of them, and
\* leaves a zone behind that the spec no longer names.
RaiseVersion(z) ==
  /\ Running /\ Admits /\ present
  /\ version[z] < MaxVersion
  /\ IF version[z] = 0 THEN left' = left ELSE Disturb("version")
  /\ version' = [version EXCEPT ![z] = @ + 1]
  /\ UNCHANGED <<processVars, present, pods, probes, healthy, hung, cacheVars,
                 roundVars, queued, timer, pc>>

\* An update, of the probes or of anything else; the watch of a running process
\* is told of each.
UpdateQsts(cs) ==
  /\ Disturb("probes")
  /\ present
  /\ probes' = cs
  /\ watch' = IF Running THEN Append(watch, cs) ELSE watch
  /\ UNCHANGED <<processVars, present, version, pods, healthy, hung, podCache, fresh,
                 shown, known, roundVars, queued, timer, pc>>

\* The informer shows the QuarksStatefulSet until it has been told.
Delete ==
  /\ Disturb("delete")
  /\ present /\ present' = FALSE
  /\ UNCHANGED <<processVars, version, pods, probes, healthy, hung, cacheVars, roundVars,
                 queued, timer, pc>>

\* The garbage collector, after the owner is gone.
StatefulSetCollected(z) ==
  /\ ~present /\ version[z] > 0
  /\ version' = [version EXCEPT ![z] = 0]
  /\ UNCHANGED <<processVars, present, pods, probes, healthy, hung, cacheVars, roundVars,
                 queued, timer, pc, left>>

\* UpdateFunc lets an event pass if the new object has probes, also one that
\* leaves them alone and one of a QuarksStatefulSet deleted since.
DeliverSpec ==
  /\ Running /\ watch # <<>>
  /\ known' = Head(watch) /\ watch' = Tail(watch)
  /\ queued' = (queued \/ Head(watch) # {})
  /\ UNCHANGED <<processVars, clusterVars, podCache, fresh, shown, roundVars, timer, pc,
                 left>>

\* DeleteFunc drops the event: only the informer learns of the deletion.
DeliverDeletion ==
  /\ Running /\ shown /\ ~present /\ watch = <<>>
  /\ shown' = FALSE /\ known' = {}
  /\ UNCHANGED <<processVars, clusterVars, podCache, fresh, watch, roundVars, queued, timer,
                 pc, left>>

-----------------------------------------------------------------------------
(* ReconcileStatefulSetActivePassive.Reconcile *)

RoundOver == pc' = "idle" /\ round' = {} /\ todo' = {} /\ listed' = NoPods
             /\ same' = {} /\ answer' = NoAnswer

\* An error: the key comes back after a back-off.
Retry == RoundOver /\ timer' = TRUE

Unaffected == UNCHANGED <<processVars, present, version, probes, healthy, hung, specVars,
                          left>>

TimerFires ==
  /\ Running /\ timer
  /\ timer' = FALSE /\ queued' = TRUE
  /\ UNCHANGED <<processVars, clusterVars, cacheVars, roundVars, pc, left>>

\* GetMaxStatefulSetVersion
NewestZones == {z \in Zones : /\ version[z] > 0
                              /\ \A y \in Zones : version[y] <= version[z]}

\* Mutant of NotFound: like any other error, it is retried.
NotFoundRetried ==
  /\ Running /\ pc = "idle" /\ queued
  /\ ~shown
  /\ queued' = FALSE
  /\ Retry
  /\ Unaffected /\ UNCHANGED <<pods, podCache, fresh>>

\* The informer shows no such QuarksStatefulSet: no requeue.
NotFound ==
  /\ Running /\ pc = "idle" /\ queued
  /\ ~shown
  /\ queued' = FALSE
  /\ Unaffected /\ UNCHANGED <<pods, podCache, fresh, roundVars, timer, pc>>

\* The informer's QuarksStatefulSet, be it old or already deleted; the range over
\* the map of its probes gives any of the keys.
BeginRound(c) ==
  /\ Running /\ pc = "idle" /\ queued
  /\ shown /\ c \in known
  /\ queued' = FALSE /\ pc' = "list"
  /\ round' = NewestZones
  /\ answer' = [NoAnswer EXCEPT !.container = c]
  /\ Unaffected /\ UNCHANGED <<pods, podCache, fresh, timer, todo, listed, same>>

\* getProbeContainerName finds none: an error, also when the probes have been
\* removed on purpose; the labels stay as they are.
NoProbe ==
  /\ Running /\ pc = "idle" /\ queued
  /\ shown /\ known = {}
  /\ queued' = FALSE
  /\ Retry
  /\ Unaffected /\ UNCHANGED <<pods, podCache, fresh>>

\* getStsPodList, from the informer
ListPods(z) ==
  /\ Running /\ pc = "list" /\ z \in round
  /\ pc' = "probe"
  /\ round' = round \ {z}
  /\ todo' = {p \in Pods : p[1] = z /\ podCache[p].exists}
  /\ listed' = [p \in Pods |-> IF p \in todo' THEN podCache[p] ELSE NoPod]
  /\ same' = fresh \cap todo'
  /\ Unaffected /\ UNCHANGED <<pods, podCache, fresh, queued, timer, answer>>

\* markActiveContainers returns.
ZoneDone ==
  /\ Running /\ pc = "probe" /\ todo = {}
  /\ pc' = "list"
  /\ Unaffected
  /\ UNCHANGED <<pods, podCache, fresh, queued, timer, round, todo, listed, same, answer>>

\* Mutant of EndRound: no requeue, as other controllers end.
EndRoundForGood ==
  /\ Running /\ pc = "list" /\ round = {}
  /\ RoundOver
  /\ Unaffected /\ UNCHANGED <<pods, podCache, fresh, queued, timer>>

\* Mutant of EndRound: the default for a period of 0 is forgotten.
EndRoundAtDefault ==
  /\ Running /\ pc = "list" /\ round = {}
  /\ RoundOver
  /\ timer' = (timer \/ PeriodSeconds > 0)
  /\ Unaffected /\ UNCHANGED <<pods, podCache, fresh, queued>>

\* Requeue after the period; a negative one is no requeue.
EndRound ==
  /\ Running /\ pc = "list" /\ round = {}
  /\ RoundOver
  /\ timer' = (timer \/ PeriodSeconds >= 0)
  /\ Unaffected /\ UNCHANGED <<pods, podCache, fresh, queued>>

\* execContainerCmd: by name, so the answer is that of the pod there is now.
\* It has no timeout; whatever goes wrong on the way is a failed probe.
Probe(p) ==
  /\ Running /\ pc = "probe" /\ p \in todo
  /\ pods[p].exists => p \notin hung
  /\ pc' = "mark"
  /\ LET succeeds == pods[p].exists /\ <<answer.container, p>> \in healthy
         answered(ok) == answer' = [answer EXCEPT !.pod = p, !.id = pods[p].id,
                                                  !.ok = ok]
     IN \/ answered(succeeds) /\ left' = left
        \/ answered(FALSE) /\ Disturb("apierror")
  /\ UNCHANGED <<processVars, clusterVars, cacheVars, queued, timer, round, todo,
                 listed, same>>

\* The label that the answer calls for.
Wanted == LET pod == listed[answer.pod]
          IN IF answer.ok THEN pod.active \/ pod.ready ELSE FALSE

NextPod ==
  /\ pc' = "probe" /\ todo' = todo \ {answer.pod}
  /\ listed' = [listed EXCEPT ![answer.pod] = NoPod]
  /\ answer' = [NoAnswer EXCEPT !.container = answer.container]

MarkInPlace ==
  /\ Running /\ pc = "mark"
  /\ Wanted = listed[answer.pod].active
  /\ NextPod
  /\ same' = same \ {answer.pod}
  /\ Unaffected
  /\ UNCHANGED <<pods, podCache, fresh, queued, timer, round>>

\* Mutant of MarkPod: a patch of the label, on whatever version there is.
PatchPod ==
  /\ Running /\ pc = "mark"
  /\ Wanted # listed[answer.pod].active
  /\ pods[answer.pod].exists /\ Admits
  /\ StorePod(answer.pod, Mutated([pods[answer.pod] EXCEPT !.active = Wanted]))
  /\ NextPod
  /\ Unaffected
  /\ UNCHANGED <<podCache, queued, timer, round>>

\* updatePodLabels: an update of the listed version, which passes the webhook.
MarkPod ==
  /\ Running /\ pc = "mark"
  /\ Wanted # listed[answer.pod].active
  /\ answer.pod \in same /\ Admits
  /\ StorePod(answer.pod, Mutated([listed[answer.pod] EXCEPT !.active = Wanted]))
  /\ NextPod
  /\ Unaffected
  /\ UNCHANGED <<podCache, queued, timer, round>>

\* A conflict, a pod that is gone or a refused update ends the round: the pods
\* and zones after it keep their labels until the next one.
MarkFails ==
  /\ Running /\ pc = "mark"
  /\ Wanted # listed[answer.pod].active
  /\ ~(answer.pod \in same /\ Admits)
  /\ Retry
  /\ Unaffected /\ UNCHANGED <<pods, podCache, fresh, queued>>

\* Reading the QuarksStatefulSet or a list, or the update, fails.
CallFails ==
  /\ Running /\ pc \in {"list", "mark"}
  /\ Disturb("apierror")
  /\ Retry
  /\ UNCHANGED <<processVars, clusterVars, cacheVars, queued>>

-----------------------------------------------------------------------------
(* The process *)

NotYetRunning == UNCHANGED <<clusterVars, cacheVars, roundVars, queued, timer, pc, left>>

\* The new informers list what there is and report it as created.
Run ==
  /\ StartManager
  /\ podCache' = pods /\ fresh' = Pods
  /\ shown' = present /\ known' = (IF present THEN probes ELSE {}) /\ watch' = <<>>
  /\ queued' = (known' # {})
  /\ UNCHANGED <<clusterVars, roundVars, timer, pc, left>>

\* Queue, timer and round are gone.
Crash ==
  /\ Disturb("crash")
  /\ Exit
  /\ queued' = FALSE /\ timer' = FALSE
  /\ RoundOver
  /\ podCache' = NoPods /\ fresh' = {}
  /\ shown' = FALSE /\ known' = {} /\ watch' = <<>>
  /\ UNCHANGED clusterVars

LoseSecret ==
  /\ Disturb("secret")
  /\ SecretDeleted
  /\ UNCHANGED <<clusterVars, cacheVars, roundVars, queued, timer, pc>>

Process == \/ Startup /\ NotYetRunning
           \/ Run
           \/ Serve /\ NotYetRunning

-----------------------------------------------------------------------------
\* A QuarksStatefulSet as submitted, before the operator is installed.
Init ==
  /\ ProcessInit
  /\ present = TRUE /\ version = [z \in Zones |-> 0]
  /\ pods = NoPods /\ podCache = NoPods /\ fresh = {}
  /\ probes = Containers /\ shown = FALSE /\ known = {} /\ watch = <<>>
  /\ healthy \in {{}, Containers \X Pods} /\ hung = {}
  /\ queued = FALSE /\ timer = FALSE /\ pc = "idle"
  /\ round = {} /\ todo = {} /\ listed = NoPods /\ same = {}
  /\ answer = NoAnswer
  /\ left = MaxDisturbances

Round == \/ TimerFires \/ NotFound \/ NoProbe \/ ZoneDone \/ EndRound
         \/ MarkInPlace \/ MarkPod \/ MarkFails
         \/ \E c \in Containers : BeginRound(c)
         \/ \E z \in Zones : ListPods(z)
         \/ \E p \in Pods : Probe(p)
Informers == DeliverSpec \/ DeliverDeletion \/ \E p \in Pods : DeliverPod(p)
Cluster == \/ \E p \in Pods : CreatePod(p) \/ PodCollected(p) \/ PodReady(p)
           \/ \E z \in Zones : StatefulSetCollected(z)
Reconciler == \E z \in Zones : RaiseVersion(z)
Environment ==
  \/ \E p \in Pods : \/ PodGoes(p) \/ PodUnready(p) \/ ClientLabels(p) \/ Hangs(p)
                     \/ \E c \in Containers : AppSwitches(c, p)
  \/ \E cs \in SUBSET Containers : UpdateQsts(cs)
  \/ Delete \/ CallFails \/ Crash \/ LoseSecret

Next == Process \/ Round \/ Informers \/ Cluster \/ Reconciler \/ Environment

Spec == Init /\ [][Next]_vars

\* The process is restarted and gets on, its worker and its informers, one watch
\* each, run, and the cluster creates pods and collects StatefulSets; clients and
\* failures owe nothing.
Fairness ==
  /\ WF_vars(Process) /\ WF_vars(Round)
  /\ WF_vars(DeliverSpec \/ DeliverDeletion)
  /\ \A p \in Pods : WF_vars(DeliverPod(p)) /\ WF_vars(CreatePod(p))
  /\ \A z \in Zones : /\ WF_vars(version[z] = 0 /\ RaiseVersion(z))
                       /\ WF_vars(StatefulSetCollected(z))

LiveSpec == Spec /\ Fairness
=============================================================================
