-------------------------- MODULE QuarksStatefulSet --------------------------
(***************************************************************************)
(* From a QuarksStatefulSet to its StatefulSets, one per zone: the         *)
(* reconciler that merges the triggers of the first seconds, numbers the   *)
(* versions and writes the zones one after the other; the predicates that  *)
(* decide what triggers it; and the reconciler that reports Ready.         *)
(*                                                                         *)
(* Everything is read from informer caches.  A StatefulSet is read again   *)
(* inside CreateOrUpdate and updated at the version read there: as in      *)
(* StatefulSetRollout that second read and the update are one action,      *)
(* which fails when the cache is behind the server.                        *)
(***************************************************************************)
EXTENDS Integers, FiniteSets, FiniteSetsExt

CONSTANTS
  MaxZones,              \* bound: the most zones a spec names
  ZoneCounts,            \* how many zones a spec may name (none counts as 1)
  MaxGen,                \* bound: how many specs are applied
  InitialSecrets,        \* versions of the mounted secret at first; 0: none yet
  MaxSecret,             \* bound: its last version
  UpdateOnConfigChange,  \* spec.updateOnConfigChange
  UsesConfigMap,         \* the pod template refers to a ConfigMap
  Disturbances,          \* what clients and failures may do ...
  MaxDisturbances        \* ... and the bound on how often

ASSUME ConstantsAssumption ==
  /\ MaxZones \in Nat \ {0}
  /\ ZoneCounts \subseteq 1..MaxZones /\ ZoneCounts # {}
  /\ MaxGen \in Nat \ {0}
  /\ MaxSecret \in Nat
  /\ InitialSecrets \subseteq 0..MaxSecret /\ InitialSecrets # {}
  /\ UpdateOnConfigChange \in BOOLEAN /\ UsesConfigMap \in BOOLEAN
  /\ Disturbances \subseteq {"spec", "touch", "secret", "config", "unready",
                             "apierror", "crash"}
  /\ MaxDisturbances \in Nat

VARIABLES
  qsts,         \* the QuarksStatefulSet at the API server
  qcache,       \* the informer's copy of it
  current,      \* who holds the server's version of it
  qevent,       \* an update the informer has not seen passes the predicate
  secret,       \* latest version of the mounted secret at the API server
  secretCache,  \* ... and in the informer's copy
  sts,          \* the StatefulSets at the API server, by zone
  stsCache,     \* the informer's copies
  unseen,       \* zones with a version the informer has not seen
  queued,       \* the key is in the reconciler's work queue
  timer,        \* the delaying queue's entry for it, by what it waits for
  meltdown,     \* the window after LastReconcile is not over
  pc, job,      \* the reconciler: where it is, what it is writing
  statusQueued, statusPc,  \* the status reconciler
  left,         \* disturbances still allowed
  dropped,      \* history: the last report of Ready was dropped
  lost,         \* history: what may have lost a trigger
  served        \* history: zones that have been ready

qstsVars   == <<qsts, qcache, current, qevent>>
secretVars == <<secret, secretCache>>
stsVars    == <<sts, stsCache, unseen>>
workerVars == <<pc, job>>
statusVars == <<statusQueued, statusPc, dropped>>
vars == <<qstsVars, secretVars, stsVars, queued, timer, meltdown, workerVars,
          statusVars, left, lost, served>>

Zones   == 0..(MaxZones - 1)
Readers == {"informer", "worker", "status"}

Absent == [version |-> 0, gen |-> 0, secret |-> 0, ready |-> FALSE]
NoJob  == [version |-> 0, gen |-> 0, secret |-> 0, zones |-> 0, zone |-> 0]

QSTS == [gen : 1..MaxGen, zones : 1..MaxZones, stamped : BOOLEAN, ready : BOOLEAN]
StatefulSet == [version : Nat, gen : 0..MaxGen, secret : 0..MaxSecret,
                ready : BOOLEAN]
Job == [version : Nat, gen : 0..MaxGen, secret : 0..MaxSecret,
        zones : 0..MaxZones, zone : Zones]

Exists(z) == sts[z].version > 0
Disturb(kind) == kind \in Disturbances /\ left > 0 /\ left' = left - 1

-----------------------------------------------------------------------------
(* API server, informers and queue *)

\* The server accepts a version of the QuarksStatefulSet: all copies are old.
\* The predicate passes changes of spec and labels, not those of the status.
StoreQsts(q) ==
  /\ qsts' = q
  /\ current' = {}
  /\ qevent' = (qevent \/ q.gen # qsts.gen)
  /\ UNCHANGED qcache

\* A reader takes the informer's copy.
ReadQsts(reader) ==
  current' = IF "informer" \in current THEN current \cup {reader}
                                       ELSE current \ {reader}

StoreSts(z, s) ==
  /\ sts' = [sts EXCEPT ![z] = s]
  /\ unseen' = unseen \cup {z}
  /\ UNCHANGED stsCache

\* AddAfter and AddRateLimited: one entry per key, the earlier deadline wins.
Arm(t) ==
  /\ timer' = IF timer = "retry" THEN timer ELSE t
  /\ lost' = IF {timer, t} = {"window", "retry"} THEN lost \cup {"timer"}
                                                 ELSE lost

DeliverQsts ==
  /\ "informer" \notin current
  /\ qcache' = qsts
  /\ current' = current \cup {"informer"}
  /\ queued' = (queued \/ qevent) /\ qevent' = FALSE
  /\ UNCHANGED <<qsts, secretVars, stsVars, timer, meltdown, workerVars, statusVars,
                 left, lost, served>>

\* Mutant of DeliverStatefulSets: create events are filtered, as they are for
\* the rollout.
DeliverUpdates ==
  /\ unseen # {}
  /\ stsCache' = sts /\ unseen' = {}
  /\ statusQueued' = (statusQueued \/ \E z \in unseen : stsCache[z].version > 0)
  /\ UNCHANGED <<qstsVars, secretVars, sts, queued, timer, meltdown, workerVars,
                 statusPc, dropped, left, lost, served>>

\* Every StatefulSet event makes the status reconciler look.
DeliverStatefulSets ==
  /\ unseen # {}
  /\ stsCache' = sts /\ unseen' = {}
  /\ statusQueued' = TRUE
  /\ UNCHANGED <<qstsVars, secretVars, sts, queued, timer, meltdown, workerVars,
                 statusPc, dropped, left, lost, served>>

\* Mutant of SecretOutdated: off by one, the first new version is passed over.
SecretLongOutdated(version) == UpdateOnConfigChange /\ version > 2

\* GetReconciles: who is reconciled for a new version of the secret.  Specs
\* name version 1, which every later one outdates.
SecretOutdated(version) == UpdateOnConfigChange /\ version > 1

DeliverSecret ==
  /\ secretCache # secret
  /\ secretCache' = secret
  /\ queued' = (queued \/ SecretOutdated(secret))
  /\ UNCHANGED <<qstsVars, secret, stsVars, timer, meltdown, workerVars, statusVars,
                 left, lost, served>>

TimerFires ==
  /\ \/ timer = "retry"
     \/ timer = "window" /\ ~meltdown
  /\ timer' = "none" /\ queued' = TRUE
  /\ UNCHANGED <<qstsVars, secretVars, stsVars, meltdown, workerVars, statusVars,
                 left, lost, served>>

WindowEnds ==
  /\ meltdown /\ meltdown' = FALSE
  /\ UNCHANGED <<qstsVars, secretVars, stsVars, queued, timer, workerVars, statusVars,
                 left, lost, served>>

-----------------------------------------------------------------------------
(* ReconcileQuarksStatefulSet.Reconcile *)

TakeKey == pc = "idle" /\ queued /\ queued' = FALSE
Done    == pc' = "idle" /\ job' = NoJob
Error   == Done /\ Arm("retry")

\* Mutant of SecretMissing: the key is not put back.
SecretMissingForgotten ==
  /\ TakeKey
  /\ secretCache = 0
  /\ UNCHANGED <<qstsVars, secretVars, stsVars, timer, meltdown, workerVars,
                 statusVars, left, lost, served>>

\* The mounted secret is not there yet: the key comes back later.
SecretMissing ==
  /\ TakeKey
  /\ secretCache = 0
  /\ Arm("retry")
  /\ UNCHANGED <<qstsVars, secretVars, stsVars, meltdown, workerVars, statusVars,
                 left, served>>

\* The first reconcile stamps LastReconcile and comes back after the window.
FirstReconcile ==
  /\ TakeKey
  /\ secretCache > 0 /\ ~qcache.stamped
  /\ pc' = "stamp"
  /\ ReadQsts("worker")
  /\ UNCHANGED <<qsts, qcache, qevent, secretVars, stsVars, timer, meltdown, job,
                 statusVars, left, lost, served>>

\* Mutant of Stamp: the status is written whatever the version read.
StampBlindly ==
  /\ pc = "stamp" /\ pc' = "idle"
  /\ StoreQsts([qsts EXCEPT !.stamped = TRUE])
  /\ meltdown' = TRUE
  /\ Arm("window")
  /\ UNCHANGED <<secretVars, stsVars, queued, job, statusVars, left, served>>

Stamp ==
  /\ pc = "stamp" /\ pc' = "idle"
  /\ "worker" \in current
  /\ StoreQsts([qsts EXCEPT !.stamped = TRUE])
  /\ meltdown' = TRUE
  /\ Arm("window")
  /\ UNCHANGED <<secretVars, stsVars, queued, job, statusVars, left, served>>

StampConflicts ==
  /\ pc = "stamp"
  /\ "worker" \notin current
  /\ Error
  /\ UNCHANGED <<qstsVars, secretVars, stsVars, queued, meltdown, statusVars, left,
                 served>>

InMeltdown ==
  /\ TakeKey
  /\ secretCache > 0 /\ qcache.stamped /\ meltdown
  /\ UNCHANGED <<qstsVars, secretVars, stsVars, timer, meltdown, workerVars,
                 statusVars, left, lost, served>>

\* GetMaxStatefulSetVersion, over the informer's copies; 0 without any.
MaxVersion(view) == Max({view[z].version : z \in Zones})

\* Mutant of Calculate: versions restart with every new spec.
CalculateFromOne ==
  /\ TakeKey
  /\ secretCache > 0 /\ qcache.stamped /\ ~meltdown
  /\ pc' = "zones"
  /\ job' = [version |-> IF stsCache[0].gen # qcache.gen THEN 1
                         ELSE MaxVersion(stsCache) + 1,
             gen |-> qcache.gen, secret |-> secretCache,
             zones |-> qcache.zones, zone |-> 0]
  /\ UNCHANGED <<qstsVars, secretVars, stsVars, timer, meltdown, statusVars, left,
                 lost, served>>

\* calculateDesiredStatefulSets: one object per zone, with the next version.
Calculate ==
  /\ TakeKey
  /\ secretCache > 0 /\ qcache.stamped /\ ~meltdown
  /\ pc' = "zones"
  /\ job' = [version |-> MaxVersion(stsCache) + 1, gen |-> qcache.gen,
             secret |-> secretCache, zones |-> qcache.zones, zone |-> 0]
  /\ UNCHANGED <<qstsVars, secretVars, stsVars, timer, meltdown, statusVars, left,
                 lost, served>>

Desired(s) == [s EXCEPT !.version = job.version, !.gen = job.gen,
                        !.secret = job.secret]
InPlace    == stsCache[job.zone] = Desired(stsCache[job.zone])

\* Mutant of NextZone: the loop runs one zone too far.
NextZoneInclusive ==
  IF job.zone < job.zones
    THEN job' = [job EXCEPT !.zone = @ + 1] /\ UNCHANGED pc
    ELSE Done

NextZone ==
  IF job.zone + 1 < job.zones
    THEN job' = [job EXCEPT !.zone = @ + 1] /\ UNCHANGED pc
    ELSE Done

\* createStatefulSet: CreateOrUpdate of one zone.
ZoneInPlace ==
  /\ pc = "zones" /\ InPlace
  /\ NextZone
  /\ UNCHANGED <<qstsVars, secretVars, stsVars, queued, timer, meltdown, statusVars,
                 left, lost, served>>

ZoneWritten ==
  /\ pc = "zones" /\ ~InPlace /\ job.zone \notin unseen
  /\ StoreSts(job.zone, Desired(sts[job.zone]))
  /\ NextZone
  /\ UNCHANGED <<qstsVars, secretVars, queued, timer, meltdown, statusVars, left,
                 lost, served>>

\* Mutants of ZoneConflicts: the error is logged and the next zone written, or
\* logged and forgotten as the status reconciler does.
ZoneSkipped ==
  /\ pc = "zones" /\ ~InPlace /\ job.zone \in unseen
  /\ NextZone
  /\ UNCHANGED <<qstsVars, secretVars, stsVars, queued, timer, meltdown, statusVars,
                 left, lost, served>>
ZoneForgotten ==
  /\ pc = "zones" /\ ~InPlace /\ job.zone \in unseen
  /\ Done
  /\ UNCHANGED <<qstsVars, secretVars, stsVars, queued, timer, meltdown, statusVars,
                 left, lost, served>>

\* A conflict, or AlreadyExists for a StatefulSet the cache does not show.
ZoneConflicts ==
  /\ pc = "zones" /\ ~InPlace /\ job.zone \in unseen
  /\ Error
  /\ UNCHANGED <<qstsVars, secretVars, stsVars, queued, meltdown, statusVars, left,
                 served>>

\* Any API call of the reconciler may fail.
APIError ==
  /\ Disturb("apierror")
  /\ pc # "idle"
  /\ Error
  /\ UNCHANGED <<qstsVars, secretVars, stsVars, queued, meltdown, statusVars, served>>

-----------------------------------------------------------------------------
(* ReconcileQuarksStatefulSetStatus.Reconcile *)

\* Mutant of LatestReady: the StatefulSets' readiness is not compared.
LatestExists == \E z \in Zones : stsCache[z].version > 0

\* Every StatefulSet of the highest version has all its replicas ready; a
\* QuarksStatefulSet without any is not ready.
LatestReady ==
  LET latest == {z \in Zones : stsCache[z].version = MaxVersion(stsCache)}
  IN \A z \in latest : stsCache[z].version > 0 /\ stsCache[z].ready

StatusReads ==
  /\ statusQueued /\ statusPc = "idle"
  /\ statusQueued' = FALSE /\ dropped' = FALSE
  /\ IF LatestReady THEN statusPc' = "report" /\ ReadQsts("status")
                    ELSE UNCHANGED <<statusPc, current>>
  /\ UNCHANGED <<qsts, qcache, qevent, secretVars, stsVars, queued, timer, meltdown,
                 workerVars, left, lost, served>>

\* The update of the status; its failure is logged and forgotten.
StatusReports ==
  /\ statusPc = "report" /\ statusPc' = "idle"
  /\ IF "status" \in current /\ ~qsts.ready
       THEN StoreQsts([qsts EXCEPT !.ready = TRUE]) /\ UNCHANGED dropped
       ELSE dropped' = ("status" \notin current) /\ UNCHANGED qstsVars
  /\ UNCHANGED <<secretVars, stsVars, queued, timer, meltdown, workerVars,
                 statusQueued, left, lost, served>>

-----------------------------------------------------------------------------
(* Clients, the StatefulSets' pods, and restarts *)

UpdateSpec(n) ==
  /\ Disturb("spec")
  /\ qsts.gen < MaxGen
  /\ StoreQsts([qsts EXCEPT !.gen = @ + 1, !.zones = n])
  /\ UNCHANGED <<secretVars, stsVars, queued, timer, meltdown, workerVars, statusVars,
                 lost, served>>

\* A client changes an annotation: a new version that triggers nothing.
Touch ==
  /\ Disturb("touch")
  /\ StoreQsts(qsts)
  /\ UNCHANGED <<secretVars, stsVars, queued, timer, meltdown, workerVars, statusVars,
                 lost, served>>

NewSecret ==
  /\ Disturb("secret")
  /\ secret < MaxSecret
  /\ secret' = secret + 1
  /\ UNCHANGED <<qstsVars, secretCache, stsVars, queued, timer, meltdown, workerVars,
                 statusVars, lost, served>>

\* The data of the ConfigMap changes: the reconciler runs, but nothing of the
\* ConfigMap enters the pod template.
ConfigMapChanges ==
  /\ Disturb("config")
  /\ UsesConfigMap /\ UpdateOnConfigChange
  /\ queued' = TRUE
  /\ UNCHANGED <<qstsVars, secretVars, stsVars, timer, meltdown, workerVars,
                 statusVars, lost, served>>

BecomesReady(z) ==
  /\ Exists(z) /\ ~sts[z].ready
  /\ StoreSts(z, [sts[z] EXCEPT !.ready = TRUE])
  /\ served' = served \cup {z}
  /\ UNCHANGED <<qstsVars, secretVars, queued, timer, meltdown, workerVars, statusVars,
                 left, lost>>

LosesReady(z) ==
  /\ Disturb("unready")
  /\ sts[z].ready
  /\ StoreSts(z, [sts[z] EXCEPT !.ready = FALSE])
  /\ UNCHANGED <<qstsVars, secretVars, queued, timer, meltdown, workerVars, statusVars,
                 lost, served>>

\* A restart: queues, timers (that of an open window too) and reconciles in
\* flight are gone and every object is reported as created.  The predicates pass a QuarksStatefulSet without
\* StatefulSets, any ConfigMap, and an outdating secret.
Crash ==
  /\ Disturb("crash")
  /\ Done /\ statusPc' = "idle" /\ timer' = "none"
  /\ qcache' = qsts /\ current' = {"informer"} /\ qevent' = FALSE
  /\ secretCache' = secret
  /\ stsCache' = sts /\ unseen' = {}
  /\ queued' = \/ \A z \in Zones : ~Exists(z)
               \/ UsesConfigMap /\ UpdateOnConfigChange
               \/ SecretOutdated(secret)
  /\ statusQueued' = \E z \in Zones : Exists(z)
  /\ dropped' = FALSE
  /\ lost' = lost \cup (IF meltdown THEN {"crash", "timer"} ELSE {"crash"})
  /\ UNCHANGED <<qsts, secret, sts, meltdown, served>>

-----------------------------------------------------------------------------
\* A QuarksStatefulSet just created, its create event in the queue.
Init ==
  /\ qsts \in [gen : {1}, zones : ZoneCounts, stamped : {FALSE}, ready : {FALSE}]
  /\ qcache = qsts /\ current = {"informer"} /\ qevent = FALSE
  /\ secret \in InitialSecrets /\ secretCache = secret
  /\ sts = [z \in Zones |-> Absent] /\ stsCache = sts /\ unseen = {}
  /\ queued = TRUE /\ timer = "none" /\ meltdown = FALSE
  /\ pc = "idle" /\ job = NoJob
  /\ statusQueued = FALSE /\ statusPc = "idle" /\ dropped = FALSE
  /\ left = MaxDisturbances
  /\ lost = {} /\ served = {}

Reconciler ==
  \/ SecretMissing \/ FirstReconcile \/ Stamp \/ StampConflicts \/ InMeltdown
  \/ Calculate \/ ZoneInPlace \/ ZoneWritten \/ ZoneConflicts
StatusReconciler == StatusReads \/ StatusReports
Kubelet == \E z \in Zones : BecomesReady(z)
Environment ==
  \/ \E n \in ZoneCounts : UpdateSpec(n)
  \/ Touch \/ NewSecret \/ ConfigMapChanges
  \/ \E z \in Zones : LosesReady(z)
  \/ APIError \/ Crash

Next ==
  \/ DeliverQsts \/ DeliverStatefulSets \/ DeliverSecret \/ TimerFires \/ WindowEnds
  \/ Reconciler \/ StatusReconciler \/ Kubelet \/ Environment

Spec == Init /\ [][Next]_vars

\* Workers, informers, timers and the kubelet keep running.
LiveSpec ==
  /\ Spec
  /\ WF_vars(DeliverQsts) /\ WF_vars(DeliverStatefulSets) /\ WF_vars(DeliverSecret)
  /\ WF_vars(TimerFires) /\ WF_vars(WindowEnds)
  /\ WF_vars(Reconciler) /\ WF_vars(StatusReconciler) /\ WF_vars(Kubelet)

=============================================================================
