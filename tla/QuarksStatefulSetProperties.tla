--------------------- MODULE QuarksStatefulSetProperties ---------------------
(***************************************************************************)
(* What the QuarksStatefulSet's reconcilers promise about the StatefulSets *)
(* they keep and about the status they report.                             *)
(***************************************************************************)
EXTENDS QuarksStatefulSet

\* Every variable stays within its type.
TypeOK ==
  /\ qsts \in QSTS /\ qcache \in QSTS
  /\ current \subseteq Readers /\ qevent \in BOOLEAN
  /\ secret \in 0..MaxSecret /\ secretCache \in 0..MaxSecret
  /\ sts \in [Zones -> StatefulSet] /\ stsCache \in [Zones -> StatefulSet]
  /\ unseen \subseteq Zones
  /\ queued \in BOOLEAN /\ timer \in {"none", "retry", "window"}
  /\ meltdown \in BOOLEAN
  /\ pc \in {"idle", "stamp", "zones"} /\ job \in Job
  /\ statusQueued \in BOOLEAN /\ dropped \in BOOLEAN /\ statusPc \in {"idle", "report"}
  /\ left \in 0..MaxDisturbances
  /\ lost \subseteq {"timer", "crash"} /\ served \subseteq Zones

\* s was made from nothing newer than t was.
Behind(s, t) ==
  s.version <= t.version /\ s.gen <= t.gen /\ s.secret <= t.secret

\* The zones are written in order, with versions counted in a cache that lags:
\* no zone is ever ahead of one before it, in version, spec or secret.
ZonesInOrder == \A y, z \in Zones : y < z => Behind(sts[z], sts[y])

\* The version number, computed from an old list, never goes back on a
\* StatefulSet, nor do the spec and the secret it was made from.
VersionsGoUp ==
  [][\A z \in Zones : Behind(sts[z], sts'[z])]_vars

\* The merge window: LastReconcile is stamped once, and no StatefulSet is
\* created before the window it opens is over.
StampedOnce ==
  [][/\ meltdown' /\ ~meltdown => ~qsts.stamped
     /\ meltdown' => \A z \in Zones : sts'[z] = Absent]_vars

\* Ready is not reported before a StatefulSet has had all its pods ready.
ReadyMeansServed == qsts.ready => served # {}

\* When the informer shows every StatefulSet of the highest version ready, Ready
\* is reported, or the status reconciler is about to, unless its last report
\* met a newer version of the QuarksStatefulSet and was dropped.
ReportIsDue ==
  LatestReady => qsts.ready \/ dropped \/ statusQueued \/ statusPc = "report"

\* Every zone of the last spec runs it, with the latest secret if the spec
\* asks for updates on configuration changes.
Applied ==
  \A z \in Zones : z < qsts.zones =>
    /\ sts[z].gen = qsts.gen
    /\ UpdateOnConfigChange => sts[z].secret = secret

\* An update is not forgotten: as long as a zone lacks the last spec or secret,
\* its event is still to be seen, or the key is queued or waits in a timer, or
\* the reconciler is at work on it, unless the operator was restarted or a timer
\* replaced.
NothingForgotten ==
  lost = {} /\ ~Applied =>
    \/ qevent
    \/ UpdateOnConfigChange /\ secretCache # secret
    \/ queued \/ timer # "none" \/ pc # "idle"

\* A creation is not forgotten, not even by a restart: unless the timer of the
\* window is lost, the window is open only while its timer runs, and as long as
\* there is no StatefulSet the key is queued or waits in a timer, or the
\* reconciler is at work on it.
CreationIsKept ==
  "timer" \notin lost =>
    /\ meltdown => timer = "window"
    /\ (\A z \in Zones : ~Exists(z)) => queued \/ timer # "none" \/ pc # "idle"

\* Whatever conflicts and fails, the last spec and secret reach every zone, if
\* the operator is not restarted and the timer of the window is not replaced.
UpdatesAreApplied == [](lost = {}) /\ <>(secret > 0) => <>[]Applied

\* The same without the condition on the timer.
StatefulSetsAreCreated ==
  []("crash" \notin lost) /\ <>(secret > 0) => <>[](\E z \in Zones : Exists(z))

-----------------------------------------------------------------------------
(* Refinement: the zones are a chain. *)

Offered     == [gen |-> qsts.gen, zones |-> qsts.zones, secret |-> secret]
MergeWindow == IF ~qsts.stamped THEN "ahead" ELSE IF meltdown THEN "open" ELSE "over"
Made        == [z \in Zones |-> [version |-> sts[z].version, gen |-> sts[z].gen,
                                 secret |-> sts[z].secret]]

Chain == INSTANCE ZoneChain WITH
  offer <- Offered, window <- MergeWindow, content <- Made, ready <- qsts.ready

\* Every behaviour of clients, informers, queue and reconcilers is one of
\* ZoneChain.
ImplementsZoneChain == Chain!Spec

-----------------------------------------------------------------------------
(* The inductive invariant *)

\* Copies are old versions of what they copy, and the server's StatefulSets are
\* at most one version above the highest the informer shows.
CopiesInv ==
  /\ qcache.gen <= qsts.gen /\ secretCache <= secret
  /\ \A z \in Zones :
       /\ z \notin unseen => stsCache[z] = sts[z]
       /\ Behind(stsCache[z], sts[z])
       /\ sts[z].version <= MaxVersion(stsCache) + 1
       /\ sts[z].gen <= qcache.gen /\ sts[z].secret <= secretCache

\* While the zones are written, none is above what is being written, and those
\* already written have it.
JobInv ==
  pc = "zones" =>
    /\ job.zone < job.zones
    /\ job.version <= MaxVersion(stsCache) + 1
    /\ job.gen <= qcache.gen /\ job.secret <= secretCache
    /\ \A z \in Zones : /\ Behind(sts[z], job)
                        /\ z < job.zone => Behind(job, sts[z])

\* Before LastReconcile is stamped, and in the window it opens, there is no
\* StatefulSet and none is being written; a reconciler that may still store a
\* stamp has read a version without one.
WindowInv ==
  /\ "informer" \in current => qcache = qsts
  /\ qcache.stamped => qsts.stamped
  /\ pc = "stamp" /\ "worker" \in current => ~qsts.stamped
  /\ meltdown \/ ~qsts.stamped =>
       pc # "zones" /\ \A z \in Zones : sts[z] = Absent

\* Whatever copy shows a StatefulSet ready, it has been; a report on its way
\* rests on one that was.
ServedInv ==
  /\ \A z \in Zones : sts[z].ready \/ stsCache[z].ready => z \in served
  /\ statusPc = "report" => served # {}
  /\ ReadyMeansServed

\* No key is on its way to the reconciler.
Unqueued == ~queued /\ timer = "none"

\* What is made from a version of the spec and the secret is what is made from
\* the informer's copies.
UpToDate(s) ==
  s.gen = qcache.gen /\ (UpdateOnConfigChange => s.secret = secretCache)

\* A spec that the informer has not seen is announced, and every spec is stored
\* once.  Unless a key may have been lost: the window is open only while its
\* timer runs, and without a key on its way the zones in hand, or, with none in
\* hand, all zones are made from what the informer shows.
TriggerInv ==
  /\ ~qevent => qcache.gen = qsts.gen
  /\ qcache.gen = qsts.gen => qcache.zones = qsts.zones
  /\ pc = "zones" => job.secret > 0
  /\ \A z \in Zones : sts[z].gen > 0 => sts[z].secret > 0
  /\ lost = {} =>
       /\ meltdown => timer = "window"
       /\ pc = "zones" /\ Unqueued => UpToDate(job) /\ job.zones = qcache.zones
       /\ pc = "idle" /\ Unqueued =>
            \A z \in Zones : z < qcache.zones => UpToDate(sts[z])

\* What the zones are made from has a version, and those named by the newest
\* spec are the ones written for it.
SourceInv ==
  pc = "zones" => /\ job.version > 0
                  /\ job.gen = qsts.gen => job.zones = qsts.zones

\* The inductive invariant: types, copies, the job in hand, the order, the merge
\* window, what a report rests on, the triggers and the source of the zones.
IInv ==
  /\ TypeOK /\ CopiesInv /\ JobInv /\ ZonesInOrder
  /\ WindowInv /\ ServedInv /\ TriggerInv /\ SourceInv
=============================================================================
