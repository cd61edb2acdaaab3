-------------------- MODULE StatefulSetRolloutProperties --------------------
(***************************************************************************)
(* What a canary rollout promises, and the inductive invariant the proofs  *)
(* of its safety use.  A rollout whose history variable taint is empty has *)
(* met none of the hazards that break the promise: a decision written over *)
(* a version it was not taken on ("overtaken"), a pod judged by a status   *)
(* that does not know the template yet ("lagging"), the unchecked step of  *)
(* a rollout that also adds pods ("upscale"), and the owning               *)
(* QuarksStatefulSet replacing the annotations ("reapply").                *)
(***************************************************************************)
EXTENDS StatefulSetRollout

-----------------------------------------------------------------------------
(* Safety *)

\* Every variable stays within its type: in particular no write of the
\* reconciler stores a partition the API server would refuse.
TypeOK ==
  /\ sts \in StatefulSet /\ cache \in StatefulSet
  /\ stale \in BOOLEAN /\ event \in BOOLEAN
  /\ pods \in [Ordinals -> Pod] /\ podCache \in [Ordinals -> Pod]
  /\ unsynced \in BOOLEAN /\ queued \in BOOLEAN
  /\ timer \in Int /\ now \in 0..MaxTime
  /\ pc \in {"idle", "write", "cleanup"}
  /\ dec \in [base : Bases, partition : -1..MaxReplicas, state : States,
              after : Int, requeue : BOOLEAN]
  /\ left \in 0..MaxDisturbances
  /\ first \in 0..MaxReplicas
  /\ passed \subseteq 0..MaxReplicas
  /\ taint \subseteq Taints

\* The reconciler walks the partition down without skipping an ordinal: those
\* it has moved past are the ones between the partition and its start, and the
\* last one only once the rollout is Done.
WalkInOrder ==
  taint = {} =>
    passed = {i \in Ordinals : sts.partition < i /\ i < first}
               \cup (IF sts.state = "Done" /\ first > 0 THEN {0} ELSE {})

\* No pod the reconciler has moved past runs an older template, whatever fails
\* or is re-created later in the rollout.
PassedPodsUpdated ==
  taint = {} => \A i \in passed : pods[i].rev \in {0, sts.rev}

\* A rollout that is Done leaves no pod of the walk on an older template.
DoneMeansUpdated ==
  taint = {} /\ sts.state = "Done" =>
    \A i \in Ordinals : i < first => pods[i].rev \in {0, sts.rev}

\* Pods the partition still protects do not run the new template, unless every
\* pod already ran it.
CanaryIsolation ==
  "overtaken" \notin taint =>
    \A i \in Ordinals : i < sts.partition /\ pods[i].rev = sts.rev
                          => sts.currentRevision = sts.rev

\* A template whose pods never become ready stays on the canary and on the
\* pods the webhook's partition never protected, unless the StatefulSet
\* controller took it for complete.
CanaryContainsBadTemplate ==
  taint = {} /\ sts.rev \in BadRevisions /\ sts.currentRevision # sts.rev =>
    \A i \in Ordinals : pods[i].rev = sts.rev => i >= first - 1

\* Which it does only when there is no pod at all: with every pod gone, the
\* counters of an update that has reached nobody agree.
BadIsCurrentOfNobody ==
  [][sts'.currentRevision # sts.currentRevision
       /\ sts'.currentRevision \in BadRevisions
       => \A i \in Ordinals : ~Exists(i)]_vars

\* An ended rollout is reopened by a new template only (or by a write that
\* was decided on another version).
EndedStaysEnded ==
  [][sts.state \in {"Done", "Failed"} /\ sts'.state # sts.state
       => sts'.rev # sts.rev \/ taint' \cap {"overtaken", "reapply"} # {}]_vars

\* Within a rollout the partition only goes down, one ordinal at a time.
OneStepDown ==
  [][sts'.partition # sts.partition
       => \/ sts'.partition = sts.partition - 1
          \/ sts'.rev # sts.rev
          \/ taint' \cap {"overtaken", "reapply"} # {}]_vars

\* "The purpose of this controller is to remove the partition of the
\* statefulset if the canary succeeds": the partition does not go below the
\* canary while the canary still runs an older template.
CanaryGate ==
  first > 0 /\ sts.partition < first - 1 => pods[first - 1].rev \in {0, sts.rev}

\* The gate holds in every rollout that meets none of the four hazards.
CanaryGateHolds == taint = {} => CanaryGate

\* Under an update watch time a rollout that is pending or past its canary is
\* not left to the next change of its counters: its event is still to be seen,
\* or the key is queued or waits in the timer, or the reconciler is at work on
\* it, whatever conflicts or fails short of a restart.
WatchIsKept ==
  UpdateWatch > 0 /\ "crash" \notin Disturbances /\ "overtaken" \notin taint
    => (sts.state \in {"Pending", "Rollout"} =>
          event \/ queued \/ timer # NoTimer \/ pc # "idle")

(* The promise of the gate when one hazard is let in. *)

\* The gate, even if a client's update lands while a reconcile is in flight.
GateWhenOvertaken == taint \subseteq {"overtaken"} => CanaryGate

\* The gate, even if the rollout also adds replicas.
GateWhenUpscaled == taint \subseteq {"upscale"} => CanaryGate

-----------------------------------------------------------------------------
(* Refinement: while it meets no hazard, a rollout is a canary walk. *)

OnWalk(x, off) == IF taint = {} THEN x ELSE off

Walk == INSTANCE CanaryWalk WITH
  phase     <- OnWalk(sts.state, "off"),
  from      <- OnWalk(first, 0),
  partition <- OnWalk(sts.partition, 0),
  updated   <- OnWalk({i \in Ordinals : pods[i].rev \in {0, sts.rev}}, Ordinals)

\* Every behaviour of the webhook, the reconciler, the StatefulSet controller
\* and the pods is one of CanaryWalk.
ImplementsCanaryWalk == Walk!Spec

-----------------------------------------------------------------------------
(* Liveness *)

Ended == sts.state \in {"Done", "Failed", "none"}

\* The status the webhook took the partition from had counted the pods: there
\* are some, and no unready pod of an older template is above the partition.
Counted ==
  sts.state = "Pending" =>
    /\ sts.partition > 0
    /\ \A i \in Ordinals : i >= sts.partition /\ Exists(i) =>
         pods[i].ready \/ pods[i].rev = sts.rev

\* No decision is written over a version it was not taken on either.
Orderly == "overtaken" \notin taint /\ Counted

RolledOut ==
  /\ sts.state = "Done"
  /\ \A i \in Ordinals : i < sts.replicas =>
       pods[i] = [rev |-> sts.rev, ready |-> TRUE]

\* With both watch times set, every rollout ends: AnnotationUpdateWatchTime
\* "is the max time for the complete update".
WatchedUpdateEnds == []Orderly => (~Ended ~> Ended)

\* A good template reaches every pod, without any watch time to poll for it.
GoodTemplateRollsOut ==
  []Orderly /\ <>[](sts.rev \notin BadRevisions) => <>[]RolledOut

\* The same for an update that arrives before the status counts the first pod.
EarlyUpdateRollsOut ==
  []("overtaken" \notin taint) /\ <>[](sts.rev \notin BadRevisions)
    => <>[]RolledOut

-----------------------------------------------------------------------------
(* The inductive invariant behind the safety properties *)

\* The cache is a version the server has held, and no revision is ahead of the
\* template that defines it.
CacheInv ==
  /\ ~stale => cache = sts /\ ~event
  /\ sts.updateRevision <= sts.rev /\ sts.currentRevision <= sts.rev
  /\ cache.updateRevision <= cache.rev /\ cache.rev <= sts.rev
  /\ dec.base.rev <= sts.rev
  /\ \A i \in Ordinals : pods[i].rev <= sts.rev /\ podCache[i].rev <= sts.rev

\* Once the update revision is the current one, every pod has it.
CurrentInv ==
  sts.currentRevision = sts.rev =>
    \A i \in Ordinals : pods[i].rev \in {0, sts.rev}

\* A pod seen with the new template does not go back to an older one; below
\* the partition neither view shows it.
PodInv ==
  "overtaken" \notin taint => \A i \in Ordinals :
    /\ i >= sts.partition /\ podCache[i].rev = sts.rev
         => pods[i].rev \in {0, sts.rev}
    /\ i < sts.partition /\ sts.rev \in {pods[i].rev, podCache[i].rev}
         => sts.currentRevision = sts.rev

\* Where a rollout stands in its walk.
PhaseInv ==
  taint = {} =>
    /\ sts.state # "none"
    /\ sts.state = "Pending" => sts.partition = first
    /\ sts.state = "Canary" => sts.partition = first - 1
    /\ sts.state = "Rollout" => sts.partition < first
    /\ sts.state = "CanaryUpscale" => sts.partition = 0 /\ first = 0
    /\ sts.state = "Done" => sts.partition = 0

\* What a decision may be, given the version it was taken on.
DecisionInv ==
  pc = "write" =>
    LET b == dec.base IN
    /\ b.state \notin {"Done", "Failed"}
    /\ \/ dec.state = "Failed" /\ dec.partition = b.partition
       \/ /\ dec.state = "Done" /\ dec.partition = 0 /\ b.partition = 0
          /\ b.state \in {"CanaryUpscale", "Canary", "Rollout"}
       \/ /\ dec.state = "Rollout" /\ dec.partition = b.partition - 1
          /\ b.state \in {"CanaryUpscale", "Canary", "Rollout"}
       \/ /\ dec.state = "Canary" /\ dec.partition = b.partition - 1
          /\ b.state = "Pending"
       \/ /\ dec.state = "CanaryUpscale" /\ b.state = "Pending"
          /\ \/ dec.partition = b.partition - 1
             \/ dec.partition = 0 /\ b.partition = 0

\* A decision to move past a pod saw it updated, and it still is.
WitnessInv ==
  /\ pc = "write" /\ taint = {} /\ MovesPast /\ ~Overtaken
  /\ dec.base.updateRevision = dec.base.rev
  => /\ dec.base.partition \in Ordinals
     /\ pods[dec.base.partition].rev \in {0, sts.rev}

WalkInv == /\ CacheInv /\ CurrentInv /\ PodInv /\ PhaseInv
           /\ DecisionInv /\ WitnessInv /\ WalkInOrder /\ PassedPodsUpdated

\* Pods of a bad template are ready in no view, so no decision moves past one.
BadPodsInv ==
  \A i \in Ordinals : \A pod \in {pods[i], podCache[i]} :
    pod.ready => pod.rev \notin BadRevisions
BadDecisionInv ==
  pc = "write" /\ MovesPast => dec.base.updateRevision \notin BadRevisions

\* A rollout of a bad template does not get below its canary.
BadWalkInv ==
  taint = {} /\ sts.rev \in BadRevisions => sts.partition >= first - 1

BadInv == BadPodsInv /\ BadDecisionInv /\ BadWalkInv

\* A decision for a rollout that goes on comes with a poll.
PollInv ==
  UpdateWatch > 0 /\ pc # "idle" /\ dec.state \in {"Rollout", "CanaryUpscale"}
    => dec.after > 0

\* A rollout that nothing announces is in the cache in a state from which a
\* reconcile goes on or polls; if neither event, queue nor timer brings the key
\* back, a reconcile is about to write, or cleans up and polls.
KeptInv ==
  /\ sts.state = "Pending" => event \/ cache.state = "Pending"
  /\ sts.state = "Rollout" =>
       event \/ cache.state \in {"CanaryUpscale", "Canary", "Rollout"}
  /\ sts.state = "Rollout" /\ pc = "write" /\ dec.state = "Canary" =>
       event \/ queued
  /\ sts.state \in {"Pending", "Rollout"} =>
       \/ event \/ queued \/ timer # NoTimer \/ pc = "write"
       \/ pc = "cleanup" /\ dec.state \in {"Rollout", "CanaryUpscale"}

WatchInv ==
  UpdateWatch > 0 /\ "crash" \notin Disturbances /\ "overtaken" \notin taint => KeptInv

\* The inductive invariant: every part above and the types.
IInv == TypeOK /\ WalkInv /\ BadInv /\ PollInv /\ WatchInv
=============================================================================
