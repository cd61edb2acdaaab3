------------------------------ MODULE CanaryWalk ------------------------------
(***************************************************************************)
(* What a canary rollout promises, without the objects, caches, queues and *)
(* timers that carry it out: a partition that walks down from the pods a   *)
(* new template finds, past one ordinal at a time and past none whose pod  *)
(* is still on an older template, until the rollout is Done or Failed.     *)
(* Pods below the partition owe nothing.  A rollout that meets one of the  *)
(* hazards is off this walk until the next template starts another.        *)
(***************************************************************************)
EXTENDS Integers

CONSTANT MaxReplicas   \* the most pods there are

VARIABLES
  phase,      \* how far the rollout has come
  from,       \* where its partition began
  partition,  \* where it is
  updated     \* the ordinals without a pod on an older template

vars == <<phase, from, partition, updated>>

Ordinals == 0..(MaxReplicas - 1)
Running  == {"Pending", "Canary", "Rollout", "CanaryUpscale"}

\* A StatefulSet starts with nothing to walk past.
Init == /\ phase = "CanaryUpscale"
        /\ from = 0 /\ partition = 0 /\ updated = Ordinals

\* Another template: any of the pods may be out of date.
Start ==
  /\ phase' = "Pending"
  /\ from' \in 0..MaxReplicas /\ partition' = from'
  /\ updated' \in SUBSET Ordinals

\* Pods come, go and are replaced; those the partition exposes stay updated.
PodsChange ==
  /\ phase # "off"
  /\ updated' \in SUBSET Ordinals
  /\ \A i \in updated : i >= partition => i \in updated'
  /\ UNCHANGED <<phase, from, partition>>

Lower(next) ==
  /\ partition > 0 /\ partition' = partition - 1
  /\ phase' = next
  /\ UNCHANGED <<from, updated>>

\* The first pod is exposed to the template.
Canary == phase = "Pending" /\ Lower("Canary")

\* The pod at the partition is updated: on to the next one.
Move ==
  /\ phase \in {"Canary", "Rollout"}
  /\ partition \in updated
  /\ Lower("Rollout")

End(next) == phase' = next /\ UNCHANGED <<from, partition, updated>>

\* Without an older pod there is nothing to try the template on.
Upscale == phase = "Pending" /\ from = 0 /\ End("CanaryUpscale")

Finish ==
  /\ partition = 0 /\ End("Done")
  /\ \/ phase = "CanaryUpscale"
     \/ phase \in {"Canary", "Rollout"} /\ 0 \in updated

Fail == phase \in Running /\ End("Failed")

\* The rollout meets a hazard.
Lose ==
  /\ phase' = "off"
  /\ from' = 0 /\ partition' = 0 /\ updated' = Ordinals

Next == \/ Start \/ PodsChange \/ Canary \/ Move \/ Upscale \/ Finish \/ Fail
        \/ Lose

Spec == Init /\ [][Next]_vars

-----------------------------------------------------------------------------

\* A Done rollout leaves no older pod below its start, nor does a running one
\* between its partition and its start: the reason for the walk.
Promise ==
  \A i \in Ordinals :
    /\ phase = "Done" /\ i < from => i \in updated
    /\ phase # "off" /\ partition < i /\ i < from => i \in updated
=============================================================================
