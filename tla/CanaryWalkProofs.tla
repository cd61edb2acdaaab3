--------------------------- MODULE CanaryWalkProofs ---------------------------
(***************************************************************************)
(* Why a rollout that is a canary walk keeps its promise.                  *)
(***************************************************************************)
EXTENDS CanaryWalk, TLAPS

\* Where the partition is in each phase, and what the walk has left behind.
WalkInv ==
  /\ phase \in Running \cup {"Done", "Failed", "off"}
  /\ from \in Int /\ partition \in Int /\ updated \subseteq Ordinals
  /\ \A i \in Ordinals : partition < i /\ i < from => i \in updated
  /\ phase = "Pending" => partition = from
  /\ phase = "Canary" => partition = from - 1
  /\ phase = "CanaryUpscale" => from = 0 /\ partition = 0
  /\ phase = "Done" => partition = 0 /\ (from > 0 => 0 \in updated)

\* Every step of the walk keeps it.
LEMMA WalkStep ==
  ASSUME MaxReplicas \in Nat, WalkInv, [Next]_vars
  PROVE  WalkInv'
  <1> USE DEF WalkInv, Ordinals, Running
  <1>1. CASE Start
    BY <1>1 DEF Start
  <1>2. CASE PodsChange
    BY <1>2 DEF PodsChange
  <1>3. CASE Canary
    BY <1>3 DEF Canary, Lower
  <1>4. CASE Move
    BY <1>4 DEF Move, Lower
  <1>5. CASE Upscale \/ Fail
    BY <1>5 DEF Upscale, Fail, End
  <1>6. CASE Finish
    BY <1>6 DEF Finish, End
  <1>7. CASE Lose
    BY <1>7 DEF Lose
  <1>8. CASE UNCHANGED vars
    BY <1>8 DEF vars
  <1>9. QED
    BY <1>1, <1>2, <1>3, <1>4, <1>5, <1>6, <1>7, <1>8 DEF Next

\* No pod below the start of a Done rollout, and none between its partition and
\* its start while it runs, is on an older template.
THEOREM WalkKeepsPromise ==
  ASSUME MaxReplicas \in Nat
  PROVE  Spec => []Promise
  <1>1. Init => WalkInv
    BY DEF Init, WalkInv, Ordinals, Running
  <1>2. WalkInv /\ [Next]_vars => WalkInv'
    BY WalkStep
  <1>3. WalkInv => Promise
    BY DEF WalkInv, Promise, Ordinals
  <1>4. QED
    BY <1>1, <1>2, <1>3, PTL DEF Spec
=============================================================================
