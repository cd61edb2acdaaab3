----------------------- MODULE QuarksStatefulSetProofs -----------------------
(***************************************************************************)
(* Proofs that the versions of a QuarksStatefulSet only go up and reach    *)
(* the zones in order, that its merge window opens once and holds the      *)
(* StatefulSets back, and that Ready rests on one that was ready, for      *)
(* every number of zones, specs and secrets, every lag of the informers,   *)
(* and whatever conflicts, fails or is restarted.                          *)
(***************************************************************************)
EXTENDS QuarksStatefulSetProperties, WellFoundedInduction, TLAPS

USE ConstantsAssumption

-----------------------------------------------------------------------------
(* The highest version of a list exists, and bounds the list *)

\* A non-empty set of natural numbers has a least element.
LEMMA LeastNatural ==
  ASSUME NEW T, T \subseteq Nat, T # {}
  PROVE  \E x \in T : \A y \in T : x <= y
  <1>1. PICK x \in T : \A y \in T : <<y, x>> \notin OpToRel(<, Nat)
    <2> DEFINE R == OpToRel(<, Nat)
    <2>1. IsWellFoundedOn(R, Nat)
      BY NatLessThanWellFounded
    <2> HIDE DEF R
    <2>2. \E x \in T : \A y \in T : ~(<<y, x>> \in R)
      BY <2>1, WFMin
    <2> QED
      BY <2>2 DEF R
  <1>2. \A y \in T : ~(y < x)
    <2> TAKE y \in T
    <2>1. x \in Nat /\ y \in Nat
      OBVIOUS
    <2>2. <<y, x>> \in Nat \X Nat /\ <<y, x>>[1] = y /\ <<y, x>>[2] = x
      BY <2>1
    <2> QED
      BY <1>1, <2>1, <2>2 DEF OpToRel
  <1> QED
    BY <1>2

\* A list of numbers, one per zone, is bounded.
LEMMA ListBounded ==
  ASSUME NEW f \in [Zones -> Nat]
  PROVE  \E n \in Nat : \A z \in Zones : f[z] <= n
  <1> DEFINE Bounded(k) == \E n \in Nat : \A z \in Zones : z < k => f[z] <= n
             Unbounded == {k \in Nat : ~Bounded(k)}
  <1>0. \A z \in Zones : f[z] \in Nat /\ z \in Nat
    BY DEF Zones
  <1>1. Bounded(0)
    BY <1>0
  <1>2. ASSUME NEW k \in Nat, Bounded(k)
        PROVE  Bounded(k + 1)
    <2>1. PICK n \in Nat : \A z \in Zones : z < k => f[z] <= n
      BY <1>2
    <2>2. CASE k \in Zones
      <3>1. PICK b \in Nat : n <= b /\ f[k] <= b
        <4>1. f[k] \in Nat /\ (n <= f[k] \/ f[k] <= n)
          BY <1>0, <2>2
        <4> QED
          BY <4>1
      <3>2. ASSUME NEW z \in Zones, z < k + 1
            PROVE  f[z] <= b
        <4>1. z = k \/ z < k
          BY <1>0, <3>2
        <4>2. f[z] \in Nat
          BY <1>0
        <4> QED
          BY <4>1, <4>2, <3>1, <2>1
      <3> QED
        BY <3>2
    <2>3. CASE k \notin Zones
      <3>1. ASSUME NEW z \in Zones, z < k + 1
            PROVE  f[z] <= n
        <4>1. z < k
          BY <1>0, <2>3, <3>1
        <4> QED
          BY <4>1, <2>1
      <3> QED
        BY <3>1
    <2> QED
      BY <2>2, <2>3
  <1> HIDE DEF Bounded
  <1>3. Unbounded = {}
    <2> SUFFICES ASSUME Unbounded # {} PROVE FALSE
      OBVIOUS
    <2>1. Unbounded \subseteq Nat
      OBVIOUS
    <2>2. PICK k \in Unbounded : \A y \in Unbounded : k <= y
      <3> HIDE DEF Unbounded
      <3> QED
        BY <2>1, LeastNatural
    <2>3. k \in Nat /\ k # 0 /\ ~Bounded(k)
      BY <2>2, <1>1
    <2>4. k - 1 \in Nat /\ Bounded(k - 1)
      BY <2>2, <2>3
    <2>5. Bounded((k - 1) + 1)
      BY <2>4, <1>2
    <2>6. (k - 1) + 1 = k
      BY <2>3
    <2> QED
      BY <2>3, <2>5, <2>6
  <1>4. Bounded(MaxZones)
    BY <1>3
  <1>5. \A z \in Zones : z < MaxZones
    BY DEF Zones
  <1> QED
    BY <1>4, <1>5 DEF Bounded

\* MaxVersion is one of the versions of the list, and the highest.
LEMMA MaxVersionIsHighest ==
  ASSUME NEW view \in [Zones -> StatefulSet]
  PROVE  /\ MaxVersion(view) \in Nat
         /\ \E z \in Zones : view[z].version = MaxVersion(view)
         /\ \A z \in Zones : view[z].version <= MaxVersion(view)
  <1> DEFINE f == [z \in Zones |-> view[z].version]
             V == {view[z].version : z \in Zones}
             B == {n \in Nat : \A z \in Zones : f[z] <= n}
  <1>1. /\ f \in [Zones -> Nat]
        /\ 0 \in Zones
    BY DEF Zones, StatefulSet
  <1>2. \A z \in Zones : f[z] = view[z].version
    OBVIOUS
  <1>3. V = {f[z] : z \in Zones}
    BY <1>2
  <1> HIDE DEF f
  <1>4. PICK m \in B : \A y \in B : m <= y
    <2>1. B # {} /\ B \subseteq Nat
      BY <1>1, ListBounded
    <2> HIDE DEF B
    <2> QED
      BY <2>1, LeastNatural
  <1>5. PICK x \in Zones : f[x] = m
    <2> SUFFICES ASSUME \A z \in Zones : f[z] # m PROVE FALSE
      OBVIOUS
    <2>1. \A z \in Zones : f[z] \in Nat /\ f[z] < m
      BY <1>1, <1>4
    <2>2. m - 1 \in Nat /\ \A z \in Zones : f[z] <= m - 1
      BY <1>1, <1>4, <2>1
    <2>3. m - 1 \in B
      BY <2>2
    <2> QED
      BY <2>3, <1>4
  <1>6. m \in V /\ \A y \in V : m >= y
    BY <1>3, <1>4, <1>5, <1>1
  <1>7. /\ Max(V) \in V
        /\ \A y \in V : Max(V) >= y
    <2> HIDE DEF V
    <2> QED
      BY <1>6 DEF Max
  <1>8. MaxVersion(view) = Max(V)
    BY DEF MaxVersion
  <1>9. V \subseteq Nat
    BY <1>1, <1>3
  <1> HIDE DEF V
  <1>10. /\ Max(V) \in Nat
         /\ \E z \in Zones : f[z] = Max(V)
         /\ \A z \in Zones : f[z] <= Max(V)
    <2>1. \A y \in V : y \in Nat /\ y <= Max(V)
      BY <1>7, <1>9
    <2> QED
      BY <1>3, <1>7, <1>9, <2>1
  <1> QED
    BY <1>2, <1>8, <1>10

-----------------------------------------------------------------------------
(* Type correctness *)

\* An idle reconciler has a typed job.
LEMMA NoJobType == NoJob \in Job
  BY DEF NoJob, Job, Zones

\* The steps of the reconciler.
LEMMA ReconcilerType ==
  ASSUME TypeOK, Reconciler
  PROVE  TypeOK'
  <1>1. CASE SecretMissing
    BY <1>1 DEF SecretMissing, TypeOK, TakeKey, Arm, qstsVars, secretVars, stsVars,
                workerVars, statusVars
  <1>2. CASE FirstReconcile
    BY <1>2 DEF FirstReconcile, TypeOK, TakeKey, ReadQsts, Readers, secretVars,
                stsVars, statusVars
  <1>3. CASE Stamp
    <2>1. [qsts EXCEPT !.stamped = TRUE] \in QSTS
      BY DEF TypeOK, QSTS
    <2> QED
      BY <1>3, <2>1 DEF Stamp, TypeOK, StoreQsts, Arm, secretVars, stsVars, statusVars
  <1>4. CASE StampConflicts
    BY <1>4, NoJobType DEF StampConflicts, TypeOK, Error, Done, Arm, qstsVars,
                           secretVars, stsVars, statusVars
  <1>5. CASE InMeltdown
    BY <1>5 DEF InMeltdown, TypeOK, TakeKey, qstsVars, secretVars, stsVars,
                workerVars, statusVars
  <1>6. CASE Calculate
    <2>1. MaxVersion(stsCache) + 1 \in Nat
      BY MaxVersionIsHighest DEF TypeOK
    <2>2. 0 \in Zones
      BY DEF Zones
    <2>3. job' \in Job
      BY <1>6, <2>1, <2>2 DEF Calculate, TypeOK, QSTS, Job
    <2> QED
      BY <1>6, <2>3 DEF Calculate, TypeOK, TakeKey, qstsVars, secretVars, stsVars,
                        statusVars
  <1>7. ASSUME NextZone
        PROVE  job' \in Job /\ pc' \in {"idle", "stamp", "zones"}
    <2>1. CASE job.zone + 1 < job.zones
      <3>1. job.zone + 1 \in Zones
        BY <2>1 DEF TypeOK, Job, Zones
      <3> QED
        BY <1>7, <2>1, <3>1 DEF NextZone, TypeOK, Job
    <2>2. CASE ~(job.zone + 1 < job.zones)
      BY <1>7, <2>2, NoJobType DEF NextZone, Done
    <2> QED
      BY <2>1, <2>2
  <1>8. CASE ZoneInPlace
    BY <1>7, <1>8 DEF ZoneInPlace, TypeOK, qstsVars, secretVars, stsVars, statusVars
  <1>9. CASE ZoneWritten
    <2>1. job.zone \in Zones /\ Desired(sts[job.zone]) \in StatefulSet
      <3>1. /\ job.zone \in Zones /\ job.version \in Nat
            /\ job.gen \in 0..MaxGen /\ job.secret \in 0..MaxSecret
        BY DEF TypeOK, Job
      <3>2. sts[job.zone] \in StatefulSet
        BY <3>1 DEF TypeOK
      <3> QED
        BY <3>1, <3>2 DEF Desired, StatefulSet
    <2> QED
      BY <1>7, <1>9, <2>1 DEF ZoneWritten, TypeOK, StoreSts, qstsVars, secretVars,
                              statusVars
  <1>10. CASE ZoneConflicts
    BY <1>10, NoJobType DEF ZoneConflicts, TypeOK, Error, Done, Arm, qstsVars,
                            secretVars, stsVars, statusVars
  <1> QED
    BY <1>1, <1>2, <1>3, <1>4, <1>5, <1>6, <1>8, <1>9, <1>10 DEF Reconciler

\* Every other step.
LEMMA TypeStep ==
  ASSUME TypeOK, [Next]_vars
  PROVE  TypeOK'
  <1> USE DEF qstsVars, secretVars, stsVars, workerVars, statusVars
  <1>1. CASE DeliverQsts
    BY <1>1 DEF DeliverQsts, TypeOK, Readers
  <1>2. CASE DeliverStatefulSets
    BY <1>2 DEF DeliverStatefulSets, TypeOK
  <1>3. CASE DeliverSecret
    BY <1>3 DEF DeliverSecret, TypeOK, SecretOutdated
  <1>4. CASE TimerFires
    BY <1>4 DEF TimerFires, TypeOK
  <1>5. CASE WindowEnds
    BY <1>5 DEF WindowEnds, TypeOK
  <1>6. CASE Reconciler
    BY <1>6, ReconcilerType
  <1>7. CASE StatusReads
    BY <1>7 DEF StatusReads, TypeOK, ReadQsts, Readers
  <1>8. CASE StatusReports
    <2>1. [qsts EXCEPT !.ready = TRUE] \in QSTS
      BY DEF TypeOK, QSTS
    <2> QED
      BY <1>8, <2>1 DEF StatusReports, TypeOK, StoreQsts
  <1>9. ASSUME NEW z \in Zones, NEW s \in StatefulSet, StoreSts(z, s)
        PROVE  /\ sts' \in [Zones -> StatefulSet] /\ unseen' \subseteq Zones
               /\ stsCache' = stsCache
    BY <1>9 DEF StoreSts, TypeOK
  <1>10. ASSUME NEW z \in Zones, BecomesReady(z)
         PROVE  TypeOK'
    <2>1. [sts[z] EXCEPT !.ready = TRUE] \in StatefulSet
      BY DEF TypeOK, StatefulSet
    <2> QED
      BY <1>9, <1>10, <2>1 DEF BecomesReady, TypeOK
  <1>11. ASSUME NEW z \in Zones, LosesReady(z)
         PROVE  TypeOK'
    <2>1. [sts[z] EXCEPT !.ready = FALSE] \in StatefulSet
      BY DEF TypeOK, StatefulSet
    <2> QED
      BY <1>9, <1>11, <2>1 DEF LosesReady, Disturb, TypeOK
  <1>12. ASSUME NEW n \in ZoneCounts, UpdateSpec(n)
         PROVE  TypeOK'
    <2>1. [qsts EXCEPT !.gen = @ + 1, !.zones = n] \in QSTS
      <3>1. qsts \in QSTS /\ qsts.gen + 1 \in 1..MaxGen /\ n \in 1..MaxZones
        BY <1>12 DEF UpdateSpec, TypeOK, QSTS
      <3> QED
        BY <3>1 DEF QSTS
    <2> QED
      BY <1>12, <2>1 DEF UpdateSpec, Disturb, TypeOK, StoreQsts
  <1>13. CASE Touch
    BY <1>13 DEF Touch, Disturb, TypeOK, StoreQsts
  <1>14. CASE NewSecret
    BY <1>14 DEF NewSecret, Disturb, TypeOK
  <1>15. CASE ConfigMapChanges
    BY <1>15 DEF ConfigMapChanges, Disturb, TypeOK
  <1>16. CASE APIError
    BY <1>16, NoJobType DEF APIError, Disturb, TypeOK, Error, Done, Arm
  <1>17. CASE Crash
    <2>1. queued' \in BOOLEAN /\ statusQueued' \in BOOLEAN
      BY <1>17 DEF Crash
    <2>2. /\ qcache' = qsts /\ secretCache' = secret /\ stsCache' = sts
          /\ current' = {"informer"} /\ qevent' = FALSE /\ unseen' = {}
          /\ timer' = "none" /\ pc' = "idle" /\ job' = NoJob /\ statusPc' = "idle"
          /\ dropped' = FALSE
          /\ left' \in 0..MaxDisturbances /\ lost' \subseteq lost \cup {"crash", "timer"}
          /\ UNCHANGED <<qsts, secret, sts, meltdown, served>>
      BY <1>17 DEF Crash, Disturb, Done, TypeOK
    <2> QED
      BY <2>1, <2>2, NoJobType DEF TypeOK, Readers
  <1>18. CASE UNCHANGED vars
    BY <1>18 DEF vars, TypeOK
  <1> QED
    BY <1>1, <1>2, <1>3, <1>4, <1>5, <1>6, <1>7, <1>8, <1>10, <1>11, <1>12, <1>13,
       <1>14, <1>15, <1>16, <1>17, <1>18
       DEF Next, StatusReconciler, Kubelet, Environment

\* The initial states are typed.
LEMMA InitType == Init => TypeOK
  <1> SUFFICES ASSUME Init PROVE TypeOK
    OBVIOUS
  <1>1. qsts \in QSTS
    <2>1. PICK n \in ZoneCounts : qsts = [gen |-> 1, zones |-> n, stamped |-> FALSE,
                                         ready |-> FALSE]
      <3>1. qsts.gen = 1 /\ qsts.zones \in ZoneCounts /\ ~qsts.stamped /\ ~qsts.ready
        BY DEF Init
      <3>2. qsts = [gen |-> qsts.gen, zones |-> qsts.zones, stamped |-> qsts.stamped,
                    ready |-> qsts.ready]
        BY DEF Init
      <3> QED
        BY <3>1, <3>2 DEF Init
    <2> QED
      BY <2>1 DEF QSTS
  <1>2. Absent \in StatefulSet
    BY DEF Absent, StatefulSet
  <1>3. left \in 0..MaxDisturbances /\ secret \in 0..MaxSecret
    BY DEF Init
  <1>4. sts \in [Zones -> StatefulSet] /\ stsCache \in [Zones -> StatefulSet]
    BY <1>2 DEF Init
  <1> QED
    BY <1>1, <1>3, <1>4, NoJobType DEF Init, TypeOK, Readers

\* Type correctness of the QuarksStatefulSet's reconcilers and their environment.
THEOREM TypeCorrect == Spec => []TypeOK
  BY InitType, TypeStep, PTL DEF Spec

-----------------------------------------------------------------------------
(* The order of versions and zones *)

\* The untyped part of the inductive invariant.
OrderInv == CopiesInv /\ JobInv /\ ZonesInOrder

\* What the types say of the StatefulSets, the job and the highest version.
LEMMA Numbers ==
  ASSUME TypeOK
  PROVE  /\ \A z \in Zones :
              /\ z \in Nat
              /\ sts[z].version \in Nat /\ sts[z].gen \in Nat /\ sts[z].secret \in Nat
              /\ stsCache[z].version \in Nat /\ stsCache[z].gen \in Nat
              /\ stsCache[z].secret \in Nat
         /\ job.version \in Nat /\ job.gen \in Nat /\ job.secret \in Nat
         /\ job.zone \in Zones /\ job.zone \in Nat /\ job.zones \in Nat
         /\ qcache.gen \in Nat /\ qsts.gen \in Nat
         /\ secret \in Nat /\ secretCache \in Nat
         /\ MaxVersion(stsCache) \in Nat
  <1>1. MaxVersion(stsCache) \in Nat
    BY MaxVersionIsHighest DEF TypeOK
  <1>2. \A s \in StatefulSet : s.version \in Nat /\ s.gen \in Nat /\ s.secret \in Nat
    BY DEF StatefulSet
  <1>3. \A z \in Zones : z \in Nat /\ sts[z] \in StatefulSet /\ stsCache[z] \in StatefulSet
    BY DEF TypeOK, Zones
  <1>4. /\ job.version \in Nat /\ job.gen \in Nat /\ job.secret \in Nat
        /\ job.zone \in Zones /\ job.zones \in Nat
    BY DEF TypeOK, Job
  <1>5. /\ qcache.gen \in Nat /\ qsts.gen \in Nat
        /\ secret \in Nat /\ secretCache \in Nat
    BY DEF TypeOK, QSTS
  <1> QED
    BY <1>1, <1>2, <1>3, <1>4, <1>5

\* Steps that leave the StatefulSets and their copies alone, and the zones in
\* hand too unless they drop them.
LEMMA FrameStep ==
  ASSUME TypeOK, OrderInv, TypeOK',
         UNCHANGED <<sts, stsCache, unseen>>,
         UNCHANGED <<pc, job>> \/ pc' # "zones",
         qcache.gen <= qcache'.gen, qcache'.gen <= qsts'.gen,
         secretCache <= secretCache', secretCache' <= secret'
  PROVE  OrderInv'
  <1>1. TypeOK'
    OBVIOUS
  <1>2. /\ qcache.gen \in Nat /\ qcache'.gen \in Nat
        /\ secretCache \in Nat /\ secretCache' \in Nat
    BY DEF TypeOK, QSTS
  <1>3. CopiesInv'
    <2>1. MaxVersion(stsCache)' = MaxVersion(stsCache)
      BY DEF MaxVersion
    <2>2. \A z \in Zones : /\ sts[z].gen <= qcache'.gen
                           /\ sts[z].secret <= secretCache'
      BY Numbers, <1>2 DEF OrderInv, CopiesInv
    <2> QED
      BY <2>1, <2>2 DEF OrderInv, CopiesInv, Behind
  <1>4. JobInv'
    <2>1. MaxVersion(stsCache)' = MaxVersion(stsCache)
      BY DEF MaxVersion
    <2>2. CASE pc' = "zones"
      <3>1. pc = "zones" /\ job' = job
        BY <2>2
      <3>2. job.gen <= qcache'.gen /\ job.secret <= secretCache'
        BY <3>1, <1>2, Numbers DEF OrderInv, JobInv
      <3> QED
        BY <2>1, <3>1, <3>2 DEF OrderInv, JobInv, Behind
    <2> QED
      BY <2>2 DEF JobInv
  <1> QED
    BY <1>3, <1>4 DEF OrderInv, ZonesInOrder, Behind

\* Steps that bring the informer up to date.
LEMMA SyncStep ==
  ASSUME TypeOK, OrderInv, TypeOK',
         sts' = sts, stsCache' = sts, unseen' = {},
         UNCHANGED <<pc, job>> \/ pc' # "zones",
         qcache.gen <= qcache'.gen, qcache'.gen <= qsts'.gen,
         secretCache <= secretCache', secretCache' <= secret'
  PROVE  OrderInv'
  <1>1. /\ qcache.gen \in Nat /\ qcache'.gen \in Nat
        /\ secretCache \in Nat /\ secretCache' \in Nat
    BY DEF TypeOK, QSTS
  <1>2. MaxVersion(stsCache)' = MaxVersion(sts)
    BY DEF MaxVersion
  <1>3. /\ MaxVersion(sts) \in Nat
        /\ \A z \in Zones : sts[z].version <= MaxVersion(sts)
    BY MaxVersionIsHighest DEF TypeOK
  <1>4. MaxVersion(stsCache) <= MaxVersion(sts)
    <2>1. PICK z \in Zones : stsCache[z].version = MaxVersion(stsCache)
      BY MaxVersionIsHighest DEF TypeOK
    <2>2. stsCache[z].version <= sts[z].version
      BY DEF OrderInv, CopiesInv, Behind
    <2> QED
      BY <1>3, <2>1, <2>2, Numbers
  <1>5. CopiesInv'
    <2>1. \A z \in Zones : /\ Behind(sts[z], sts[z])
                           /\ sts[z].version <= MaxVersion(sts) + 1
      BY <1>3, Numbers DEF Behind
    <2>2. \A z \in Zones : /\ sts[z].gen <= qcache'.gen
                           /\ sts[z].secret <= secretCache'
      BY Numbers, <1>1 DEF OrderInv, CopiesInv
    <2> QED
      BY <1>2, <2>1, <2>2 DEF CopiesInv, Behind
  <1>6. JobInv'
    <2>1. CASE pc' = "zones"
      <3>1. pc = "zones" /\ job' = job
        BY <2>1
      <3>2. /\ job.version <= MaxVersion(sts) + 1
            /\ job.gen <= qcache'.gen /\ job.secret <= secretCache'
        BY <3>1, <1>1, <1>3, <1>4, Numbers DEF OrderInv, JobInv
      <3> QED
        BY <1>2, <3>1, <3>2 DEF OrderInv, JobInv, Behind
    <2> QED
      BY <2>1 DEF JobInv
  <1> QED
    BY <1>5, <1>6 DEF OrderInv, ZonesInOrder, Behind

\* Pods change what a StatefulSet reports, never what it was made from.
LEMMA PodStep ==
  ASSUME TypeOK, OrderInv, NEW z \in Zones, NEW b \in BOOLEAN,
         StoreSts(z, [sts[z] EXCEPT !.ready = b]),
         UNCHANGED <<qsts, qcache, secret, secretCache, pc, job>>
  PROVE  OrderInv' /\ \A y \in Zones : Behind(sts[y], sts'[y])
  <1>1. \A y \in Zones : /\ sts'[y].version = sts[y].version
                         /\ sts'[y].gen = sts[y].gen
                         /\ sts'[y].secret = sts[y].secret
    BY DEF StoreSts, TypeOK, StatefulSet
  <1>2. \A y \in Zones : y \notin unseen' => y \notin unseen /\ sts'[y] = sts[y]
    BY DEF StoreSts, TypeOK
  <1>3. stsCache' = stsCache /\ MaxVersion(stsCache)' = MaxVersion(stsCache)
    BY DEF StoreSts, MaxVersion
  <1>4. CopiesInv'
    BY <1>1, <1>2, <1>3 DEF OrderInv, CopiesInv, Behind
  <1>5. JobInv'
    BY <1>1, <1>3 DEF OrderInv, JobInv, Behind
  <1>6. ZonesInOrder'
    BY <1>1 DEF OrderInv, ZonesInOrder, Behind
  <1> QED
    BY <1>1, <1>4, <1>5, <1>6, Numbers DEF OrderInv, Behind

\* After a step at a zone no StatefulSet is above the job, and none up to that
\* zone is below it.
ZoneDone ==
  \A z \in Zones : /\ Behind(sts'[z], job)
                   /\ z <= job.zone => Behind(job, sts'[z])

\* The job moves on to the next zone once this one is not below it.
LEMMA NextZoneStep ==
  ASSUME TypeOK, JobInv, pc = "zones", NextZone,
         stsCache' = stsCache, UNCHANGED <<qcache, secretCache>>, ZoneDone
  PROVE  JobInv'
  <1>1. MaxVersion(stsCache)' = MaxVersion(stsCache)
    BY DEF MaxVersion
  <1>2. SUFFICES ASSUME pc' = "zones" PROVE JobInv'
    BY DEF JobInv
  <1>3. job.zone + 1 < job.zones /\ job' = [job EXCEPT !.zone = @ + 1]
    BY <1>2 DEF NextZone, Done
  <1>4. /\ job'.zone = job.zone + 1 /\ job'.zones = job.zones
        /\ job'.version = job.version /\ job'.gen = job.gen
        /\ job'.secret = job.secret
    BY <1>3 DEF TypeOK, Job
  <1>5. \A z \in Zones : z < job'.zone => z <= job.zone
    BY <1>4, Numbers
  <1>6. /\ job'.version <= MaxVersion(stsCache) + 1
        /\ job'.gen <= qcache.gen /\ job'.secret <= secretCache
    BY <1>4 DEF JobInv
  <1>7. \A z \in Zones : /\ Behind(sts'[z], job')
                         /\ z < job'.zone => Behind(job', sts'[z])
    BY <1>4, <1>5 DEF Behind, ZoneDone
  <1>8. job'.zone < job'.zones
    BY <1>3, <1>4
  <1>9. qcache' = qcache /\ secretCache' = secretCache
    OBVIOUS
  <1> QED
    BY <1>1, <1>6, <1>7, <1>8, <1>9 DEF JobInv, Behind

\* A zone found as it should be in the cache is so at the server.
LEMMA InPlaceStep ==
  ASSUME TypeOK, OrderInv, ZoneInPlace
  PROVE  OrderInv' /\ ZoneDone
  <1>1. /\ UNCHANGED <<qsts, qcache, secret, secretCache, sts, stsCache, unseen>>
        /\ pc = "zones" /\ NextZone
    BY DEF ZoneInPlace, qstsVars, secretVars, stsVars
  <1>2. Behind(job, stsCache[job.zone])
    <2>1. stsCache[job.zone] \in StatefulSet
      BY Numbers DEF TypeOK
    <2>2. /\ Desired(stsCache[job.zone]).version = job.version
          /\ Desired(stsCache[job.zone]).gen = job.gen
          /\ Desired(stsCache[job.zone]).secret = job.secret
      BY <2>1 DEF Desired, StatefulSet
    <2>3. stsCache[job.zone] = Desired(stsCache[job.zone])
      BY DEF ZoneInPlace, InPlace
    <2> QED
      BY <2>2, <2>3, Numbers DEF Behind
  <1>3. Behind(job, sts[job.zone])
    <2>1. Behind(stsCache[job.zone], sts[job.zone])
      BY Numbers DEF OrderInv, CopiesInv
    <2> QED
      BY <1>2, <2>1, Numbers DEF Behind
  <1>4. ZoneDone
    BY <1>1, <1>3, Numbers DEF OrderInv, JobInv, ZoneDone
  <1>5. JobInv'
    BY <1>1, <1>4, NextZoneStep DEF OrderInv
  <1>6. MaxVersion(stsCache)' = MaxVersion(stsCache)
    BY <1>1 DEF MaxVersion
  <1>7. CopiesInv' /\ ZonesInOrder'
    BY <1>1, <1>6 DEF OrderInv, CopiesInv, ZonesInOrder, Behind
  <1> QED
    BY <1>4, <1>5, <1>7 DEF OrderInv

\* A zone is written at the version the cache shows: what it had is not above
\* the job, what the zones before it have is not below, and those after it wait.
LEMMA WrittenStep ==
  ASSUME TypeOK, OrderInv, ZoneWritten
  PROVE  /\ OrderInv' /\ ZoneDone
         /\ \A z \in Zones : Behind(sts[z], sts'[z])
  <1> DEFINE w == job.zone
  <1>1. /\ UNCHANGED <<qsts, qcache, secret, secretCache, stsCache>>
        /\ pc = "zones" /\ NextZone
        /\ w \in Zones /\ w \notin unseen /\ unseen' = unseen \cup {w}
    BY Numbers DEF ZoneWritten, StoreSts, qstsVars, secretVars
  <1>2. /\ sts'[w].version = job.version /\ sts'[w].gen = job.gen
        /\ sts'[w].secret = job.secret
    <2>1. sts[w] \in StatefulSet /\ sts' = [sts EXCEPT ![w] = Desired(sts[w])]
      BY <1>1 DEF ZoneWritten, StoreSts, TypeOK
    <2>2. sts'[w] = Desired(sts[w])
      BY <1>1, <2>1 DEF TypeOK
    <2> QED
      BY <2>1, <2>2 DEF Desired, StatefulSet
  <1>3. \A z \in Zones : z # w => sts'[z] = sts[z]
    BY DEF ZoneWritten, StoreSts, TypeOK
  <1>4. /\ \A z \in Zones : /\ Behind(sts[z], job)
                            /\ z < w => Behind(job, sts[z])
        /\ job.version <= MaxVersion(stsCache) + 1
        /\ job.gen <= qcache.gen /\ job.secret <= secretCache
    BY <1>1 DEF OrderInv, JobInv
  <1> HIDE DEF w
  <1>5. Behind(sts'[w], job) /\ Behind(job, sts'[w])
    BY <1>2, Numbers DEF Behind
  <1>6. \A z \in Zones : Behind(sts[z], sts'[z])
    <2> TAKE z \in Zones
    <2>1. CASE z = w
      BY <1>1, <1>2, <1>4, <2>1 DEF Behind
    <2>2. CASE z # w
      BY <1>3, <2>2, Numbers DEF Behind
    <2> QED
      BY <2>1, <2>2
  <1>7. MaxVersion(stsCache)' = MaxVersion(stsCache)
    BY <1>1 DEF MaxVersion
  <1>8. CopiesInv'
    <2>1. ASSUME NEW z \in Zones
          PROVE  /\ z \notin unseen' => stsCache[z] = sts'[z]
                 /\ Behind(stsCache[z], sts'[z])
                 /\ sts'[z].version <= MaxVersion(stsCache) + 1
                 /\ sts'[z].gen <= qcache.gen /\ sts'[z].secret <= secretCache
      <3>1. CASE z = w
        <4>1. stsCache[w] = sts[w]
          BY <1>1 DEF OrderInv, CopiesInv
        <4>2. Behind(stsCache[z], sts'[z])
          BY <1>6, <3>1, <4>1
        <4> QED
          BY <1>1, <1>2, <1>4, <3>1, <4>2
      <3>2. CASE z # w
        BY <1>1, <1>3, <3>2 DEF OrderInv, CopiesInv
      <3> QED
        BY <3>1, <3>2
    <2>2. qcache'.gen <= qsts'.gen /\ secretCache' <= secret'
      BY <1>1 DEF OrderInv, CopiesInv
    <2> QED
      BY <1>1, <1>7, <2>1, <2>2 DEF CopiesInv, Behind
  <1>d. ZoneDone
    <2>1. ASSUME NEW z \in Zones
          PROVE  /\ Behind(sts'[z], job)
                 /\ z <= w => Behind(job, sts'[z])
      <3>1. CASE z = w
        BY <1>5, <3>1
      <3>2. CASE z # w
        <4>1. z <= w => z < w
          BY <1>1, <3>2 DEF Zones
        <4> QED
          BY <1>3, <1>4, <3>2, <4>1
      <3> QED
        BY <3>1, <3>2
    <2> QED
      BY <2>1 DEF ZoneDone, w
  <1>9. JobInv'
    BY <1>1, <1>d, NextZoneStep DEF OrderInv
  <1>10. ZonesInOrder'
    <2>1. ASSUME NEW y \in Zones, NEW z \in Zones, y < z
          PROVE  Behind(sts'[z], sts'[y])
      <3>1. CASE z = w
        <4>1. y # w /\ y < w
          BY <1>1, <2>1, <3>1 DEF Zones
        <4>2. Behind(job, sts[y]) /\ sts'[y] = sts[y]
          BY <1>3, <1>4, <4>1
        <4> QED
          BY <1>2, <3>1, <4>2 DEF Behind
      <3>2. CASE y = w
        <4>1. z # w
          BY <1>1, <2>1, <3>2 DEF Zones
        <4>2. Behind(sts[z], job) /\ sts'[z] = sts[z]
          BY <1>3, <1>4, <4>1
        <4> QED
          BY <1>2, <3>2, <4>2 DEF Behind
      <3>3. CASE z # w /\ y # w
        BY <1>3, <2>1, <3>3 DEF OrderInv, ZonesInOrder
      <3> QED
        BY <3>1, <3>2, <3>3
    <2> QED
      BY <2>1 DEF ZonesInOrder, Behind
  <1> QED
    BY <1>6, <1>8, <1>9, <1>10, <1>d DEF OrderInv

\* A new job is one above the list, and so not below anything at the server.
LEMMA CalculateStep ==
  ASSUME TypeOK, OrderInv, Calculate
  PROVE  OrderInv'
  <1>1. /\ UNCHANGED <<qsts, qcache, secret, secretCache, sts, stsCache, unseen>>
        /\ job' = [version |-> MaxVersion(stsCache) + 1, gen |-> qcache.gen,
                   secret |-> secretCache, zones |-> qcache.zones, zone |-> 0]
    BY DEF Calculate, qstsVars, secretVars, stsVars
  <1>2. MaxVersion(stsCache)' = MaxVersion(stsCache)
    BY <1>1 DEF MaxVersion
  <1>3. CopiesInv' /\ ZonesInOrder'
    BY <1>1, <1>2 DEF OrderInv, CopiesInv, ZonesInOrder, Behind
  <1>4. JobInv'
    <2>1. \A z \in Zones : Behind(sts[z], job') /\ ~(z < job'.zone)
      BY <1>1, Numbers DEF OrderInv, CopiesInv, Behind, Zones
    <2>2. /\ job'.zone < job'.zones
          /\ job'.version <= MaxVersion(stsCache) + 1
          /\ job'.gen <= qcache.gen /\ job'.secret <= secretCache
      <3>1. qcache.zones \in Nat /\ 0 < qcache.zones
        BY DEF TypeOK, QSTS
      <3> QED
        BY <1>1, <3>1, Numbers
    <2> QED
      BY <1>1, <1>2, <2>1, <2>2 DEF JobInv, Behind
  <1> QED
    BY <1>3, <1>4 DEF OrderInv

\* What the steps that leave StatefulSets and copies alone do to the rest.
Aside ==
  /\ UNCHANGED <<sts, stsCache, unseen>>
  /\ UNCHANGED <<pc, job>> \/ pc' # "zones"
  /\ qcache.gen <= qcache'.gen /\ qcache'.gen <= qsts'.gen
  /\ secretCache <= secretCache' /\ secretCache' <= secret'

\* They keep the order.
LEMMA AsideStep ==
  ASSUME TypeOK, OrderInv, TypeOK', Aside
  PROVE  OrderInv' /\ \A z \in Zones : Behind(sts[z], sts'[z])
  <1>1. OrderInv'
    BY FrameStep DEF Aside
  <1>2. \A z \in Zones : Behind(sts[z], sts'[z])
    BY Numbers DEF Aside, Behind
  <1> QED
    BY <1>1, <1>2

\* The steps of the reconciler.
LEMMA ReconcilerOrder ==
  ASSUME TypeOK, OrderInv, TypeOK', Reconciler
  PROVE  OrderInv' /\ \A z \in Zones : Behind(sts[z], sts'[z])
  <1> USE DEF qstsVars, secretVars, stsVars, workerVars
  <1>0. qcache.gen <= qsts.gen /\ secretCache <= secret
    BY DEF OrderInv, CopiesInv
  <1>t. TypeOK'
    OBVIOUS
  <1>2. CASE SecretMissing
    <2>1. Aside
      BY <1>0, <1>2, Numbers DEF SecretMissing, Aside
    <2> QED
      BY <1>t, <2>1, AsideStep
  <1>3. CASE FirstReconcile
    <2>1. Aside
      BY <1>0, <1>3, Numbers DEF FirstReconcile, Aside
    <2> QED
      BY <1>t, <2>1, AsideStep
  <1>4. CASE Stamp
    <2>1. qsts' = [qsts EXCEPT !.stamped = TRUE] /\ qcache' = qcache
      BY <1>4 DEF Stamp, StoreQsts
    <2>2. qsts'.gen = qsts.gen
      BY <2>1 DEF TypeOK, QSTS
    <2>3. Aside
      BY <1>0, <1>4, <2>1, <2>2, Numbers DEF Stamp, Aside
    <2> QED
      BY <1>t, <2>3, AsideStep
  <1>5. CASE StampConflicts
    <2>1. Aside
      BY <1>0, <1>5, Numbers DEF StampConflicts, Error, Done, Aside
    <2> QED
      BY <1>t, <2>1, AsideStep
  <1>6. CASE InMeltdown
    <2>1. Aside
      BY <1>0, <1>6, Numbers DEF InMeltdown, Aside
    <2> QED
      BY <1>t, <2>1, AsideStep
  <1>7. CASE Calculate
    <2>1. \A z \in Zones : Behind(sts[z], sts'[z])
      BY <1>7, Numbers DEF Calculate, Behind
    <2> QED
      BY <1>7, <2>1, CalculateStep
  <1>8. CASE ZoneInPlace
    <2>1. \A z \in Zones : Behind(sts[z], sts'[z])
      BY <1>8, Numbers DEF ZoneInPlace, Behind
    <2> QED
      BY <1>8, <2>1, InPlaceStep
  <1>9. CASE ZoneWritten
    BY <1>9, WrittenStep
  <1>10. CASE ZoneConflicts
    <2>1. Aside
      BY <1>0, <1>10, Numbers DEF ZoneConflicts, Error, Done, Aside
    <2> QED
      BY <1>t, <2>1, AsideStep
  <1> QED
    BY <1>2, <1>3, <1>4, <1>5, <1>6, <1>7, <1>8, <1>9, <1>10 DEF Reconciler

\* Every step preserves the order, and puts no StatefulSet back.
LEMMA OrderStep ==
  ASSUME TypeOK, OrderInv, [Next]_vars
  PROVE  OrderInv' /\ \A z \in Zones : Behind(sts[z], sts'[z])
  <1> USE DEF qstsVars, secretVars, stsVars, workerVars
  <1>0. qcache.gen <= qsts.gen /\ secretCache <= secret
    BY DEF OrderInv, CopiesInv
  <1>t. TypeOK'
    BY TypeStep
  <1>2. CASE DeliverQsts
    <2>1. Aside
      BY <1>0, <1>2, Numbers DEF DeliverQsts, Aside
    <2> QED
      BY <1>t, <2>1, AsideStep
  <1>3. CASE DeliverStatefulSets
    <2>1. /\ sts' = sts /\ stsCache' = sts /\ unseen' = {}
          /\ UNCHANGED <<qsts, qcache, secret, secretCache, pc, job>>
      BY <1>3 DEF DeliverStatefulSets
    <2>2. OrderInv'
      BY <1>0, <1>t, <2>1, Numbers, SyncStep
    <2> QED
      BY <2>1, <2>2, Numbers DEF Behind
  <1>4. CASE DeliverSecret
    <2>1. Aside
      BY <1>0, <1>4, Numbers DEF DeliverSecret, Aside
    <2> QED
      BY <1>t, <2>1, AsideStep
  <1>5. CASE TimerFires
    <2>1. Aside
      BY <1>0, <1>5, Numbers DEF TimerFires, Aside
    <2> QED
      BY <1>t, <2>1, AsideStep
  <1>6. CASE WindowEnds
    <2>1. Aside
      BY <1>0, <1>6, Numbers DEF WindowEnds, Aside
    <2> QED
      BY <1>t, <2>1, AsideStep
  <1>7. CASE Reconciler
    BY <1>7, <1>t, ReconcilerOrder
  <1>8. CASE StatusReads
    <2>1. Aside
      BY <1>0, <1>8, Numbers DEF StatusReads, Aside
    <2> QED
      BY <1>t, <2>1, AsideStep
  <1>9. CASE StatusReports
    <2>1. qcache' = qcache /\ qsts'.gen = qsts.gen
      <3>1. [qsts EXCEPT !.ready = TRUE].gen = qsts.gen
        BY DEF TypeOK, QSTS
      <3> QED
        BY <1>9, <3>1 DEF StatusReports, StoreQsts
    <2>2. Aside
      BY <1>0, <1>9, <2>1, Numbers DEF StatusReports, Aside
    <2> QED
      BY <1>t, <2>2, AsideStep
  <1>10. ASSUME NEW z \in Zones, BecomesReady(z)
         PROVE  OrderInv' /\ \A y \in Zones : Behind(sts[y], sts'[y])
    <2>1. /\ StoreSts(z, [sts[z] EXCEPT !.ready = TRUE])
          /\ UNCHANGED <<qsts, qcache, secret, secretCache, pc, job>>
      BY <1>10 DEF BecomesReady
    <2> QED
      BY <2>1, PodStep
  <1>11. ASSUME NEW z \in Zones, LosesReady(z)
         PROVE  OrderInv' /\ \A y \in Zones : Behind(sts[y], sts'[y])
    <2>1. /\ StoreSts(z, [sts[z] EXCEPT !.ready = FALSE])
          /\ UNCHANGED <<qsts, qcache, secret, secretCache, pc, job>>
      BY <1>11 DEF LosesReady
    <2> QED
      BY <2>1, PodStep
  <1>12. ASSUME NEW n \in ZoneCounts, UpdateSpec(n)
         PROVE  OrderInv' /\ \A y \in Zones : Behind(sts[y], sts'[y])
    <2>1. qcache' = qcache /\ qsts'.gen = qsts.gen + 1
      <3>1. qsts \in QSTS /\ qsts' = [qsts EXCEPT !.gen = @ + 1, !.zones = n]
        BY <1>12 DEF UpdateSpec, StoreQsts, TypeOK
      <3> QED
        BY <1>12, <3>1 DEF UpdateSpec, StoreQsts, QSTS
    <2>2. Aside
      BY <1>0, <1>12, <2>1, Numbers DEF UpdateSpec, Aside
    <2> QED
      BY <1>t, <2>2, AsideStep
  <1>13. CASE Touch
    <2>1. Aside
      BY <1>0, <1>13, Numbers DEF Touch, StoreQsts, Aside
    <2> QED
      BY <1>t, <2>1, AsideStep
  <1>14. CASE NewSecret
    <2>1. Aside
      BY <1>0, <1>14, Numbers DEF NewSecret, Aside
    <2> QED
      BY <1>t, <2>1, AsideStep
  <1>15. CASE ConfigMapChanges
    <2>1. Aside
      BY <1>0, <1>15, Numbers DEF ConfigMapChanges, Aside
    <2> QED
      BY <1>t, <2>1, AsideStep
  <1>16. CASE APIError
    <2>1. Aside
      BY <1>0, <1>16, Numbers DEF APIError, Error, Done, Aside
    <2> QED
      BY <1>t, <2>1, AsideStep
  <1>17. CASE Crash
    <2>1. /\ sts' = sts /\ stsCache' = sts /\ unseen' = {} /\ pc' = "idle"
          /\ qcache' = qsts /\ secretCache' = secret
          /\ UNCHANGED <<qsts, secret>>
      BY <1>17 DEF Crash, Done
    <2>2. OrderInv'
      BY <1>0, <1>t, <2>1, Numbers, SyncStep
    <2> QED
      BY <2>1, <2>2, Numbers DEF Behind
  <1>18. CASE UNCHANGED vars
    <2>1. Aside
      BY <1>0, <1>18, Numbers DEF vars, Aside
    <2> QED
      BY <1>t, <2>1, AsideStep
  <1> QED
    BY <1>2, <1>3, <1>4, <1>5, <1>6, <1>7, <1>8, <1>9, <1>10, <1>11, <1>12, <1>13,
       <1>14, <1>15, <1>16, <1>17, <1>18
       DEF Next, StatusReconciler, Kubelet, Environment

\* Nothing is written yet.
LEMMA InitOrder == Init => OrderInv
  <1> SUFFICES ASSUME Init PROVE OrderInv
    OBVIOUS
  <1>1. TypeOK
    BY InitType
  <1>2. \A z \in Zones : sts[z] = Absent /\ stsCache[z] = sts[z]
    BY DEF Init
  <1>3. CopiesInv
    <2>1. qcache = qsts /\ secretCache = secret
      BY DEF Init
    <2>2. \A z \in Zones : sts[z].version = 0 /\ sts[z].gen = 0 /\ sts[z].secret = 0
      BY <1>2 DEF Absent
    <2> QED
      BY <1>1, <1>2, <2>1, <2>2, Numbers DEF CopiesInv, Behind
  <1>4. JobInv
    BY DEF Init, JobInv
  <1>5. ZonesInOrder
    BY <1>2 DEF ZonesInOrder, Behind, Absent
  <1> QED
    BY <1>3, <1>4, <1>5 DEF OrderInv

-----------------------------------------------------------------------------
(* The merge window *)

\* What StampedOnce says of a step.
OpensOnce ==
  /\ meltdown' /\ ~meltdown => ~qsts.stamped
  /\ meltdown' => \A z \in Zones : sts'[z] = Absent

\* The steps of the reconciler: a stamp is stored over the version it was
\* decided on, and nothing is computed before the window is over.
LEMMA ReconcilerWindow ==
  ASSUME TypeOK, WindowInv, Reconciler
  PROVE  WindowInv' /\ OpensOnce
  <1> USE DEF WindowInv, OpensOnce, qstsVars, secretVars, stsVars
  <1>1. CASE SecretMissing
    BY <1>1 DEF SecretMissing, TakeKey, workerVars
  <1>2. CASE FirstReconcile
    <2>1. "worker" \in current' => qcache = qsts
      BY <1>2 DEF FirstReconcile, ReadQsts
    <2>2. "informer" \in current' => "informer" \in current
      BY <1>2 DEF FirstReconcile, ReadQsts
    <2> QED
      BY <1>2, <2>1, <2>2 DEF FirstReconcile, TakeKey
  <1>3. CASE Stamp
    <2>1. ~qsts.stamped /\ \A z \in Zones : sts[z] = Absent
      BY <1>3 DEF Stamp
    <2>2. qsts'.stamped /\ pc' = "idle" /\ current' = {} /\ qcache' = qcache
      BY <1>3 DEF Stamp, StoreQsts, TypeOK, QSTS
    <2> QED
      BY <1>3, <2>1, <2>2 DEF Stamp
  <1>4. CASE StampConflicts
    BY <1>4 DEF StampConflicts, Error, Done
  <1>5. CASE InMeltdown
    BY <1>5 DEF InMeltdown, TakeKey, workerVars
  <1>6. CASE Calculate
    BY <1>6 DEF Calculate, TakeKey
  <1>7. ASSUME pc = "zones", NextZone
        PROVE  pc' # "stamp"
    BY <1>7 DEF NextZone, Done
  <1>8. CASE ZoneInPlace
    BY <1>7, <1>8 DEF ZoneInPlace
  <1>9. CASE ZoneWritten
    BY <1>7, <1>9 DEF ZoneWritten
  <1>10. CASE ZoneConflicts
    BY <1>10 DEF ZoneConflicts, Error, Done
  <1> QED
    BY <1>1, <1>2, <1>3, <1>4, <1>5, <1>6, <1>8, <1>9, <1>10 DEF Reconciler

\* Every step keeps the window closed to StatefulSets, and none opens another.
LEMMA WindowStep ==
  ASSUME TypeOK, WindowInv, [Next]_vars
  PROVE  WindowInv' /\ OpensOnce
  <1> USE DEF WindowInv, OpensOnce, qstsVars, secretVars, stsVars, workerVars
  <1>1. CASE DeliverQsts
    BY <1>1 DEF DeliverQsts
  <1>2. CASE DeliverStatefulSets
    BY <1>2 DEF DeliverStatefulSets
  <1>3. CASE DeliverSecret
    BY <1>3 DEF DeliverSecret
  <1>4. CASE TimerFires
    BY <1>4 DEF TimerFires
  <1>5. CASE WindowEnds
    BY <1>5 DEF WindowEnds
  <1>6. CASE Reconciler
    BY <1>6, ReconcilerWindow
  <1>7. CASE StatusReads
    BY <1>7 DEF StatusReads, ReadQsts
  <1>8. CASE StatusReports
    <2>1. qsts'.stamped = qsts.stamped
      BY <1>8 DEF StatusReports, StoreQsts, TypeOK, QSTS
    <2>2. UNCHANGED <<qsts, current>> \/ current' = {}
      BY <1>8 DEF StatusReports, StoreQsts
    <2>3. UNCHANGED <<qcache, pc, sts, meltdown>>
      BY <1>8 DEF StatusReports, StoreQsts
    <2> QED
      BY <2>1, <2>2, <2>3
  <1>9. ASSUME NEW z \in Zones, NEW s \in StatefulSet, StoreSts(z, s),
               sts[z] # Absent, UNCHANGED <<qsts, qcache, current, meltdown, pc>>
        PROVE  WindowInv' /\ OpensOnce
    BY <1>9
  <1>10. ASSUME NEW z \in Zones, BecomesReady(z)
         PROVE  WindowInv' /\ OpensOnce
    <2>1. sts[z] # Absent
      BY <1>10 DEF BecomesReady, Exists, Absent
    <2> QED
      BY <1>10, <2>1 DEF BecomesReady
  <1>11. ASSUME NEW z \in Zones, LosesReady(z)
         PROVE  WindowInv' /\ OpensOnce
    <2>1. sts[z] # Absent
      BY <1>11 DEF LosesReady, Absent
    <2> QED
      BY <1>11, <2>1 DEF LosesReady
  <1>12. ASSUME NEW n \in ZoneCounts, UpdateSpec(n)
         PROVE  WindowInv' /\ OpensOnce
    <2>1. qsts'.stamped = qsts.stamped
      BY <1>12 DEF UpdateSpec, StoreQsts, TypeOK, QSTS
    <2> QED
      BY <1>12, <2>1 DEF UpdateSpec, StoreQsts
  <1>13. CASE Touch
    BY <1>13 DEF Touch, StoreQsts
  <1>14. CASE NewSecret
    BY <1>14 DEF NewSecret
  <1>15. CASE ConfigMapChanges
    BY <1>15 DEF ConfigMapChanges
  <1>16. CASE APIError
    BY <1>16 DEF APIError, Error, Done
  <1>17. CASE Crash
    BY <1>17 DEF Crash, Done
  <1>18. CASE UNCHANGED vars
    BY <1>18 DEF vars
  <1> QED
    BY <1>1, <1>2, <1>3, <1>4, <1>5, <1>6, <1>7, <1>8, <1>10, <1>11, <1>12, <1>13,
       <1>14, <1>15, <1>16, <1>17, <1>18
       DEF Next, StatusReconciler, Kubelet, Environment

\* No window is open yet.
LEMMA InitWindow == Init => WindowInv
  <1> SUFFICES ASSUME Init PROVE WindowInv
    OBVIOUS
  <1>1. \A z \in Zones : sts[z] = Absent
    BY DEF Init
  <1> QED
    BY <1>1 DEF Init, WindowInv

-----------------------------------------------------------------------------
(* What a report of Ready rests on *)

\* A list that counts as ready has a ready StatefulSet in it: one of the highest
\* version, which exists.
LEMMA LatestReadyIsReady ==
  ASSUME TypeOK, LatestReady
  PROVE  \E z \in Zones : stsCache[z].ready
  <1>1. PICK z \in Zones : stsCache[z].version = MaxVersion(stsCache)
    BY MaxVersionIsHighest DEF TypeOK
  <1> QED
    BY <1>1 DEF LatestReady

\* Steps that make no StatefulSet and no copy of one ready, and report nothing.
LEMMA ServedFrame ==
  ASSUME ServedInv,
         \A z \in Zones : sts'[z].ready => sts[z].ready,
         \A z \in Zones : stsCache'[z].ready => sts[z].ready \/ stsCache[z].ready,
         statusPc' = "report" => statusPc = "report",
         qsts'.ready => qsts.ready,
         served' = served
  PROVE  ServedInv'
  BY DEF ServedInv, ReadyMeansServed

\* Every step keeps a report resting on a StatefulSet that was ready.
LEMMA ServedStep ==
  ASSUME TypeOK, ServedInv, [Next]_vars
  PROVE  ServedInv'
  <1> USE DEF qstsVars, secretVars, stsVars, workerVars, statusVars
  <1>1. CASE DeliverQsts
    BY <1>1, ServedFrame DEF DeliverQsts
  <1>2. CASE DeliverStatefulSets
    BY <1>2, ServedFrame DEF DeliverStatefulSets
  <1>3. CASE DeliverSecret
    BY <1>3, ServedFrame DEF DeliverSecret
  <1>4. CASE TimerFires
    BY <1>4, ServedFrame DEF TimerFires
  <1>5. CASE WindowEnds
    BY <1>5, ServedFrame DEF WindowEnds
  <1>6. CASE SecretMissing
    BY <1>6, ServedFrame DEF SecretMissing
  <1>7. CASE FirstReconcile
    BY <1>7, ServedFrame DEF FirstReconcile
  <1>8. CASE Stamp
    <2>1. qsts'.ready = qsts.ready
      BY <1>8 DEF Stamp, StoreQsts, TypeOK, QSTS
    <2> QED
      BY <1>8, <2>1, ServedFrame DEF Stamp
  <1>9. CASE StampConflicts
    BY <1>9, ServedFrame DEF StampConflicts
  <1>10. CASE InMeltdown
    BY <1>10, ServedFrame DEF InMeltdown
  <1>11. CASE Calculate
    BY <1>11, ServedFrame DEF Calculate
  <1>12. CASE ZoneInPlace
    BY <1>12, ServedFrame DEF ZoneInPlace
  <1>13. CASE ZoneWritten
    <2>1. \A z \in Zones : sts'[z].ready = sts[z].ready
      BY <1>13 DEF ZoneWritten, StoreSts, Desired, TypeOK, StatefulSet
    <2>2. UNCHANGED <<stsCache, statusPc, qsts, served>>
      BY <1>13 DEF ZoneWritten, StoreSts
    <2> QED
      BY <2>1, <2>2, ServedFrame
  <1>14. CASE ZoneConflicts
    BY <1>14, ServedFrame DEF ZoneConflicts
  <1>15. CASE StatusReads
    <2>1. LatestReady => served # {}
      BY LatestReadyIsReady DEF ServedInv
    <2>2. /\ UNCHANGED <<sts, stsCache, qsts, served>>
          /\ statusPc' = "report" => LatestReady \/ statusPc = "report"
      BY <1>15 DEF StatusReads
    <2> QED
      BY <2>1, <2>2 DEF ServedInv, ReadyMeansServed
  <1>16. CASE StatusReports
    <2>1. UNCHANGED <<sts, stsCache, served>> /\ statusPc = "report" /\ statusPc' = "idle"
      BY <1>16 DEF StatusReports
    <2> QED
      BY <2>1 DEF ServedInv, ReadyMeansServed
  <1>17. ASSUME NEW z \in Zones, BecomesReady(z)
         PROVE  ServedInv'
    <2>1. /\ served' = served \cup {z}
          /\ UNCHANGED <<stsCache, statusPc, qsts>>
      BY <1>17 DEF BecomesReady, StoreSts
    <2>2. \A y \in Zones : y # z => sts'[y] = sts[y]
      BY <1>17 DEF BecomesReady, StoreSts, TypeOK
    <2> QED
      BY <2>1, <2>2 DEF ServedInv, ReadyMeansServed
  <1>18. ASSUME NEW z \in Zones, LosesReady(z)
         PROVE  ServedInv'
    <2>1. \A y \in Zones : sts'[y].ready => sts[y].ready
      BY <1>18 DEF LosesReady, StoreSts, TypeOK, StatefulSet
    <2>2. UNCHANGED <<stsCache, statusPc, qsts, served>>
      BY <1>18 DEF LosesReady, StoreSts
    <2> QED
      BY <2>1, <2>2, ServedFrame
  <1>19. ASSUME NEW n \in ZoneCounts, UpdateSpec(n)
         PROVE  ServedInv'
    <2>1. qsts'.ready = qsts.ready
      BY <1>19 DEF UpdateSpec, StoreQsts, TypeOK, QSTS
    <2> QED
      BY <1>19, <2>1, ServedFrame DEF UpdateSpec
  <1>20. CASE Touch
    BY <1>20, ServedFrame DEF Touch, StoreQsts
  <1>21. CASE NewSecret
    BY <1>21, ServedFrame DEF NewSecret
  <1>22. CASE ConfigMapChanges
    BY <1>22, ServedFrame DEF ConfigMapChanges
  <1>23. CASE APIError
    BY <1>23, ServedFrame DEF APIError
  <1>24. CASE Crash
    <2>1. /\ UNCHANGED <<sts, qsts, served>> /\ stsCache' = sts
          /\ statusPc' = "idle"
      BY <1>24 DEF Crash
    <2> QED
      BY <2>1, ServedFrame
  <1>25. CASE UNCHANGED vars
    BY <1>25, ServedFrame DEF vars
  <1> QED
    BY <1>1, <1>2, <1>3, <1>4, <1>5, <1>6, <1>7, <1>8, <1>9, <1>10, <1>11, <1>12,
       <1>13, <1>14, <1>15, <1>16, <1>17, <1>18, <1>19, <1>20, <1>21, <1>22, <1>23,
       <1>24, <1>25
       DEF Next, Reconciler, StatusReconciler, Kubelet, Environment

\* Nothing is ready and nothing is reported yet.
LEMMA InitServed == Init => ServedInv
  <1> SUFFICES ASSUME Init PROVE ServedInv
    OBVIOUS
  <1>1. \A z \in Zones : ~sts[z].ready /\ ~stsCache[z].ready
    BY DEF Init, Absent
  <1> QED
    BY <1>1 DEF Init, ServedInv, ReadyMeansServed

-----------------------------------------------------------------------------
(* Triggers *)

\* Steps that neither read nor write spec and secret of a StatefulSet, and take
\* no key.
LEMMA TriggerFrame ==
  ASSUME TriggerInv,
         UNCHANGED <<qcache, secretCache, pc, job>>,
         ~qevent' => ~qevent /\ qsts'.gen = qsts.gen,
         qsts'.gen = qcache.gen => qsts'.gen = qsts.gen /\ qsts'.zones = qsts.zones,
         \A z \in Zones : sts'[z].gen = sts[z].gen /\ sts'[z].secret = sts[z].secret,
         lost' = {} => lost = {},
         lost' = {} /\ meltdown' => timer' = "window",
         Unqueued' => Unqueued
  PROVE  TriggerInv'
  <1>1. \A z \in Zones : UpToDate(sts[z])' <=> UpToDate(sts[z])
    BY DEF UpToDate
  <1>2. UpToDate(job)' <=> UpToDate(job)
    BY DEF UpToDate
  <1> QED
    BY <1>1, <1>2 DEF TriggerInv

\* A reconcile that fails comes back, and the window cannot be open.
LEMMA RetryStep ==
  ASSUME TriggerInv, Arm("retry"), pc' = "idle",
         UNCHANGED <<qsts, qcache, qevent, secretCache, sts, meltdown>>
  PROVE  TriggerInv'
  <1>1. timer' = "retry" /\ (lost' = {} => lost = {} /\ timer # "window")
    BY DEF Arm
  <1>2. ~Unqueued'
    BY <1>1 DEF Unqueued
  <1>3. lost' = {} => ~meltdown
    BY <1>1 DEF TriggerInv
  <1> QED
    BY <1>1, <1>2, <1>3 DEF TriggerInv

\* A zone is done; after the last, all of them are what the job was.
LEMMA ZoneTrigger ==
  ASSUME TypeOK, OrderInv, TriggerInv, ZoneInPlace \/ ZoneWritten
  PROVE  TriggerInv'
  <1>1. /\ pc = "zones" /\ NextZone
        /\ UNCHANGED <<qsts, qcache, qevent, secretCache, queued, timer, meltdown, lost>>
    BY DEF ZoneInPlace, ZoneWritten, qstsVars, secretVars
  <1>2. ZoneDone
    BY InPlaceStep, WrittenStep
  <1>3. \A z \in Zones : sts'[z].gen \in Nat /\ sts'[z].secret \in Nat
    <2>1. TypeOK'
      BY <1>1, ReconcilerType DEF Reconciler
    <2> QED
      BY <2>1 DEF TypeOK, StatefulSet
  <1>4. \A z \in Zones : z <= job.zone => sts'[z].gen = job.gen /\ sts'[z].secret = job.secret
    BY <1>2, <1>3, Numbers DEF ZoneDone, Behind
  <1>5. \A z \in Zones : sts'[z].gen > 0 => sts'[z].secret > 0
    <2>1. \A z \in Zones : sts'[z] = sts[z] \/ z = job.zone
      BY DEF ZoneInPlace, ZoneWritten, StoreSts, stsVars, TypeOK
    <2> QED
      BY <1>1, <1>4, <2>1, Numbers DEF TriggerInv
  <1>6. CASE job.zone + 1 < job.zones
    <2>1. pc' = "zones" /\ job' = [job EXCEPT !.zone = @ + 1]
      BY <1>1, <1>6 DEF NextZone
    <2>2. job'.gen = job.gen /\ job'.secret = job.secret /\ job'.zones = job.zones
      BY <2>1 DEF TypeOK, Job
    <2>3. UpToDate(job)' <=> UpToDate(job)
      BY <1>1, <2>2 DEF UpToDate
    <2>4. Unqueued' <=> Unqueued
      BY <1>1 DEF Unqueued
    <2> QED
      BY <1>1, <1>5, <2>1, <2>2, <2>3, <2>4 DEF TriggerInv
  <1>7. CASE ~(job.zone + 1 < job.zones)
    <2>1. pc' = "idle"
      BY <1>1, <1>7 DEF NextZone, Done
    <2>2. Unqueued' <=> Unqueued
      BY <1>1 DEF Unqueued
    <2>3. ASSUME UpToDate(job), job.zones = qcache.zones, NEW z \in Zones, z < qcache.zones
          PROVE  UpToDate(sts[z])'
      <3>1. z <= job.zone
        BY <1>7, <2>3, Numbers
      <3> QED
        BY <1>1, <1>4, <2>3, <3>1 DEF UpToDate
    <2> QED
      BY <1>1, <1>5, <2>1, <2>2, <2>3 DEF TriggerInv
  <1> QED
    BY <1>6, <1>7

\* The steps of the reconciler.
LEMMA ReconcilerTrigger ==
  ASSUME TypeOK, OrderInv, TriggerInv, Reconciler
  PROVE  TriggerInv'
  <1> USE DEF qstsVars, secretVars, stsVars
  <1>1. CASE SecretMissing
    BY <1>1, RetryStep DEF SecretMissing, TakeKey, workerVars
  <1>2. CASE FirstReconcile
    BY <1>2 DEF FirstReconcile, TriggerInv
  <1>3. CASE Stamp
    <2>1. /\ qsts'.gen = qsts.gen /\ qsts'.zones = qsts.zones
          /\ qevent' = qevent /\ qcache' = qcache
      BY <1>3 DEF Stamp, StoreQsts, TypeOK, QSTS
    <2>2. timer' # "none" /\ (lost' = {} => lost = {} /\ timer' = "window")
      BY <1>3 DEF Stamp, Arm
    <2>3. ~Unqueued' /\ pc' = "idle" /\ UNCHANGED <<sts, secretCache>>
      BY <1>3, <2>2 DEF Stamp, Unqueued
    <2> QED
      BY <2>1, <2>2, <2>3 DEF TriggerInv
  <1>4. CASE StampConflicts
    BY <1>4, RetryStep DEF StampConflicts, Error, Done
  <1>5. CASE InMeltdown
    <2>1. lost = {} => ~Unqueued'
      BY <1>5 DEF InMeltdown, TriggerInv, Unqueued
    <2> QED
      BY <1>5, <2>1 DEF InMeltdown, TakeKey, TriggerInv, workerVars
  <1>6. CASE Calculate
    <2>1. /\ job'.gen = qcache.gen /\ job'.secret = secretCache /\ secretCache > 0
          /\ job'.zones = qcache.zones /\ pc' = "zones" /\ ~meltdown
          /\ UNCHANGED <<qsts, qcache, qevent, secretCache, sts, meltdown, lost>>
      BY <1>6 DEF Calculate
    <2>2. UpToDate(job)'
      BY <2>1 DEF UpToDate
    <2> QED
      BY <2>1, <2>2 DEF TriggerInv
  <1>7. CASE ZoneInPlace \/ ZoneWritten
    BY <1>7, ZoneTrigger
  <1>8. CASE ZoneConflicts
    BY <1>8, RetryStep DEF ZoneConflicts, Error, Done
  <1> QED
    BY <1>1, <1>2, <1>3, <1>4, <1>5, <1>6, <1>7, <1>8 DEF Reconciler

\* Every step keeps what is still to be done on its way.
LEMMA TriggerStep ==
  ASSUME TypeOK, OrderInv, TriggerInv, [Next]_vars
  PROVE  TriggerInv'
  <1> USE DEF qstsVars, secretVars, stsVars, workerVars
  <1>m. lost = {} /\ meltdown => timer = "window"
    BY DEF TriggerInv
  <1>1. CASE DeliverQsts
    <2>1. /\ qcache' = qsts /\ qevent' = FALSE /\ (Unqueued' => Unqueued /\ ~qevent)
          /\ UNCHANGED <<qsts, secretCache, sts, timer, meltdown, pc, job, lost>>
      BY <1>1 DEF DeliverQsts, Unqueued
    <2>2. ~qevent => qcache'.gen = qcache.gen /\ qcache'.zones = qcache.zones
      BY <2>1 DEF TriggerInv
    <2>3. ~qevent => /\ UpToDate(job)' <=> UpToDate(job)
                     /\ \A z \in Zones : UpToDate(sts[z])' <=> UpToDate(sts[z])
      BY <2>1, <2>2 DEF UpToDate
    <2> QED
      BY <2>1, <2>2, <2>3 DEF TriggerInv
  <1>2. CASE DeliverStatefulSets
    BY <1>2, <1>m, TriggerFrame DEF DeliverStatefulSets, Unqueued
  <1>3. CASE DeliverSecret
    <2>1. /\ secretCache' = secret /\ secretCache < secret
          /\ UNCHANGED <<qsts, qcache, qevent, sts, timer, meltdown, pc, job, lost>>
      BY <1>3, Numbers DEF DeliverSecret, OrderInv, CopiesInv
    <2>u. Unqueued' => Unqueued /\ ~SecretOutdated(secret)
      BY <1>3, Zenon DEF DeliverSecret, Unqueued
    <2>2. Unqueued' => Unqueued /\ (UpdateOnConfigChange => secretCache = 0)
      BY <2>1, <2>u, Numbers DEF SecretOutdated
    <2>3. pc = "zones" => secretCache > 0
      BY Numbers DEF OrderInv, JobInv, TriggerInv
    <2>4. ASSUME NEW z \in Zones, UpToDate(sts[z])
          PROVE  secretCache > 0
      <3>1. sts[z].gen > 0
        BY <2>4 DEF UpToDate, TypeOK, QSTS
      <3> QED
        BY <3>1, Numbers DEF TriggerInv, OrderInv, CopiesInv
    <2>5. ASSUME Unqueued', pc = "zones", UpToDate(job)
          PROVE  UpToDate(job)'
      BY <2>1, <2>2, <2>3, <2>5, Numbers DEF UpToDate
    <2>6. ASSUME Unqueued', NEW z \in Zones, UpToDate(sts[z])
          PROVE  UpToDate(sts[z])'
      BY <2>1, <2>2, <2>4, <2>6, Numbers DEF UpToDate
    <2> QED
      BY <2>1, <2>2, <2>5, <2>6 DEF TriggerInv
  <1>4. CASE TimerFires
    <2>1. lost' = {} /\ meltdown' => timer' = "window"
      BY <1>4, <1>m DEF TimerFires
    <2> QED
      BY <1>4, <2>1, TriggerFrame DEF TimerFires, Unqueued
  <1>5. CASE WindowEnds
    BY <1>5, TriggerFrame DEF WindowEnds, Unqueued
  <1>6. CASE Reconciler
    BY <1>6, ReconcilerTrigger
  <1>7. CASE StatusReads
    BY <1>7, <1>m, TriggerFrame DEF StatusReads, Unqueued
  <1>8. CASE StatusReports
    <2>1. /\ qsts'.gen = qsts.gen /\ qsts'.zones = qsts.zones
          /\ qevent' = qevent /\ qcache' = qcache
      BY <1>8 DEF StatusReports, StoreQsts, TypeOK, QSTS
    <2> QED
      BY <1>8, <2>1, <1>m, TriggerFrame DEF StatusReports, Unqueued
  <1>9. ASSUME NEW z \in Zones, NEW b \in BOOLEAN, StoreSts(z, [sts[z] EXCEPT !.ready = b]),
               UNCHANGED <<qsts, qcache, qevent, secretCache, queued, timer, meltdown,
                           pc, job, lost>>
        PROVE  TriggerInv'
    <2>1. \A y \in Zones : sts'[y].gen = sts[y].gen /\ sts'[y].secret = sts[y].secret
      BY <1>9 DEF StoreSts, TypeOK, StatefulSet
    <2> QED
      BY <1>9, <2>1, <1>m, TriggerFrame DEF Unqueued
  <1>10. ASSUME NEW z \in Zones, BecomesReady(z) \/ LosesReady(z)
         PROVE  TriggerInv'
    BY <1>9, <1>10 DEF BecomesReady, LosesReady
  <1>11. ASSUME NEW n \in ZoneCounts, UpdateSpec(n)
         PROVE  TriggerInv'
    <2>1. /\ qsts'.gen = qsts.gen + 1 /\ qcache' = qcache
          /\ qevent' = (qevent \/ qsts'.gen # qsts.gen)
      BY <1>11 DEF UpdateSpec, StoreQsts, TypeOK, QSTS
    <2>n. qsts'.gen # qcache.gen /\ qsts'.gen # qsts.gen
      BY <2>1, Numbers DEF OrderInv, CopiesInv
    <2>2. qsts'.gen # qcache.gen /\ qevent'
      BY <2>1, <2>n
    <2> QED
      BY <1>11, <2>1, <2>2, <1>m, TriggerFrame DEF UpdateSpec, Unqueued
  <1>12. CASE Touch
    BY <1>12, <1>m, TriggerFrame DEF Touch, StoreQsts, Unqueued
  <1>13. CASE NewSecret
    BY <1>13, <1>m, TriggerFrame DEF NewSecret, Unqueued
  <1>14. CASE ConfigMapChanges
    BY <1>14, <1>m, TriggerFrame DEF ConfigMapChanges, Unqueued
  <1>15. CASE APIError
    BY <1>15, RetryStep DEF APIError, Error, Done
  <1>16. CASE Crash
    <2>1. /\ qcache' = qsts /\ pc' = "idle" /\ lost' # {}
          /\ UNCHANGED <<qsts, sts>>
      BY <1>16 DEF Crash, Done
    <2> QED
      BY <2>1 DEF TriggerInv
  <1>17. CASE UNCHANGED vars
    BY <1>17, <1>m, TriggerFrame DEF vars, Unqueued
  <1> QED
    BY <1>1, <1>2, <1>3, <1>4, <1>5, <1>6, <1>7, <1>8, <1>10, <1>11, <1>12, <1>13,
       <1>14, <1>15, <1>16, <1>17
       DEF Next, StatusReconciler, Kubelet, Environment

\* The first key is queued.
LEMMA InitTrigger == Init => TriggerInv
  <1> SUFFICES ASSUME Init PROVE TriggerInv
    OBVIOUS
  <1>1. \A z \in Zones : sts[z].gen = 0
    BY DEF Init, Absent
  <1> QED
    BY <1>1 DEF Init, TriggerInv, Unqueued

-----------------------------------------------------------------------------
(* Where the zones come from *)

\* Only a client changes the spec.
LEMMA SpecWriters ==
  ASSUME TypeOK, [Next]_vars
  PROVE  \/ qsts'.gen = qsts.gen /\ qsts'.zones = qsts.zones
         \/ \E n \in ZoneCounts : UpdateSpec(n)
  <1> USE DEF qstsVars
  <1>1. CASE Reconciler
    BY <1>1 DEF Reconciler, SecretMissing, FirstReconcile, ReadQsts, Stamp, StoreQsts,
                StampConflicts, InMeltdown, Calculate, ZoneInPlace, ZoneWritten,
                ZoneConflicts, TypeOK, QSTS
  <1>2. CASE StatusReconciler
    BY <1>2 DEF StatusReconciler, StatusReads, StatusReports, StoreQsts, TypeOK, QSTS
  <1>3. CASE Kubelet
    BY <1>3 DEF Kubelet, BecomesReady
  <1>4. CASE Environment
    BY <1>4 DEF Environment, Touch, StoreQsts, NewSecret, ConfigMapChanges, LosesReady,
                APIError, Crash
  <1>5. CASE UNCHANGED vars
    BY <1>5 DEF vars
  <1> QED
    BY <1>1, <1>2, <1>3, <1>4, <1>5
       DEF Next, DeliverQsts, DeliverStatefulSets, DeliverSecret, TimerFires, WindowEnds

\* What the worker has in hand is computed once, handed from zone to zone, or
\* dropped.
LEMMA JobWriters ==
  ASSUME [Next]_vars
  PROVE  \/ UNCHANGED <<pc, job>> \/ pc' # "zones"
         \/ Calculate
         \/ pc = "zones" /\ NextZone
  <1> USE DEF workerVars
  <1>1. CASE Reconciler
    BY <1>1 DEF Reconciler, SecretMissing, FirstReconcile, Stamp, StampConflicts, Error,
                Done, InMeltdown, ZoneInPlace, ZoneWritten, ZoneConflicts
  <1>2. CASE StatusReconciler \/ Kubelet
    BY <1>2 DEF StatusReconciler, StatusReads, StatusReports, Kubelet, BecomesReady
  <1>3. CASE Environment
    BY <1>3 DEF Environment, UpdateSpec, Touch, NewSecret, ConfigMapChanges, LosesReady,
                APIError, Error, Done, Crash
  <1>4. CASE UNCHANGED vars
    BY <1>4 DEF vars
  <1> QED
    BY <1>1, <1>2, <1>3, <1>4
       DEF Next, DeliverQsts, DeliverStatefulSets, DeliverSecret, TimerFires, WindowEnds

\* Every step keeps the zones in hand those of the newest spec, or of one that
\* is not the newest.
LEMMA SourceStep ==
  ASSUME TypeOK, OrderInv, TriggerInv, SourceInv, [Next]_vars
  PROVE  SourceInv'
  <1>1. SUFFICES ASSUME pc' = "zones" PROVE SourceInv'
    BY DEF SourceInv
  <1>2. CASE \E n \in ZoneCounts : UpdateSpec(n)
    <2>1. qsts'.gen = qsts.gen + 1 /\ UNCHANGED <<pc, job>>
      BY <1>2 DEF UpdateSpec, StoreQsts, workerVars, TypeOK, QSTS
    <2>2. job.gen <= qcache.gen /\ qcache.gen <= qsts.gen
      BY <1>1, <2>1 DEF OrderInv, CopiesInv, JobInv
    <2>3. job'.gen # qsts'.gen
      BY <2>1, <2>2, Numbers
    <2>4. QED
      BY <1>1, <2>1, <2>3 DEF SourceInv
  <1>3. CASE qsts'.gen = qsts.gen /\ qsts'.zones = qsts.zones
    <2>1. CASE UNCHANGED <<pc, job>>
      BY <1>3, <2>1 DEF SourceInv
    <2>2. CASE Calculate
      <3>1. job' = [version |-> MaxVersion(stsCache) + 1, gen |-> qcache.gen,
                    secret |-> secretCache, zones |-> qcache.zones, zone |-> 0]
        BY <2>2 DEF Calculate
      <3>2. qcache.gen = qsts.gen => qcache.zones = qsts.zones
        BY DEF TriggerInv
      <3>3. QED
        BY <1>3, <3>1, <3>2, Numbers DEF SourceInv
    <2>3. CASE pc = "zones" /\ NextZone
      <3>1. job' = [job EXCEPT !.zone = @ + 1]
        BY <1>1, <2>3 DEF NextZone, Done
      <3>2. job'.version = job.version /\ job'.gen = job.gen /\ job'.zones = job.zones
        BY <3>1 DEF TypeOK, Job
      <3>3. QED
        BY <1>3, <2>3, <3>2 DEF SourceInv
    <2>4. QED
      BY <1>1, <2>1, <2>2, <2>3, JobWriters
  <1>4. QED
    BY <1>2, <1>3, SpecWriters

\* Nothing is being written yet.
LEMMA InitSource == Init => SourceInv
  BY DEF Init, SourceInv

-----------------------------------------------------------------------------
(* What is owed to who waits for Ready *)

\* Steps that let the informer show nothing new, and keep what is on its way.
LEMMA DueFrame ==
  ASSUME ReportIsDue,
         stsCache' = stsCache,
         qsts.ready => qsts'.ready,
         dropped => dropped',
         statusQueued => statusQueued',
         statusPc = "report" => statusPc' = "report"
  PROVE  ReportIsDue'
  <1>1. LatestReady' => LatestReady
    BY DEF LatestReady, MaxVersion
  <1> QED
    BY <1>1 DEF ReportIsDue

\* Every step keeps a report that is due on its way.
LEMMA DueStep ==
  ASSUME TypeOK, ReportIsDue, [Next]_vars
  PROVE  ReportIsDue'
  <1> USE DEF qstsVars, secretVars, stsVars, workerVars, statusVars
  <1>1. CASE DeliverQsts \/ DeliverSecret \/ TimerFires \/ WindowEnds
    BY <1>1, DueFrame DEF DeliverQsts, DeliverSecret, TimerFires, WindowEnds
  <1>2. CASE DeliverStatefulSets
    BY <1>2 DEF DeliverStatefulSets, ReportIsDue
  <1>3. CASE Reconciler
    <2>1. CASE Stamp
      <3>1. qsts'.ready = qsts.ready
        BY <2>1 DEF Stamp, StoreQsts, TypeOK, QSTS
      <3>2. QED
        BY <2>1, <3>1, DueFrame DEF Stamp
    <2>2. CASE SecretMissing \/ FirstReconcile \/ StampConflicts \/ InMeltdown \/ Calculate
      BY <2>2, DueFrame DEF SecretMissing, FirstReconcile, StampConflicts, InMeltdown,
                            Calculate
    <2>3. CASE ZoneInPlace \/ ZoneWritten \/ ZoneConflicts
      BY <2>3, DueFrame DEF ZoneInPlace, ZoneWritten, StoreSts, ZoneConflicts
    <2>4. QED
      BY <1>3, <2>1, <2>2, <2>3 DEF Reconciler
  <1>4. CASE StatusReads
    <2>1. stsCache' = stsCache /\ qsts' = qsts /\ (LatestReady => statusPc' = "report")
      BY <1>4 DEF StatusReads
    <2>2. LatestReady' => LatestReady
      BY <2>1 DEF LatestReady, MaxVersion
    <2>3. QED
      BY <2>1, <2>2 DEF ReportIsDue
  <1>5. CASE StatusReports
    <2>1. CASE "status" \in current /\ ~qsts.ready
      BY <1>5, <2>1 DEF StatusReports, StoreQsts, ReportIsDue, TypeOK, QSTS
    <2>2. CASE "status" \in current /\ qsts.ready
      BY <1>5, <2>2 DEF StatusReports, ReportIsDue
    <2>3. CASE "status" \notin current
      BY <1>5, <2>3 DEF StatusReports, ReportIsDue
    <2>4. QED
      BY <2>1, <2>2, <2>3
  <1>6. CASE Kubelet
    BY <1>6, DueFrame DEF Kubelet, BecomesReady, StoreSts
  <1>7. CASE Crash
    <2>1. /\ stsCache' = sts /\ sts' = sts
          /\ statusQueued' = (\E z \in Zones : Exists(z))
      BY <1>7 DEF Crash
    <2>2. ASSUME LatestReady'
          PROVE  \E z \in Zones : Exists(z)
      <3>1. PICK z \in Zones : sts[z].version = MaxVersion(sts)
        BY MaxVersionIsHighest DEF TypeOK
      <3>2. sts[z].version > 0
        BY <2>1, <2>2, <3>1 DEF LatestReady, MaxVersion
      <3>3. QED
        BY <3>2 DEF Exists
    <2>3. QED
      BY <2>1, <2>2 DEF ReportIsDue
  <1>8. CASE Environment /\ ~Crash
    <2>1. ASSUME NEW n \in ZoneCounts, UpdateSpec(n)
          PROVE  ReportIsDue'
      <3>1. qsts'.ready = qsts.ready
        BY <2>1 DEF UpdateSpec, StoreQsts, TypeOK, QSTS
      <3>2. QED
        BY <2>1, <3>1, DueFrame DEF UpdateSpec
    <2>2. CASE Touch \/ NewSecret \/ ConfigMapChanges \/ APIError
      BY <2>2, DueFrame DEF Touch, StoreQsts, NewSecret, ConfigMapChanges, APIError
    <2>3. ASSUME NEW z \in Zones, LosesReady(z)
          PROVE  ReportIsDue'
      BY <2>3, DueFrame DEF LosesReady, StoreSts
    <2>4. QED
      BY <1>8, <2>1, <2>2, <2>3 DEF Environment
  <1>9. CASE UNCHANGED vars
    BY <1>9, DueFrame DEF vars
  <1> QED
    BY <1>1, <1>2, <1>3, <1>4, <1>5, <1>6, <1>7, <1>8, <1>9
       DEF Next, StatusReconciler

\* Nothing is ready yet.
LEMMA InitDue == Init => ReportIsDue
  <1> SUFFICES ASSUME Init PROVE ~LatestReady
    BY DEF ReportIsDue
  <1>1. TypeOK /\ \A z \in Zones : ~stsCache[z].ready
    BY InitType DEF Init, Absent
  <1> QED
    BY <1>1, LatestReadyIsReady

-----------------------------------------------------------------------------
(* A creation is kept *)

\* With a timer running, and in the window its own, no key can be missing.
LEMMA TimedKeeps ==
  ASSUME CreationIsKept,
         "timer" \notin lost' => "timer" \notin lost /\ timer' # "none",
         "timer" \notin lost' /\ meltdown' => timer' = "window"
  PROVE  CreationIsKept'
  BY DEF CreationIsKept

\* Steps that take no key, stop no timer and delete no StatefulSet.
LEMMA KeptFrame ==
  ASSUME CreationIsKept,
         UNCHANGED <<timer, meltdown, lost>>,
         queued => queued', pc # "idle" => pc' # "idle",
         \A z \in Zones : sts'[z].version = sts[z].version
  PROVE  CreationIsKept'
  BY DEF CreationIsKept, Exists

\* A key put back by an error outside the window.
LEMMA RetryKeeps ==
  ASSUME CreationIsKept, TypeOK, Arm("retry"), UNCHANGED meltdown
  PROVE  CreationIsKept'
  <1>1. timer' = "retry" /\ ("timer" \notin lost' => "timer" \notin lost /\ timer # "window")
    BY DEF Arm, TypeOK
  <1>2. "timer" \notin lost' => ~meltdown'
    BY <1>1 DEF CreationIsKept
  <1> QED
    BY <1>1, <1>2, TimedKeeps

\* Once a zone is in place or written there is a StatefulSet.
LEMMA ZoneKeeps ==
  ASSUME CreationIsKept, IInv, ZoneInPlace \/ ZoneWritten
  PROVE  CreationIsKept'
  <1>1. TypeOK /\ job.zone \in Zones /\ job.version > 0
    BY DEF IInv, TypeOK, Job, SourceInv, ZoneInPlace, ZoneWritten
  <1>2. sts'[job.zone].version > 0
    <2>1. CASE ZoneInPlace
      <3>1. stsCache[job.zone] = Desired(stsCache[job.zone]) /\ sts' = sts
        BY <2>1 DEF ZoneInPlace, InPlace, stsVars
      <3>2. stsCache[job.zone] \in StatefulSet
        BY <1>1 DEF TypeOK
      <3>d. Desired(stsCache[job.zone]).version = job.version
        BY <3>2 DEF Desired, StatefulSet
      <3>3. stsCache[job.zone].version <= sts[job.zone].version
        BY <1>1 DEF IInv, CopiesInv, Behind
      <3> QED
        BY <1>1, <3>1, <3>2, <3>3, <3>d DEF TypeOK, StatefulSet, Job
    <2>2. CASE ZoneWritten
      BY <1>1, <2>2 DEF ZoneWritten, StoreSts, Desired, TypeOK, StatefulSet
    <2> QED
      BY <2>1, <2>2
  <1>3. ~(\A z \in Zones : ~Exists(z))'
    BY <1>1, <1>2 DEF Exists, Zones
  <1>4. UNCHANGED <<timer, meltdown, lost>>
    BY DEF ZoneInPlace, ZoneWritten
  <1> QED
    BY <1>3, <1>4 DEF CreationIsKept

\* The steps of the reconciler keep it: who gives a key up has a timer running.
LEMMA ReconcilerKeeps ==
  ASSUME CreationIsKept, IInv, Reconciler
  PROVE  CreationIsKept'
  <1>t. TypeOK
    BY DEF IInv
  <1>1. CASE SecretMissing \/ StampConflicts \/ ZoneConflicts
    BY <1>t, <1>1, RetryKeeps DEF SecretMissing, StampConflicts, ZoneConflicts, Error
  <1>2. CASE FirstReconcile \/ Calculate
    BY <1>2 DEF FirstReconcile, Calculate, CreationIsKept, Exists, stsVars
  <1>3. CASE Stamp
    <2>1. "timer" \notin lost' => "timer" \notin lost /\ timer' = "window"
      BY <1>t, <1>3 DEF Stamp, Arm, TypeOK
    <2> QED
      BY <2>1, TimedKeeps
  <1>4. CASE InMeltdown
    BY <1>4 DEF InMeltdown, CreationIsKept
  <1>5. CASE ZoneInPlace \/ ZoneWritten
    BY <1>5, ZoneKeeps
  <1> QED
    BY <1>1, <1>2, <1>3, <1>4, <1>5 DEF Reconciler

LEMMA KeptStep ==
  ASSUME CreationIsKept, IInv, [Next]_vars
  PROVE  CreationIsKept'
  <1> USE DEF qstsVars, secretVars, stsVars, workerVars, statusVars
  <1>t. TypeOK
    BY DEF IInv
  <1>1. CASE DeliverQsts \/ DeliverStatefulSets \/ DeliverSecret
    <2>1. queued => queued'
      BY <1>1, Zenon DEF DeliverQsts, DeliverStatefulSets, DeliverSecret
    <2>2. UNCHANGED <<timer, meltdown, lost, pc, sts>>
      BY <1>1 DEF DeliverQsts, DeliverStatefulSets, DeliverSecret
    <2> QED
      BY <2>1, <2>2, KeptFrame
  <1>2. CASE TimerFires
    BY <1>2 DEF TimerFires, CreationIsKept
  <1>3. CASE WindowEnds
    BY <1>3 DEF WindowEnds, CreationIsKept, Exists
  <1>4. CASE Reconciler
    BY <1>4, ReconcilerKeeps
  <1>5. CASE StatusReads \/ StatusReports
    BY <1>5, KeptFrame DEF StatusReads, StatusReports
  <1>6. ASSUME NEW z \in Zones, BecomesReady(z) \/ LosesReady(z)
        PROVE  CreationIsKept'
    <2>1. \A y \in Zones : sts'[y].version = sts[y].version
      BY <1>t, <1>6 DEF BecomesReady, LosesReady, StoreSts, TypeOK, StatefulSet
    <2> QED
      BY <1>6, <2>1, KeptFrame DEF BecomesReady, LosesReady
  <1>7. ASSUME NEW n \in ZoneCounts, UpdateSpec(n)
        PROVE  CreationIsKept'
    BY <1>7, KeptFrame DEF UpdateSpec
  <1>8. CASE Touch \/ NewSecret \/ ConfigMapChanges
    BY <1>8, KeptFrame DEF Touch, NewSecret, ConfigMapChanges
  <1>9. CASE APIError
    BY <1>t, <1>9, RetryKeeps DEF APIError, Error
  <1>10. CASE Crash
    <2>1. /\ "timer" \notin lost' => ~meltdown'
          /\ sts' = sts /\ ((\A z \in Zones : ~Exists(z)) => queued')
      BY <1>10 DEF Crash
    <2> QED
      BY <2>1 DEF CreationIsKept, Exists
  <1>11. CASE UNCHANGED vars
    BY <1>11, KeptFrame DEF vars
  <1> QED
    BY <1>1, <1>2, <1>3, <1>4, <1>5, <1>6, <1>7, <1>8, <1>9, <1>10, <1>11
       DEF Next, StatusReconciler, Kubelet, Environment

-----------------------------------------------------------------------------
(* The theorems *)

\* The inductive invariant of the two reconcilers: copies are old versions of
\* what they copy, the job in hand is above the zones to write and not above
\* those written, nothing is written before the window is over, a report rests
\* on a StatefulSet that was ready, and what is not up to date has its trigger.
THEOREM Inductive == Spec => []IInv
  <1>1. Init => IInv
    BY InitType, InitOrder, InitWindow, InitServed, InitTrigger,
       InitSource
       DEF IInv, OrderInv
  <1>2. IInv /\ [Next]_vars => IInv'
    BY TypeStep, OrderStep, WindowStep, ServedStep, TriggerStep, SourceStep
       DEF IInv, OrderInv
  <1> QED
    BY <1>1, <1>2, PTL DEF Spec

\* The zones are written in order, with versions counted in a cache that lags:
\* no zone is ever ahead of one before it, in version, spec or secret.
THEOREM ZonesStayInOrder == Spec => []ZonesInOrder
  <1>1. IInv => ZonesInOrder
    BY DEF IInv
  <1> QED
    BY <1>1, Inductive, PTL

\* A version counted in an old list never puts a StatefulSet back, nor do the
\* spec and the secret it was made from.
THEOREM VersionsNeverGoBack == Spec => VersionsGoUp
  <1>1. IInv /\ [Next]_vars => [\A z \in Zones : Behind(sts[z], sts'[z])]_vars
    BY OrderStep DEF IInv, OrderInv
  <1> QED
    BY <1>1, Inductive, PTL DEF Spec, VersionsGoUp

\* LastReconcile is stamped once, whatever conflicts or is restarted, and no
\* StatefulSet is created before the window it opens is over.
THEOREM WindowOpensOnce == Spec => StampedOnce
  <1>1. IInv /\ [Next]_vars =>
          [/\ meltdown' /\ ~meltdown => ~qsts.stamped
           /\ meltdown' => \A z \in Zones : sts'[z] = Absent]_vars
    BY WindowStep DEF IInv, OpensOnce
  <1> QED
    BY <1>1, Inductive, PTL DEF Spec, StampedOnce

\* Ready is not reported before a StatefulSet has had all its pods ready, from
\* whatever old list and after whatever delay the report is written.
THEOREM ReadyIsServed == Spec => []ReadyMeansServed
  <1>1. IInv => ReadyMeansServed
    BY DEF IInv, ServedInv
  <1> QED
    BY <1>1, Inductive, PTL

\* No update is forgotten without a restart or a replaced timer: as long as a
\* zone lacks the last spec or secret, something is on its way to write it.
THEOREM NoTriggerIsLost == Spec => []NothingForgotten
  <1>1. ASSUME IInv PROVE NothingForgotten
    <2> SUFFICES ASSUME lost = {}, ~qevent, ~queued, timer = "none", pc = "idle",
                        UpdateOnConfigChange => secretCache = secret
                 PROVE  Applied
      BY DEF NothingForgotten, IInv, TypeOK
    <2>1. qcache.gen = qsts.gen /\ qcache.zones = qsts.zones
      BY <1>1 DEF IInv, TriggerInv
    <2>2. \A z \in Zones : z < qcache.zones => UpToDate(sts[z])
      BY <1>1 DEF IInv, TriggerInv, Unqueued
    <2> QED
      BY <2>1, <2>2 DEF UpToDate, Applied
  <1> QED
    BY <1>1, Inductive, PTL

\* Whoever waits for Ready waits for something: when the informer shows every
\* StatefulSet of the highest version ready, Ready is reported or a report is on
\* its way, unless the last one met a newer QuarksStatefulSet and was dropped.
THEOREM NoReportIsLost == Spec => []ReportIsDue
  <1>1. TypeOK /\ ReportIsDue /\ [Next]_vars => ReportIsDue'
    BY DueStep
  <1> QED
    BY <1>1, InitDue, TypeCorrect, PTL DEF Spec

\* A creation is not forgotten, through conflicts, failures and restarts: unless
\* the timer of the window is lost, the window's timer runs as long as the
\* window is open, and without any StatefulSet the key is on its way.
THEOREM CreationIsOnItsWay == Spec => []CreationIsKept
  <1>1. Init => CreationIsKept
    BY DEF Init, CreationIsKept
  <1>2. IInv /\ CreationIsKept /\ [Next]_vars => CreationIsKept'
    BY KeptStep
  <1> QED
    BY <1>1, <1>2, Inductive, PTL DEF Spec

-----------------------------------------------------------------------------
(* The zones are a chain *)

Promised == INSTANCE ZoneChainProofs WITH
  offer <- Offered, window <- MergeWindow, content <- Made, ready <- qsts.ready

\* Steps the chain does not see.
LEMMA ChainFrame ==
  ASSUME UNCHANGED <<qsts.gen, qsts.zones, qsts.ready, secret, served>>,
         MergeWindow' = MergeWindow,
         \A z \in Zones : /\ sts'[z].version = sts[z].version
                          /\ sts'[z].gen = sts[z].gen /\ sts'[z].secret = sts[z].secret
  PROVE  UNCHANGED Chain!vars
  <1>1. Offered' = Offered
    BY DEF Offered
  <1>2. Made' = Made
    BY DEF Made
  <1> QED
    BY <1>1, <1>2 DEF Chain!vars

\* A zone that is written moves to something no newer than what the zone before
\* it has, under a version one above some zone's or used before.
LEMMA WritePublishes ==
  ASSUME IInv, ZoneWritten
  PROVE  Chain!Publish(job.zone)
  <1> DEFINE w == job.zone
             item == [version |-> job.version, gen |-> job.gen, secret |-> job.secret]
  <1>1. TypeOK /\ OrderInv /\ pc = "zones" /\ w \in Zones /\ w < job.zones
    BY Numbers DEF IInv, OrderInv, JobInv, ZoneWritten
  <1>2. /\ UNCHANGED <<qsts, secret, meltdown, served>>
        /\ sts' = [sts EXCEPT ![w] = Desired(sts[w])]
    BY DEF ZoneWritten, StoreSts, qstsVars, secretVars
  <1>3. /\ sts'[w].version = job.version /\ sts'[w].gen = job.gen
        /\ sts'[w].secret = job.secret
        /\ \A z \in Zones : z # w => sts'[z] = sts[z]
    BY <1>1, <1>2 DEF TypeOK, Desired, StatefulSet
  <1>4. /\ OrderInv' /\ Behind(sts[w], sts'[w])
    BY <1>1, WrittenStep
  <1> HIDE DEF w
  <1>5. MergeWindow = "over" /\ UNCHANGED <<Offered, MergeWindow>>
    BY <1>1, <1>2 DEF IInv, WindowInv, MergeWindow, Offered
  <1>6. Made' = [Made EXCEPT ![w] = item]
    BY <1>1, <1>3 DEF Made
  <1>7. item.version \in Chain!NextVersions
    <2>1. PICK y \in Zones : stsCache[y].version = MaxVersion(stsCache)
      BY <1>1, MaxVersionIsHighest DEF TypeOK
    <2>2. stsCache[y].version <= sts[y].version /\ job.version <= MaxVersion(stsCache) + 1
      BY <1>1 DEF OrderInv, CopiesInv, JobInv, Behind
    <2>3. job.version > 0
      BY <1>1 DEF IInv, SourceInv
    <2>4. item.version \in 1..(Made[y].version + 1)
      BY <1>1, <2>1, <2>2, <2>3, Numbers DEF Made
    <2>5. QED
      BY <2>4 DEF Chain!NextVersions, Chain!Zones, Zones
  <1>8. /\ item.gen \in Made[w].gen..Offered.gen
        /\ item.secret \in 1..Offered.secret
    <2>1. /\ sts[w].gen <= job.gen /\ job.gen <= qcache.gen /\ qcache.gen <= qsts.gen
          /\ job.secret <= secretCache /\ secretCache <= secret
      BY <1>1, <1>3, <1>4 DEF OrderInv, CopiesInv, JobInv, Behind
    <2>2. job.secret > 0
      BY <1>1 DEF IInv, TriggerInv
    <2>3. QED
      BY <1>1, <2>1, <2>2, Numbers DEF Made, Offered
  <1>9. Chain!NoNewer(Made[w], item)
    BY <1>1, <1>3, <1>4 DEF Chain!NoNewer, Behind, Made
  <1>10. w > 0 => Chain!NoNewer(item, Made[w - 1])
    <2>1. ASSUME w > 0
          PROVE  w - 1 \in Zones /\ w - 1 # w /\ w - 1 < w
      BY <1>1, <2>1 DEF Zones
    <2>2. ASSUME w > 0
          PROVE  Behind(sts'[w], sts[w - 1])
      BY <1>1, <1>3, <1>4, <2>1, <2>2 DEF OrderInv, ZonesInOrder, Behind
    <2>3. QED
      BY <1>3, <2>1, <2>2 DEF Chain!NoNewer, Behind, Made
  <1>11. item.gen = Offered.gen => w < Offered.zones
    BY <1>1 DEF IInv, SourceInv, Offered
  <1>12. item \in [version : Chain!NextVersions, gen : Made[w].gen..Offered.gen,
                   secret : 1..Offered.secret]
    BY <1>7, <1>8
  <1> HIDE DEF item
  <1>13. Chain!Publish(w)
    BY <1>2, <1>5, <1>6, <1>9, <1>10, <1>11, <1>12 DEF Chain!Publish
  <1> QED
    BY <1>13 DEF w

\* The steps of the reconciler: it opens the window and writes zones.
LEMMA ReconcilerChains ==
  ASSUME IInv, Reconciler
  PROVE  [Chain!Next]_(Chain!vars)
  <1> USE DEF qstsVars, secretVars, stsVars
  <1>1. CASE Stamp
    <2>1. ~qsts.stamped /\ meltdown' /\ qsts'.stamped
      BY <1>1 DEF Stamp, StoreQsts, IInv, WindowInv, TypeOK, QSTS
    <2>2. /\ UNCHANGED <<secret, sts, served>> /\ qsts'.gen = qsts.gen
          /\ qsts'.zones = qsts.zones /\ qsts'.ready = qsts.ready
      BY <1>1 DEF Stamp, StoreQsts, IInv, TypeOK, QSTS
    <2>3. MergeWindow = "ahead" /\ MergeWindow' = "open"
      BY <2>1 DEF MergeWindow
    <2>4. UNCHANGED <<Offered, Made>>
      BY <2>2 DEF Offered, Made
    <2>5. Chain!PassWindow
      BY <2>2, <2>3, <2>4 DEF Chain!PassWindow
    <2>6. QED
      BY <2>5 DEF Chain!Next
  <1>2. CASE ZoneWritten
    <2>1. job.zone \in Chain!Zones
      BY Numbers DEF IInv, Chain!Zones, Zones
    <2>2. QED
      BY <1>2, <2>1, WritePublishes DEF Chain!Next
  <1>3. CASE ~Stamp /\ ~ZoneWritten
    <2>1. UNCHANGED <<qsts, secret, sts, meltdown, served>>
      BY <1>3 DEF Reconciler, SecretMissing, FirstReconcile, ReadQsts, StampConflicts,
                  InMeltdown, Calculate, ZoneInPlace, ZoneConflicts
    <2>2. MergeWindow' = MergeWindow
      BY <2>1 DEF MergeWindow
    <2>3. QED
      BY <2>1, <2>2, ChainFrame
  <1> QED
    BY <1>1, <1>2, <1>3

\* What is offered changes by a client's hand.
LEMMA ClientsOffer ==
  ASSUME IInv, NewSecret \/ \E n \in ZoneCounts : UpdateSpec(n)
  PROVE  Chain!Offer
  <1>1. CASE NewSecret
    <2>1. secret' = secret + 1 /\ UNCHANGED <<qsts, sts, meltdown, served>>
      BY <1>1 DEF NewSecret, qstsVars, stsVars
    <2>2. Offered' = [Offered EXCEPT !.secret = @ + 1]
      BY <2>1 DEF Offered
    <2>3. UNCHANGED <<MergeWindow, Made>>
      BY <2>1 DEF MergeWindow, Made
    <2>4. QED
      BY <2>1, <2>2, <2>3 DEF Chain!Offer
  <1>2. ASSUME NEW n \in ZoneCounts, UpdateSpec(n)
        PROVE  Chain!Offer
    <2>1. /\ qsts' = [qsts EXCEPT !.gen = @ + 1, !.zones = n]
          /\ UNCHANGED <<secret, sts, meltdown, served>>
      BY <1>2 DEF UpdateSpec, StoreQsts, secretVars, stsVars
    <2>2. /\ qsts'.gen = qsts.gen + 1 /\ qsts'.zones = n
          /\ qsts'.stamped = qsts.stamped /\ qsts'.ready = qsts.ready
      BY <2>1 DEF IInv, TypeOK, QSTS
    <2>3. Offered' = [Offered EXCEPT !.gen = @ + 1, !.zones = n] /\ n \in 1..MaxZones
      <3> DEFINE Offers == [gen : Nat, zones : Nat, secret : Nat]
      <3>1. n \in Nat /\ n \in 1..MaxZones /\ qsts.zones \in Nat
        BY DEF IInv, TypeOK, QSTS
      <3>2. TypeOK /\ secret' = secret
        BY <2>1 DEF IInv
      <3>3. Offered \in Offers /\ Offered' \in Offers
        BY <2>2, <3>1, <3>2, Numbers DEF Offered
      <3>4. /\ Offered'.gen = Offered.gen + 1 /\ Offered'.zones = n
            /\ Offered'.secret = Offered.secret
        BY <2>2, <3>2 DEF Offered
      <3>5. QED
        BY <3>1, <3>3, <3>4
    <2>4. UNCHANGED <<MergeWindow, Made>>
      BY <2>1, <2>2 DEF MergeWindow, Made
    <2>5. QED
      BY <2>1, <2>2, <2>3, <2>4 DEF Chain!Offer
  <1> QED
    BY <1>1, <1>2

\* The pods of a zone become ready.
LEMMA PodsServe ==
  ASSUME IInv, NEW z \in Zones, BecomesReady(z)
  PROVE  Chain!Serve(z)
  <1>1. /\ sts[z].version > 0 /\ served' = served \cup {z}
        /\ UNCHANGED <<qsts, secret, meltdown>>
        /\ sts' = [sts EXCEPT ![z] = [sts[z] EXCEPT !.ready = TRUE]]
    BY DEF BecomesReady, Exists, StoreSts, qstsVars, secretVars
  <1>2. \A y \in Zones : /\ sts'[y].version = sts[y].version
                         /\ sts'[y].gen = sts[y].gen /\ sts'[y].secret = sts[y].secret
    BY <1>1 DEF IInv, TypeOK, StatefulSet
  <1>3. UNCHANGED <<Offered, MergeWindow, Made>>
    BY <1>1, <1>2 DEF Offered, MergeWindow, Made
  <1>4. Made[z].version > 0
    BY <1>1 DEF Made
  <1> QED
    BY <1>1, <1>3, <1>4 DEF Chain!Serve

\* A report of Ready rests on a zone that has served.
LEMMA ReportsChain ==
  ASSUME IInv, StatusReports
  PROVE  Chain!Report \/ UNCHANGED Chain!vars
  <1>1. UNCHANGED <<secret, sts, meltdown, served>> /\ served # {}
    BY DEF StatusReports, secretVars, stsVars, IInv, ServedInv
  <1>2. CASE "status" \in current /\ ~qsts.ready
    <2>1. /\ qsts'.gen = qsts.gen /\ qsts'.zones = qsts.zones
          /\ qsts'.stamped = qsts.stamped /\ qsts'.ready = TRUE
      BY <1>2 DEF StatusReports, StoreQsts, IInv, TypeOK, QSTS
    <2>2. UNCHANGED <<Offered, MergeWindow, Made>>
      BY <1>1, <2>1 DEF Offered, MergeWindow, Made
    <2>3. QED
      BY <1>1, <2>1, <2>2 DEF Chain!Report
  <1>3. CASE ~("status" \in current /\ ~qsts.ready)
    <2>1. qsts' = qsts
      BY <1>3 DEF StatusReports, qstsVars
    <2>2. MergeWindow' = MergeWindow
      BY <1>1, <2>1 DEF MergeWindow
    <2>3. QED
      BY <1>1, <2>1, <2>2, ChainFrame
  <1> QED
    BY <1>2, <1>3

\* Every step maps to a step of the chain or to none.
LEMMA StepChains ==
  ASSUME IInv, [Next]_vars
  PROVE  [Chain!Next]_(Chain!vars)
  <1> USE DEF qstsVars, secretVars, stsVars
  <1>1. CASE Reconciler
    BY <1>1, ReconcilerChains
  <1>2. CASE NewSecret \/ \E n \in ZoneCounts : UpdateSpec(n)
    BY <1>2, ClientsOffer DEF Chain!Next
  <1>3. CASE Kubelet
    BY <1>3, PodsServe DEF Kubelet, Chain!Next, Chain!Zones, Zones
  <1>4. CASE StatusReports
    BY <1>4, ReportsChain DEF Chain!Next
  <1>5. CASE WindowEnds
    <2>1. meltdown /\ ~meltdown' /\ UNCHANGED <<qsts, secret, sts, served>>
      BY <1>5 DEF WindowEnds
    <2>2. UNCHANGED <<Offered, Made>>
      BY <2>1 DEF Offered, Made
    <2>3. CASE qsts.stamped
      <3>1. MergeWindow = "open" /\ MergeWindow' = "over"
        BY <2>1, <2>3 DEF MergeWindow
      <3>2. Chain!PassWindow
        BY <2>1, <2>2, <3>1 DEF Chain!PassWindow
      <3>3. QED
        BY <3>2 DEF Chain!Next
    <2>4. CASE ~qsts.stamped
      BY <2>1, <2>2, <2>4 DEF MergeWindow, Chain!vars
    <2>5. QED
      BY <2>3, <2>4
  <1>6. ASSUME NEW z \in Zones, LosesReady(z)
        PROVE  UNCHANGED Chain!vars
    <2>1. /\ UNCHANGED <<qsts, secret, meltdown, served>>
          /\ sts' = [sts EXCEPT ![z] = [sts[z] EXCEPT !.ready = FALSE]]
      BY <1>6 DEF LosesReady, StoreSts
    <2>2. \A y \in Zones : /\ sts'[y].version = sts[y].version
                           /\ sts'[y].gen = sts[y].gen /\ sts'[y].secret = sts[y].secret
      BY <2>1 DEF IInv, TypeOK, StatefulSet
    <2>3. MergeWindow' = MergeWindow
      BY <2>1 DEF MergeWindow
    <2>4. QED
      BY <2>1, <2>2, <2>3, ChainFrame
  <1>7. ASSUME UNCHANGED <<qsts, secret, sts, meltdown, served>>
        PROVE  UNCHANGED Chain!vars
    <2>1. MergeWindow' = MergeWindow
      BY <1>7 DEF MergeWindow
    <2>2. QED
      BY <1>7, <2>1, ChainFrame
  <1>8. CASE DeliverQsts \/ DeliverStatefulSets \/ DeliverSecret \/ TimerFires \/ StatusReads
    BY <1>7, <1>8 DEF DeliverQsts, DeliverStatefulSets, DeliverSecret, TimerFires,
                      StatusReads
  <1>9. CASE Touch \/ ConfigMapChanges \/ APIError \/ Crash
    BY <1>7, <1>9 DEF Touch, StoreQsts, ConfigMapChanges, APIError, Crash
  <1>10. CASE UNCHANGED vars
    BY <1>7, <1>10 DEF vars
  <1> QED
    BY <1>1, <1>2, <1>3, <1>4, <1>5, <1>6, <1>8, <1>9, <1>10
       DEF Next, StatusReconciler, Environment

\* The zones of a QuarksStatefulSet are a chain: whatever the informers, the
\* queue, timers, conflicts, retries and restarts do to the two reconcilers.
THEOREM Refinement == Spec => ImplementsZoneChain
  <1>1. Init => Chain!Init
    <2> SUFFICES ASSUME Init PROVE Chain!Init
      OBVIOUS
    <2>1. /\ qsts.gen = 1 /\ qsts.zones \in 1..MaxZones /\ ~qsts.stamped /\ ~qsts.ready
          /\ secret \in Nat /\ served = {}
      <3>1. /\ qsts.gen \in {1} /\ qsts.zones \in ZoneCounts
            /\ qsts.stamped \in {FALSE} /\ qsts.ready \in {FALSE}
        BY DEF Init
      <3>2. secret \in InitialSecrets /\ served = {}
        BY DEF Init
      <3>3. secret \in Nat
        BY <3>2
      <3>4. QED
        BY <3>1, <3>2, <3>3
    <2>2. Made = [z \in Chain!Zones |-> Chain!Nothing]
      BY DEF Init, Absent, Made, Chain!Zones, Zones, Chain!Nothing
    <2>3. /\ Offered \in [gen : {1}, zones : 1..MaxZones, secret : Nat]
          /\ MergeWindow = "ahead" /\ qsts.ready = FALSE
      BY <2>1, InitType DEF Offered, MergeWindow, TypeOK, QSTS
    <2>4. QED
      BY <2>1, <2>2, <2>3 DEF Chain!Init
  <1>2. IInv /\ [Next]_vars => [Chain!Next]_(Chain!vars)
    BY StepChains
  <1> QED
    BY <1>1, <1>2, Inductive, PTL DEF Spec, ImplementsZoneChain, Chain!Spec

\* And so they keep the chain's promise.
THEOREM PromiseIsKept == Spec => []Chain!Promise
  <1>1. Promised!Spec => []Promised!Promise
    BY Promised!ChainKeepsPromise
  <1>2. Chain!Init <=> Promised!Init
    BY DEF Chain!Init, Promised!Init, Chain!Zones, Promised!Zones, Chain!Nothing,
           Promised!Nothing
  <1>3. [Chain!Next]_(Chain!vars) <=> [Promised!Next]_(Promised!vars)
    BY DEF Chain!Next, Chain!vars, Chain!Offer, Chain!PassWindow, Chain!Publish,
           Chain!Serve, Chain!Report, Chain!NextVersions, Chain!NoNewer, Chain!Zones,
           Promised!Next, Promised!vars, Promised!Offer, Promised!PassWindow,
           Promised!Publish, Promised!Serve, Promised!Report, Promised!NextVersions,
           Promised!NoNewer, Promised!Zones
  <1>4. Chain!Promise <=> Promised!Promise
    BY DEF Chain!Promise, Promised!Promise, Chain!Zones, Promised!Zones, Chain!NoNewer,
           Promised!NoNewer, Chain!Nothing, Promised!Nothing
  <1> QED
    BY <1>1, <1>2, <1>3, <1>4, Refinement, PTL
       DEF ImplementsZoneChain, Chain!Spec, Promised!Spec
=============================================================================
