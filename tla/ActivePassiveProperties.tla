----------------------- MODULE ActivePassiveProperties -----------------------
(***************************************************************************)
(* What the active labels, the pod mutator and the start of the operator   *)
(* promise together, and the inductive invariant of the proofs.            *)
(***************************************************************************)
EXTENDS ActivePassive

-----------------------------------------------------------------------------
(* Safety *)

ProcessTypeOK ==
  /\ phase \in Phases /\ serving \in BOOLEAN
  /\ cert \in Certificates /\ secret \in Certificates
  /\ issued \in Certificates /\ hook \in Certificates

\* Every variable stays within its type.
TypeOK ==
  /\ ProcessTypeOK
  /\ present \in BOOLEAN /\ version \in [Zones -> 0..MaxVersion]
  /\ pods \in [Pods -> Pod] /\ podCache \in [Pods -> Pod]
  /\ fresh \subseteq Pods
  /\ probes \subseteq Containers
  /\ shown \in BOOLEAN /\ known \subseteq Containers /\ watch \in Seq(SUBSET Containers)
  /\ healthy \subseteq Containers \X Pods /\ hung \subseteq Pods
  /\ queued \in BOOLEAN /\ timer \in BOOLEAN
  /\ pc \in {"idle", "list", "probe", "mark"}
  /\ round \subseteq Zones /\ todo \subseteq Pods
  /\ listed \in [Pods -> Pod] /\ same \subseteq Pods
  /\ answer \in Answer
  /\ left \in 0..MaxDisturbances

\* Where the process can be: it serves, and its controllers run, only after a
\* configuration was registered that trusts its own certificate.
StartedInOrder ==
  /\ serving => Running
  /\ phase \in {"controllers", "ready", "running"} => hook = cert /\ hook # 0
  /\ phase \in {"hooks", "register"} => cert # 0
  /\ phase = "register" => hook = 0

\* A webhook server that listens is trusted by the registered configuration,
\* whatever restarts and lost secrets came before.
ServedIsTrusted == serving => cert = hook

\* A pod lacks its ordinal label ("adds the pod-ordinal labels on the pod for
\* service selectors") only if it was created while no webhook was registered,
\* in the gap between the configuration of one process and that of the next: not
\* when the operator is down, starting or unable to serve behind a registered
\* one.  And no update, whoever sends whatever copy of a pod, takes the label away.
PodsAreNumbered ==
  [][\A p \in Pods : pods'[p].exists /\ ~pods'[p].ordinal =>
       \/ pods[p].exists /\ pods[p].id = pods'[p].id /\ ~pods[p].ordinal
       \/ ~pods[p].exists /\ hook = 0 /\ phase \notin {"controllers", "ready", "running"}]_vars

\* The label of a pod changes only by a client's hand or by the answer that
\* this very pod gave in the current round, and is set only on a ready pod:
\* not by the answer of the pod that had its name before, nor by one given
\* before the pod became unready.
LabelsFollowProbe ==
  [][\A p \in Pods :
       pods'[p].id = pods[p].id /\ pods'[p].exists /\ pods'[p].active # pods[p].active
         => \/ ClientLabels(p)
            \/ /\ pc = "mark" /\ answer.pod = p /\ answer.id = pods[p].id
               /\ pods'[p].active = answer.ok
               /\ answer.ok => pods[p].ready]_vars

\* A running operator whose informer shows probes has the next round ahead of it:
\* the key is queued, will be by a timer, or the worker has it ("will always
\* requeue").  No conflict, failing call, restart or event ends the rounds, and
\* a period of 0 does not either; a negative one would.
RoundsGoOn ==
  PeriodSeconds >= 0 /\ Running /\ shown /\ known # {}
    => queued \/ timer \/ pc # "idle"

\* What is ahead of the worker, each item worth more than what may follow it: a
\* round in hand ends in the timer at most, and the timer in a queued key.
WorkAhead ==
  (IF pc # "idle" THEN 3 ELSE 0) + (IF timer THEN 2 ELSE 0) + (IF queued THEN 1 ELSE 0)

\* A deleted QuarksStatefulSet runs out of work once the informer has seen the
\* deletion: no retry, late update event or new process puts its key back where a
\* round, the timer or the queue has let go of it.  Until then whole rounds may
\* begin, and arm their timer, for an object that is gone.
DeletedRunsOut == [][~present /\ ~shown => WorkAhead' <= WorkAhead]_vars

-----------------------------------------------------------------------------
(* Liveness *)

\* Pods that are missing come back, all of them, through every restart of the
\* operator.
PodsComeBack == []<>(\A p \in Pods : pods[p].exists \/ version[p[1]] = 0)

\* Every probe of p would succeed, or every one fail.
Responds(p) == \A c \in probes : <<c, p>> \in healthy
Silent(p)   == \A c \in probes : <<c, p>> \notin healthy

\* The labels of the newest StatefulSets' pods agree with the probes.
Settled ==
  \A p \in Pods : p[1] \in NewestZones /\ pods[p].exists =>
    /\ Silent(p) => ~pods[p].active
    /\ Responds(p) /\ pods[p].ready => pods[p].active

\* Once the environment is quiet the labels agree with the probes for good, as
\* long as there is a probe and none hangs: rounds go on after conflicts,
\* failing calls and restarts ("will always requeue").
LabelsSettle == <>[](present /\ probes # {} /\ hung = {}) => <>[]Settled

\* A deleted QuarksStatefulSet is not reconciled for ever.
DeletedIsForgotten == <>~present => <>[](pc = "idle" /\ ~queued /\ ~timer)

-----------------------------------------------------------------------------
(* The inductive invariant behind the safety properties *)

\* A copy that has the server's version is the server's pod.
CopiesInv ==
  /\ \A p \in fresh : podCache[p] = pods[p]
  /\ \A p \in same : p \in todo /\ listed[p] = pods[p]

\* An answer is that of the pod listed, unless the pod has changed since.
AnswerInv ==
  pc = "mark" => /\ answer.pod \in todo
                 /\ answer.pod \in same => answer.id = pods[answer.pod].id

\* The informer runs with the process and learns of the deletion last: what is on
\* its way is about a QuarksStatefulSet that it shows.
ShownInv ==
  /\ shown => Running
  /\ Running /\ present => shown
  /\ ~shown => watch = <<>> /\ known = {}

\* The inductive invariant.
IInv == TypeOK /\ StartedInOrder /\ CopiesInv /\ AnswerInv /\ ShownInv
=============================================================================
