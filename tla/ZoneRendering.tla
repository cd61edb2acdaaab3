---------------------------- MODULE ZoneRendering ----------------------------
(***************************************************************************)
(* What a QuarksStatefulSet's zone becomes: the name, the labels and the   *)
(* selector of its StatefulSet, where its pods may be scheduled and the    *)
(* environment of their containers; and which renderings the API server    *)
(* accepts in place of an earlier one.                                     *)
(*                                                                         *)
(* A QuarksStatefulSet q is a record of its name, its zones, the labels,   *)
(* required node affinity, environment and replicas of its template, and   *)
(* inject, Spec.InjectReplicasEnv.  Names are sequences of numbers, of     *)
(* which "-z<i>" is one, zone names are numbers, with 0 for the empty one. *)
(***************************************************************************)
EXTENDS Integers, Sequences

NoZone == 0

\* A QuarksStatefulSet without zones is rendered as one zone without a name.
Rendered(q) == 0..(IF q.zones = <<>> THEN 0 ELSE Len(q.zones) - 1)
ZoneName(q, i) == IF q.zones = <<>> THEN NoZone ELSE q.zones[i + 1]

StsName(q, i) == IF ZoneName(q, i) = NoZone THEN q.name ELSE Append(q.name, i)

UnionMaps(f, g) ==
  [k \in DOMAIN f \cup DOMAIN g |-> IF k \in DOMAIN g THEN g[k] ELSE f[k]]

Labels(q, i) ==
  IF ZoneName(q, i) = NoZone
    THEN [AZIndex |-> i, QStsName |-> StsName(q, i)]
    ELSE [AZIndex |-> i, QStsName |-> StsName(q, i), AZName |-> ZoneName(q, i)]

-----------------------------------------------------------------------------
(* Node affinity: a set of alternatives, each a set of requirements on the *)
(* labels of a node; without any, every node will do.                      *)

Requirement(key, values) == [key |-> key, values |-> values]
Meets(node, r) == r.key \in DOMAIN node /\ node[r.key] \in r.values

MayRunOn(node, terms) ==
  terms # {} => \E term \in terms : \A r \in term : Meets(node, r)

ZoneTerm(q, i) == {Requirement("zone", {ZoneName(q, i)})}
Affinity(q, i) ==
  IF ZoneName(q, i) = NoZone THEN q.terms ELSE q.terms \cup {ZoneTerm(q, i)}

-----------------------------------------------------------------------------
(* Environment *)

Named(envs, name) == {k \in DOMAIN envs : envs[k].name = name}

\* from stands for ValueFrom: it is left beside the new Value.
UpsertEnvs(envs, name, value) ==
  IF Named(envs, name) = {}
    THEN Append(envs, [name |-> name, value |-> value, from |-> FALSE])
    ELSE LET first == CHOOSE k \in Named(envs, name) :
                        \A j \in Named(envs, name) : k <= j
         IN [envs EXCEPT ![first] = [@ EXCEPT !.value = value]]

\* Replicas are dereferenced, and there may be none.
Panics(q) == q.inject /\ q.replicas = {}

InjectContainerEnv(q, i, envs) ==
  LET kube  == UpsertEnvs(envs, "KUBE_AZ", ZoneName(q, i))
      bosh  == UpsertEnvs(kube, "BOSH_AZ", ZoneName(q, i))
      az    == UpsertEnvs(bosh, "CF_OPERATOR_AZ", ZoneName(q, i))
      index == UpsertEnvs(az, "CF_OPERATOR_AZ_INDEX", i + 1)
  IN IF q.inject
       THEN UpsertEnvs(index, "REPLICAS", CHOOSE n \in q.replicas : TRUE)
       ELSE index

-----------------------------------------------------------------------------
(* The StatefulSet, and its update *)

GenerateSingleStatefulSet(q, i) ==
  [name     |-> StsName(q, i),
   owner    |-> q.name,
   selector |-> Labels(q, i),
   labels   |-> UnionMaps(q.labels, Labels(q, i)),
   terms    |-> Affinity(q, i),
   envs     |-> InjectContainerEnv(q, i, q.envs)]

Matches(selector, labels) ==
  \A k \in DOMAIN selector : k \in DOMAIN labels /\ labels[k] = selector[k]

\* StatefulSetMutateFn copies neither the selector nor the owner.
Updated(existing, desired) ==
  [desired EXCEPT !.selector = existing.selector, !.owner = existing.owner]

\* The API server: a StatefulSet selects the pods of its template.
Accepted(sts) == Matches(sts.selector, sts.labels)

\* filterByOwner: whose version counts
OwnedBy(q, all) == {sts \in all : sts.owner = q.name}

\* getStsPodList: whose pods are probed
Probed(sts, labels) ==
  "QStsName" \in DOMAIN labels /\ labels["QStsName"] = sts.name
=============================================================================
