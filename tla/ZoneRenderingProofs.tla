------------------------- MODULE ZoneRenderingProofs -------------------------
(***************************************************************************)
(* What holds of every rendering: of all names, zones, labels, affinities  *)
(* and environments.                                                       *)
(***************************************************************************)
EXTENDS ZoneRendering, TLAPS

\* A created StatefulSet is accepted whatever labels its template brings: those
\* of the zone win, and the selector has no others.
THEOREM SelectorMatchesTemplate ==
  ASSUME NEW q, NEW i
  PROVE  Accepted(GenerateSingleStatefulSet(q, i))
  BY DEF Accepted, Matches, GenerateSingleStatefulSet, UnionMaps

\* An update of a zone is accepted exactly when its index keeps its zone's name:
\* renaming a zone, or moving one to another index, is refused for ever, since
\* StatefulSetMutateFn cannot change the selector.
THEOREM UpdateKeepsTheZone ==
  ASSUME NEW q, NEW p, NEW i \in Int, q.name = p.name,
         ZoneName(q, i) # NoZone, ZoneName(p, i) # NoZone
  PROVE  LET old == GenerateSingleStatefulSet(p, i)
             new == GenerateSingleStatefulSet(q, i)
         IN  Accepted(Updated(old, new)) <=> ZoneName(q, i) = ZoneName(p, i)
  <1> DEFINE old == GenerateSingleStatefulSet(p, i)
             new == GenerateSingleStatefulSet(q, i)
  <1>1. /\ Updated(old, new).selector = Labels(p, i)
        /\ Updated(old, new).labels = UnionMaps(q.labels, Labels(q, i))
    BY DEF GenerateSingleStatefulSet, Updated
  <1>2. StsName(q, i) = StsName(p, i)
    BY DEF StsName
  <1>3. /\ Labels(p, i) = [AZIndex |-> i, QStsName |-> StsName(p, i), AZName |-> ZoneName(p, i)]
        /\ Labels(q, i) = [AZIndex |-> i, QStsName |-> StsName(q, i), AZName |-> ZoneName(q, i)]
    BY DEF Labels
  <1>4. /\ DOMAIN Labels(p, i) = DOMAIN Labels(q, i)
        /\ DOMAIN Labels(p, i) \subseteq DOMAIN UnionMaps(q.labels, Labels(q, i))
        /\ \A k \in DOMAIN Labels(q, i) : UnionMaps(q.labels, Labels(q, i))[k] = Labels(q, i)[k]
    BY <1>3 DEF UnionMaps
  <1>5. CASE ZoneName(q, i) = ZoneName(p, i)
    BY <1>1, <1>2, <1>3, <1>4, <1>5 DEF Accepted, Matches
  <1>6. CASE ZoneName(q, i) # ZoneName(p, i)
    <2>1. "AZName" \in DOMAIN Labels(p, i)
      BY <1>3
    <2>2. Labels(q, i)["AZName"] # Labels(p, i)["AZName"]
      BY <1>3, <1>6
    <2>3. QED
      BY <1>1, <1>4, <1>6, <2>1, <2>2 DEF Accepted, Matches
  <1>7. QED
    BY <1>5, <1>6

\* The probes of a zone reach its own pods and those of no other zone of the
\* same QuarksStatefulSet.
THEOREM ProbesStayInTheZone ==
  ASSUME NEW q, q.name \in Seq(Nat), NEW i \in Nat, NEW j \in Nat,
         ZoneName(q, i) # NoZone, ZoneName(q, j) # NoZone
  PROVE  Probed(GenerateSingleStatefulSet(q, i), GenerateSingleStatefulSet(q, j).labels)
           <=> i = j
  <1>1. GenerateSingleStatefulSet(q, i).name = Append(q.name, i)
    BY DEF GenerateSingleStatefulSet, StsName
  <1>2. Labels(q, j) = [AZIndex |-> j, QStsName |-> Append(q.name, j), AZName |-> ZoneName(q, j)]
    BY DEF Labels, StsName
  <1>3. "QStsName" \in DOMAIN Labels(q, j) /\ Labels(q, j)["QStsName"] = Append(q.name, j)
    BY <1>2
  <1>4. /\ "QStsName" \in DOMAIN GenerateSingleStatefulSet(q, j).labels
        /\ GenerateSingleStatefulSet(q, j).labels["QStsName"] = Append(q.name, j)
    BY <1>3 DEF GenerateSingleStatefulSet, UnionMaps
  <1>5. Append(q.name, i) = Append(q.name, j) => i = j
    <2>1. Append(q.name, i)[Len(q.name) + 1] = i /\ Append(q.name, j)[Len(q.name) + 1] = j
      OBVIOUS
    <2>2. QED
      BY <2>1
  <1>6. QED
    BY <1>1, <1>4, <1>5 DEF Probed

\* A zone's pods run in the zone, or wherever the template's own affinity lets
\* them: its terms are alternatives to the zone, not additions to it.
THEOREM AffinityIsAnAlternative ==
  ASSUME NEW q, NEW i, NEW node, ZoneName(q, i) # NoZone
  PROVE  MayRunOn(node, Affinity(q, i)) <=>
           \/ "zone" \in DOMAIN node /\ node["zone"] = ZoneName(q, i)
           \/ q.terms # {} /\ MayRunOn(node, q.terms)
  <1>1. (\A r \in ZoneTerm(q, i) : Meets(node, r))
          <=> "zone" \in DOMAIN node /\ node["zone"] = ZoneName(q, i)
    BY DEF ZoneTerm, Requirement, Meets
  <1>2. QED
    BY <1>1 DEF MayRunOn, Affinity

-----------------------------------------------------------------------------
(* Environment *)

CONSTANT EnvName   \* the names of environment variables

Env == [name : EnvName, value : Nat, from : BOOLEAN]
Unique(envs, name) == \A j, k \in Named(envs, name) : j = k
Shows(envs, name, value) ==
  /\ Named(envs, name) # {}
  /\ \A k \in Named(envs, name) : envs[k].value = value

\* new differs from envs in one entry at most, that shows name's value.
OneEntry(envs, name, value, new) ==
  /\ new \in Seq(Env)
  /\ Shows(new, name, value) /\ Unique(new, name)
  /\ \A other \in EnvName \ {name} :
       /\ Named(new, other) = Named(envs, other)
       /\ \A k \in Named(envs, other) : new[k] = envs[k]

\* An upsert changes at most one entry, and only its value.
LEMMA UpsertOne ==
  ASSUME NEW envs \in Seq(Env), NEW name \in EnvName, NEW value \in Nat, Unique(envs, name)
  PROVE  OneEntry(envs, name, value, UpsertEnvs(envs, name, value))
  <1> DEFINE new == UpsertEnvs(envs, name, value)
  <1>1. CASE Named(envs, name) = {}
    <2> DEFINE e == [name |-> name, value |-> value, from |-> FALSE]
    <2>1. new = Append(envs, e) /\ e \in Env
      BY <1>1 DEF UpsertEnvs, Env
    <2>2. /\ new \in Seq(Env) /\ Len(new) = Len(envs) + 1
          /\ new[Len(envs) + 1] = e
          /\ \A k \in 1..Len(envs) : new[k] = envs[k]
      BY <2>1
    <2>3. DOMAIN new = 1..(Len(envs) + 1) /\ DOMAIN envs = 1..Len(envs)
      BY <2>2
    <2>4. Named(new, name) = {Len(envs) + 1}
      BY <1>1, <2>2, <2>3 DEF Named
    <2>5. \A other \in EnvName \ {name} : Named(new, other) = Named(envs, other)
      BY <2>2, <2>3 DEF Named
    <2>6. QED
      BY <2>2, <2>3, <2>4, <2>5 DEF OneEntry, Shows, Unique, Named
  <1>2. CASE Named(envs, name) # {}
    <2> DEFINE first == CHOOSE k \in Named(envs, name) : \A j \in Named(envs, name) : k <= j
    <2>1. DOMAIN envs = 1..Len(envs)
      OBVIOUS
    <2>2. PICK k \in Named(envs, name) : TRUE
      BY <1>2
    <2>3. k \in DOMAIN envs /\ k \in Nat /\ envs[k].name = name /\ Named(envs, name) = {k}
      BY <2>1, <2>2 DEF Named, Unique
    <2>4. first = k
      BY <2>3
    <2>5. new = [envs EXCEPT ![k] = [envs[k] EXCEPT !.value = value]]
      BY <1>2, <2>4 DEF UpsertEnvs
    <2> DEFINE e == [envs[k] EXCEPT !.value = value]
    <2>6. e \in Env /\ e.name = name /\ e.value = value
      <3>1. envs[k] \in Env
        BY <2>3
      <3>2. QED
        BY <2>3, <3>1 DEF Env
    <2> HIDE DEF e
    <2>7. /\ new \in Seq(Env) /\ DOMAIN new = DOMAIN envs
          /\ new[k] = e
          /\ \A j \in DOMAIN envs \ {k} : new[j] = envs[j]
      BY <2>3, <2>5, <2>6 DEF e
    <2>8. Named(new, name) = {k}
      BY <2>3, <2>6, <2>7 DEF Named
    <2>9. \A other \in EnvName \ {name} : Named(new, other) = Named(envs, other)
      BY <2>3, <2>6, <2>7 DEF Named
    <2>10. QED
      BY <2>3, <2>6, <2>7, <2>8, <2>9 DEF OneEntry, Shows, Unique, Named
  <1>3. QED
    BY <1>1, <1>2

\* It shows its value, and what other variables show survives.
Kept(envs, name, value, new) ==
  /\ new \in Seq(Env) /\ Shows(new, name, value)
  /\ \A other \in EnvName \ {name} :
       /\ Unique(envs, other) => Unique(new, other)
       /\ \A v \in Nat : Shows(envs, other, v) => Shows(new, other, v)

\* An upsert keeps what it does not set.
LEMMA UpsertKeeps ==
  ASSUME NEW envs \in Seq(Env), NEW name \in EnvName, NEW value \in Nat, Unique(envs, name)
  PROVE  Kept(envs, name, value, UpsertEnvs(envs, name, value))
  <1>1. OneEntry(envs, name, value, UpsertEnvs(envs, name, value))
    BY UpsertOne
  <1>2. QED
    BY <1>1 DEF OneEntry, Kept, Unique, Shows

\* Two upserts of different names: the second keeps what the first set.
LEMMA UpsertTwo ==
  ASSUME NEW envs \in Seq(Env), NEW a \in EnvName, NEW b \in EnvName \ {a},
         NEW v \in Nat, NEW w \in Nat, Unique(envs, a), Unique(envs, b)
  PROVE  LET one == UpsertEnvs(envs, a, v)
             two == UpsertEnvs(one, b, w)
         IN  /\ two \in Seq(Env) /\ Shows(two, a, v) /\ Shows(two, b, w)
             /\ \A c \in EnvName \ {a, b} :
                  /\ Unique(envs, c) => Unique(two, c)
                  /\ \A x \in Nat : Shows(envs, c, x) => Shows(two, c, x)
  <1> DEFINE one == UpsertEnvs(envs, a, v)
             two == UpsertEnvs(one, b, w)
  <1>1. Kept(envs, a, v, one)
    BY UpsertKeeps
  <1>2. one \in Seq(Env) /\ Unique(one, b)
    BY <1>1 DEF Kept
  <1> HIDE DEF one
  <1>3. Kept(one, b, w, two)
    BY <1>2, UpsertKeeps
  <1> HIDE DEF two
  <1>4. QED
    BY <1>1, <1>3 DEF Kept, one, two

\* Every container whose template sets these variables once at most sees its own
\* zone and index.
THEOREM ContainersSeeTheirZone ==
  ASSUME NEW q, NEW i \in Nat, NEW envs \in Seq(Env), ZoneName(q, i) \in Nat, ~q.inject,
         {"KUBE_AZ", "BOSH_AZ", "CF_OPERATOR_AZ", "CF_OPERATOR_AZ_INDEX"} \subseteq EnvName,
         Unique(envs, "KUBE_AZ"), Unique(envs, "BOSH_AZ"), Unique(envs, "CF_OPERATOR_AZ"),
         Unique(envs, "CF_OPERATOR_AZ_INDEX")
  PROVE  LET new == InjectContainerEnv(q, i, envs) IN
         /\ Shows(new, "KUBE_AZ", ZoneName(q, i)) /\ Shows(new, "BOSH_AZ", ZoneName(q, i))
         /\ Shows(new, "CF_OPERATOR_AZ", ZoneName(q, i))
         /\ Shows(new, "CF_OPERATOR_AZ_INDEX", i + 1)
  <1> DEFINE z    == ZoneName(q, i)
             bosh == UpsertEnvs(UpsertEnvs(envs, "KUBE_AZ", z), "BOSH_AZ", z)
             all  == UpsertEnvs(UpsertEnvs(bosh, "CF_OPERATOR_AZ", z), "CF_OPERATOR_AZ_INDEX", i + 1)
  <1>1. /\ bosh \in Seq(Env) /\ Shows(bosh, "KUBE_AZ", z) /\ Shows(bosh, "BOSH_AZ", z)
        /\ Unique(bosh, "CF_OPERATOR_AZ") /\ Unique(bosh, "CF_OPERATOR_AZ_INDEX")
    <2>1. z \in Nat
      OBVIOUS
    <2>2. /\ bosh \in Seq(Env) /\ Shows(bosh, "KUBE_AZ", z) /\ Shows(bosh, "BOSH_AZ", z)
          /\ \A c \in EnvName \ {"KUBE_AZ", "BOSH_AZ"} : Unique(envs, c) => Unique(bosh, c)
      <3> HIDE DEF z
      <3>1. QED
        BY <2>1, UpsertTwo
    <2>3. QED
      BY <2>2
  <1> HIDE DEF bosh
  <1>2. /\ Shows(all, "KUBE_AZ", z) /\ Shows(all, "BOSH_AZ", z)
        /\ Shows(all, "CF_OPERATOR_AZ", z) /\ Shows(all, "CF_OPERATOR_AZ_INDEX", i + 1)
    <2>1. z \in Nat /\ i + 1 \in Nat
      OBVIOUS
    <2> DEFINE next == i + 1
    <2> HIDE DEF z, next
    <2>2. /\ Shows(all, "CF_OPERATOR_AZ", z) /\ Shows(all, "CF_OPERATOR_AZ_INDEX", next)
          /\ \A c \in EnvName \ {"CF_OPERATOR_AZ", "CF_OPERATOR_AZ_INDEX"} :
               \A x \in Nat : Shows(bosh, c, x) => Shows(all, c, x)
      <3>1. next \in Nat
        BY <2>1 DEF next
      <3>2. QED
        BY <1>1, <2>1, <3>1, UpsertTwo DEF next
    <2>3. QED
      BY <1>1, <2>1, <2>2 DEF next
  <1>3. InjectContainerEnv(q, i, envs) = all
    BY DEF InjectContainerEnv, bosh
  <1>4. QED
    BY <1>2, <1>3
=============================================================================
