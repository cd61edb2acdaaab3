------------------------- MODULE MCQuarksStatefulSet -------------------------
EXTENDS QuarksStatefulSetProperties, ZoneRendering

-----------------------------------------------------------------------------
(* The renderings of a zone, evaluated for small inputs. *)

Inputs ==
  [name : {<<>>, <<1>>}, zones : {<<>>, <<0>>, <<7>>, <<7, 8>>, <<8, 7>>, <<7, 7>>},
   labels : {[app |-> 1], [AZIndex |-> 5, AZName |-> 5]},
   terms : {{}, {{Requirement("disk", {1})}}}, inject : BOOLEAN, replicas : {{}, {2}},
   envs : {<<>>}]
Templates == {q \in Inputs : ~Panics(q)}

\* Each StatefulSet is accepted when created; updating one zone's by another
\* specification's is accepted as long as the zone keeps its name.
ASSUME RenderingsAreAccepted ==
  \A q \in Templates : \A i \in Rendered(q) : Accepted(GenerateSingleStatefulSet(q, i))
ASSUME RenamedZonesAreRefused ==
  \A q, p \in Templates : \A i \in Rendered(q) \cap Rendered(p) :
    q.name = p.name /\ ZoneName(q, i) # NoZone /\ ZoneName(p, i) # NoZone =>
      (Accepted(Updated(GenerateSingleStatefulSet(p, i), GenerateSingleStatefulSet(q, i)))
         <=> ZoneName(q, i) = ZoneName(p, i))

\* A zone of one QuarksStatefulSet has the name of another QuarksStatefulSet's
\* StatefulSet if the other is named "<name>-z<i>"; whoever comes second updates
\* a StatefulSet that it does not own, and whose version it does not count.
ASSUME NamesMayCollide ==
  \E q, p \in Templates : \E i \in Rendered(q), j \in Rendered(p) :
    LET theirs == GenerateSingleStatefulSet(p, j)
        ours   == GenerateSingleStatefulSet(q, i)
    IN q.name # p.name /\ theirs.name = ours.name
       /\ OwnedBy(q, {Updated(theirs, ours)}) = {}

\* upsertEnvs by its loop, as it runs over the entries.
UpsertByLoop(envs, name, value) ==
  LET loop[k \in 1..(Len(envs) + 1)] ==
        IF k > Len(envs)
          THEN Append(envs, [name |-> name, value |-> value, from |-> FALSE])
        ELSE IF envs[k].name = name
          THEN [envs EXCEPT ![k].value = value]
        ELSE loop[k + 1]
  IN loop[1]

ASSUME UpsertIsTheLoop ==
  \A envs \in UNION {[1..n -> [name : {"a", "b"}, value : {0}, from : BOOLEAN]] : n \in 0..3} :
    UpsertEnvs(envs, "a", 1) = UpsertByLoop(envs, "a", 1)
=============================================================================
