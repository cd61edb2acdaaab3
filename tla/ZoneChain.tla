------------------------------ MODULE ZoneChain ------------------------------
(***************************************************************************)
(* What a QuarksStatefulSet promises of its zones, without the caches,     *)
(* queues, timers and conflicts in between: after the merge window, what   *)
(* clients offer enters at the first zone and moves down the row of zones, *)
(* under version numbers that may be given twice but never go back; and    *)
(* Ready is reported of zones that have served.                            *)
(***************************************************************************)
EXTENDS Integers

CONSTANT MaxZones   \* the most zones a spec names

VARIABLES
  offer,    \* the newest spec, how many zones it names, the newest secret
  window,   \* the merge window: "ahead", "open" or "over"
  content,  \* the version, spec and secret each zone is made from
  served,   \* the zones that have had all their pods ready
  ready     \* Ready has been reported

vars == <<offer, window, content, served, ready>>

Zones   == 0..(MaxZones - 1)
Nothing == [version |-> 0, gen |-> 0, secret |-> 0]

\* s was made from nothing newer than t was.
NoNewer(s, t) ==
  s.version <= t.version /\ s.gen <= t.gen /\ s.secret <= t.secret

\* A QuarksStatefulSet is created; the secret it mounts may not exist yet.
Init == /\ offer \in [gen : {1}, zones : 1..MaxZones, secret : Nat]
        /\ window = "ahead"
        /\ content = [z \in Zones |-> Nothing]
        /\ served = {} /\ ready = FALSE

\* Another spec, or another version of the secret.
Offer ==
  /\ \/ \E n \in 1..MaxZones : offer' = [offer EXCEPT !.gen = @ + 1, !.zones = n]
     \/ offer' = [offer EXCEPT !.secret = @ + 1]
  /\ UNCHANGED <<window, content, served, ready>>

\* The window opens, and is over.
PassWindow ==
  /\ \/ window = "ahead" /\ window' = "open"
     \/ window = "open" /\ window' = "over"
  /\ UNCHANGED <<offer, content, served, ready>>

\* The versions that may be given next: one above some zone's, or a used one.
NextVersions == UNION {1..(content[y].version + 1) : y \in Zones}

\* A zone moves to something no older than it has and no newer than what the
\* zone before it has, or for the first than what is offered; to the newest
\* spec only if that one names it.
Publish(z) ==
  /\ window = "over"
  /\ \E item \in [version : NextVersions, gen : content[z].gen..offer.gen,
                  secret : 1..offer.secret] :
       /\ NoNewer(content[z], item)
       /\ z > 0 => NoNewer(item, content[z - 1])
       /\ item.gen = offer.gen => z < offer.zones
       /\ content' = [content EXCEPT ![z] = item]
  /\ UNCHANGED <<offer, window, served, ready>>

\* All pods of a zone are ready.
Serve(z) ==
  /\ content[z].version > 0
  /\ served' = served \cup {z}
  /\ UNCHANGED <<offer, window, content, ready>>

Report ==
  /\ served # {} /\ ready' = TRUE
  /\ UNCHANGED <<offer, window, content, served>>

Next == Offer \/ PassWindow \/ Report \/ \E z \in Zones : Publish(z) \/ Serve(z)

Spec == Init /\ [][Next]_vars

-----------------------------------------------------------------------------

\* Along the row nothing gets newer; no zone has anything before the window is
\* over and the secret exists, nor more than is offered, nor the newest spec
\* without being named by it; and once Ready is reported the first zone exists.
Promise ==
  /\ \A y, z \in Zones : y < z => NoNewer(content[z], content[y])
  /\ \A z \in Zones :
       /\ content[z] # Nothing => window = "over" /\ content[z].secret > 0
       /\ content[z].gen <= offer.gen /\ content[z].secret <= offer.secret
       /\ content[z].gen = offer.gen => z < offer.zones
  /\ ready => content[0].version > 0
=============================================================================
