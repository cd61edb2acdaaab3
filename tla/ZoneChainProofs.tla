---------------------------- MODULE ZoneChainProofs ----------------------------
(***************************************************************************)
(* Why zones that are a chain keep the promise made of them.               *)
(***************************************************************************)
EXTENDS ZoneChain, TLAPS

Item == [version : Nat, gen : Nat, secret : Nat]

\* The promise, in the typed form the steps keep; what serves has content, and
\* Ready rests on something that serves.
ChainInv ==
  /\ offer \in [gen : Nat, zones : 1..MaxZones, secret : Nat] /\ offer.gen > 0
  /\ window \in {"ahead", "open", "over"}
  /\ content \in [Zones -> Item]
  /\ served \subseteq Zones /\ \A z \in served : content[z].version > 0
  /\ ready => served # {}
  /\ \A y, z \in Zones : y < z => NoNewer(content[z], content[y])
  /\ \A z \in Zones :
       /\ content[z] # Nothing => window = "over" /\ content[z].secret > 0
       /\ content[z].gen <= offer.gen /\ content[z].secret <= offer.secret
       /\ content[z].gen = offer.gen => z < offer.zones

\* Moving one zone keeps it: the zones before it were not below the one that
\* hands over, and those after it were not above what it had.
LEMMA PublishStep ==
  ASSUME MaxZones \in Nat \ {0}, ChainInv, NEW w \in Zones, Publish(w)
  PROVE  ChainInv'
  <1>1. PICK item \in [version : NextVersions, gen : content[w].gen..offer.gen,
                       secret : 1..offer.secret] :
               /\ NoNewer(content[w], item)
               /\ w > 0 => NoNewer(item, content[w - 1])
               /\ item.gen = offer.gen => w < offer.zones
               /\ content' = [content EXCEPT ![w] = item]
    BY DEF Publish
  <1>2. window = "over" /\ UNCHANGED <<offer, window, served, ready>>
    BY DEF Publish
  <1>3. \A z \in Zones : content[z].version \in Nat /\ content[z].gen \in Nat
                         /\ content[z].secret \in Nat
    BY DEF ChainInv, Item
  <1>4. item \in Item /\ item.version > 0 /\ item.secret > 0
        /\ item.gen <= offer.gen /\ item.secret <= offer.secret
    <2>1. item.version \in NextVersions /\ item.gen \in content[w].gen..offer.gen
          /\ item.secret \in 1..offer.secret
      OBVIOUS
    <2>2. PICK y \in Zones : item.version \in 1..(content[y].version + 1)
      BY <2>1 DEF NextVersions
    <2>3. item.version \in Nat /\ item.version > 0
      BY <1>3, <2>2
    <2>4. /\ item.gen \in Nat /\ item.gen <= offer.gen
          /\ item.secret \in Nat /\ item.secret > 0 /\ item.secret <= offer.secret
      BY <1>3, <2>1 DEF ChainInv
    <2>5. item = [version |-> item.version, gen |-> item.gen, secret |-> item.secret]
      OBVIOUS
    <2>6. QED
      BY <2>3, <2>4, <2>5 DEF Item
  <1>5. \A z \in Zones : content'[z] = IF z = w THEN item ELSE content[z]
    BY <1>1 DEF ChainInv
  <1>6. ASSUME NEW y \in Zones, NEW z \in Zones, y < z
        PROVE  NoNewer(content'[z], content'[y])
    <2>1. CASE z = w
      <3>1. w - 1 \in Zones /\ w > 0 /\ y \in Int
        BY <1>6, <2>1 DEF Zones
      <3>2. NoNewer(item, content[w - 1])
        BY <1>1, <3>1
      <3>3. y = w - 1 \/ NoNewer(content[w - 1], content[y])
        <4>1. y < w - 1 \/ y = w - 1
          BY <1>6, <2>1 DEF Zones
        <4>2. QED
          BY <3>1, <4>1 DEF ChainInv
      <3>n. /\ item.version \in Nat /\ item.gen \in Nat /\ item.secret \in Nat
            /\ content[w - 1].version \in Nat /\ content[w - 1].gen \in Nat
            /\ content[w - 1].secret \in Nat
            /\ content[y].version \in Nat /\ content[y].gen \in Nat
            /\ content[y].secret \in Nat
        BY <1>3, <1>4, <3>1 DEF Item
      <3>4. NoNewer(item, content[y])
        BY <3>2, <3>3, <3>n DEF NoNewer
      <3>5. y # w
        BY <1>6, <2>1 DEF Zones
      <3>6. content'[z] = item /\ content'[y] = content[y]
        BY <1>5, <2>1, <3>5
      <3>7. QED
        BY <3>4, <3>6
    <2>2. CASE y = w
      <3>1. z # w /\ NoNewer(content[z], content[w])
        BY <1>6, <2>2 DEF ChainInv, Zones
      <3>2. NoNewer(content[z], item)
        BY <1>1, <1>3, <1>4, <3>1 DEF NoNewer, Item
      <3>3. content'[y] = item /\ content'[z] = content[z]
        BY <1>5, <2>2, <3>1
      <3>4. QED
        BY <3>2, <3>3
    <2>3. CASE y # w /\ z # w
      BY <1>5, <1>6, <2>3 DEF ChainInv
    <2>4. QED
      BY <2>1, <2>2, <2>3
  <1>7. \A z \in Zones :
          /\ content'[z] # Nothing => window = "over" /\ content'[z].secret > 0
          /\ content'[z].gen <= offer.gen /\ content'[z].secret <= offer.secret
          /\ content'[z].gen = offer.gen => z < offer.zones
          /\ content[z].version > 0 => content'[z].version > 0
    BY <1>1, <1>2, <1>4, <1>5 DEF ChainInv
  <1>8. content' \in [Zones -> Item]
    BY <1>1, <1>4 DEF ChainInv
  <1>9. served' \subseteq Zones /\ \A z \in served' : content'[z].version > 0
    BY <1>2, <1>7 DEF ChainInv
  <1>10. QED
    BY <1>2, <1>6, <1>7, <1>8, <1>9 DEF ChainInv, NoNewer

\* Every step of the chain keeps it.
LEMMA ChainStep ==
  ASSUME MaxZones \in Nat \ {0}, ChainInv, [Next]_vars
  PROVE  ChainInv'
  <1>1. CASE Offer
    <2>0. /\ offer.gen \in Nat /\ offer.secret \in Nat /\ offer.zones \in 1..MaxZones
          /\ offer = [gen |-> offer.gen, zones |-> offer.zones, secret |-> offer.secret]
      BY DEF ChainInv
    <2>o. \/ \E n \in 1..MaxZones :
               offer' = [gen |-> offer.gen + 1, zones |-> n, secret |-> offer.secret]
          \/ offer' = [gen |-> offer.gen, zones |-> offer.zones,
                       secret |-> offer.secret + 1]
      BY <1>1, <2>0 DEF Offer
    <2>1. /\ offer' \in [gen : Nat, zones : 1..MaxZones, secret : Nat] /\ offer'.gen > 0
          /\ offer.gen <= offer'.gen /\ offer.secret <= offer'.secret
          /\ offer'.gen = offer.gen => offer'.zones = offer.zones
      BY <2>0, <2>o DEF ChainInv
    <2>2. \A z \in Zones : content[z].gen \in Nat /\ content[z].secret \in Nat
      BY DEF ChainInv, Item
    <2>3. \A z \in Zones :
            /\ content[z].gen <= offer'.gen /\ content[z].secret <= offer'.secret
            /\ content[z].gen = offer'.gen => z < offer'.zones
      BY <2>1, <2>2 DEF ChainInv
    <2>4. QED
      BY <1>1, <2>1, <2>3 DEF Offer, ChainInv, NoNewer
  <1>2. CASE PassWindow
    BY <1>2 DEF PassWindow, ChainInv, NoNewer
  <1>3. CASE Report
    BY <1>3 DEF Report, ChainInv, NoNewer
  <1>4. ASSUME NEW z \in Zones, Publish(z)
        PROVE  ChainInv'
    BY <1>4, PublishStep
  <1>5. ASSUME NEW z \in Zones, Serve(z)
        PROVE  ChainInv'
    BY <1>5 DEF Serve, ChainInv, NoNewer
  <1>6. CASE UNCHANGED vars
    BY <1>6 DEF vars, ChainInv, NoNewer
  <1>7. QED
    BY <1>1, <1>2, <1>3, <1>4, <1>5, <1>6 DEF Next

\* Nothing is offered to the zones yet.
LEMMA ChainInit == ASSUME MaxZones \in Nat \ {0}, Init PROVE ChainInv
  <1>1. Nothing \in Item
    BY DEF Nothing, Item
  <1>2. content \in [Zones -> Item] /\ \A z \in Zones : content[z] = Nothing
    BY <1>1 DEF Init
  <1>3. /\ offer \in [gen : Nat, zones : 1..MaxZones, secret : Nat]
        /\ offer.gen = 1 /\ offer.secret >= 0
    BY DEF Init
  <1>4. QED
    BY <1>2, <1>3 DEF Init, ChainInv, NoNewer, Nothing

\* No zone has anything newer than one before it, nothing before the window is
\* over and the secret exists, nothing newer than what is offered, and the newest
\* spec only if named by it; and Ready is reported only with a first zone.
THEOREM ChainKeepsPromise ==
  ASSUME MaxZones \in Nat \ {0}
  PROVE  Spec => []Promise
  <1>1. Init => ChainInv
    BY ChainInit
  <1>2. ChainInv /\ [Next]_vars => ChainInv'
    BY ChainStep
  <1>3. ASSUME ChainInv PROVE Promise
    <2>1. ASSUME ready PROVE content[0].version > 0
      <3>1. PICK z \in served : z \in Zones /\ content[z].version > 0
        BY <1>3, <2>1 DEF ChainInv
      <3>2. 0 \in Zones /\ (z = 0 \/ 0 < z)
        BY <3>1 DEF Zones
      <3>3. content[0] \in Item /\ content[z] \in Item
        BY <1>3, <3>1, <3>2 DEF ChainInv
      <3>4. z = 0 \/ content[z].version <= content[0].version
        BY <1>3, <3>1, <3>2 DEF ChainInv, NoNewer
      <3>5. QED
        BY <3>1, <3>3, <3>4 DEF Item
    <2>2. QED
      BY <1>3, <2>1 DEF ChainInv, Promise
  <1>4. QED
    BY <1>1, <1>2, <1>3, PTL DEF Spec
=============================================================================
