---------------------------- MODULE CollectorProofs ----------------------------
(* What a snapshot is worth if the cluster changes while Collect runs, for    *)
(* any clusters, values and numbers of changes.                               *)
EXTENDS Collector, TLAPS, FiniteSetTheorems, WellFoundedInduction

-----------------------------------------------------------------------------
(* Places and lists.                                                          *)

LEMMA ListedParts ==
  /\ Len(Lists) = 6
  /\ Range(Lists) = {"pods", "services", "policies", "namespaces", "nodes", "daemonSets"}
  /\ Range(Lists) = {Lists[i] : i \in 1 .. 6}
  /\ \A i, j \in 1 .. 6 : Lists[i] = Lists[j] => i = j
  /\ Lists[5] = "nodes" /\ Lists[6] = "daemonSets"
<1>1. Len(Lists) = 6 /\ DOMAIN Lists = 1 .. 6 BY DEF Lists
<1>2. Range(Lists) = {Lists[i] : i \in 1 .. 6} BY <1>1 DEF Range
<1>3. /\ Lists[1] = "pods" /\ Lists[2] = "services" /\ Lists[3] = "policies"
      /\ Lists[4] = "namespaces" /\ Lists[5] = "nodes" /\ Lists[6] = "daemonSets"
  BY DEF Lists
<1>4. 1 .. 6 = {1, 2, 3, 4, 5, 6} OBVIOUS
<1>5. Range(Lists) = {"pods", "services", "policies", "namespaces", "nodes", "daemonSets"}
  BY <1>2, <1>3, <1>4
<1>6. \A i, j \in 1 .. 6 : Lists[i] = Lists[j] => i = j BY <1>3, <1>4
<1>7. QED BY <1>1, <1>2, <1>3, <1>5, <1>6

\* A CNI has two places at most, each of them once.
LEMMA PlacesAreDistinct ==
  ASSUME NEW name
  PROVE  /\ Len(PlacesOf(name)) \in 0 .. 2 /\ DOMAIN PlacesOf(name) = 1 .. Len(PlacesOf(name))
         /\ \A i \in DOMAIN PlacesOf(name) : PlacesOf(name)[i] \in Places
         /\ \A i, j \in DOMAIN PlacesOf(name) : PlacesOf(name)[i] = PlacesOf(name)[j] => i = j
<1>1. PlacesOf(name) \in {<<"ippools">>, <<"kube-flannel/flannel", "kube-system/flannel">>,
                          <<"kube-system/cilium", "cilium/cilium">>, << >>}
  BY DEF PlacesOf
<1>2. CASE PlacesOf(name) = <<"ippools">> BY <1>2 DEF Places
<1>3. CASE PlacesOf(name) = <<"kube-flannel/flannel", "kube-system/flannel">> BY <1>3 DEF Places
<1>4. CASE PlacesOf(name) = <<"kube-system/cilium", "cilium/cilium">> BY <1>4 DEF Places
<1>5. CASE PlacesOf(name) = << >> BY <1>5
<1>6. QED BY <1>1, <1>2, <1>3, <1>4, <1>5

LEMMA PlacesAreNoLists == Places \intersect Range(Lists) = {}
BY ListedParts DEF Places

\* A place says one thing of the network.
LEMMA ParsedIsOne ==
  ASSUME NEW name, name \in {"calico", "canal", "flannel", "cilium"}, NEW answer,
         NEW m \in Parsed(name, answer), NEW n \in Parsed(name, answer)
  PROVE  m = n
<1>1. CASE name \in {"calico", "canal"} BY <1>1 DEF Parsed
<1>2. CASE name = "flannel" BY <1>2 DEF Parsed
<1>3. CASE name = "cilium" BY <1>3 DEF Parsed
<1>4. QED BY <1>1, <1>2, <1>3

LEMMA PlacesAreOfFour ==
  ASSUME NEW name, PlacesOf(name) # << >>
  PROVE  name \in {"calico", "canal", "flannel", "cilium"}
BY DEF PlacesOf

\* What a place says names CIDRs, or it is an IPPool.
LEMMA ParsedHasCIDRs ==
  ASSUME NEW name, name \in {"calico", "canal", "flannel", "cilium"}, NEW answer,
         NEW n \in Parsed(name, answer)
  PROVE  n.podCIDRs # {} \/ n.source = "calico-ippool"
<1>1. CASE name \in {"calico", "canal"}
  <2>1. \E cidrs, encap : n = Network(cidrs, encap, "calico-ippool") BY <1>1 DEF Parsed
  <2>2. QED BY <2>1 DEF Network
<1>2. CASE name = "flannel"
  <2>1. answer.network # "" BY <1>2 DEF Parsed
  <2>2. \E encap : n = Network({answer.network, answer.network6} \ {""}, encap, "flannel-config")
    BY <1>2 DEF Parsed
  <2>3. {answer.network, answer.network6} \ {""} # {} BY <2>1
  <2> DEFINE C == {answer.network, answer.network6} \ {""}
  <2> HIDE DEF C
  <2>4. n.podCIDRs = C
    <3>1. \E encap : n = Network(C, encap, "flannel-config") BY <2>2 DEF C
    <3>2. QED BY <3>1 DEF Network
  <2>5. QED BY <2>3, <2>4 DEF C
<1>3. CASE name = "cilium" BY <1>3 DEF Parsed, Network
<1>4. QED BY <1>1, <1>2, <1>3

-----------------------------------------------------------------------------
(* The inductive invariant: what was read was so at some moment, and the CNI  *)
(* and its network are as CNIOf makes them of what was read.                  *)

places == PlacesOf(cni.name)

\* The places before the k-th had nothing to say.
VainUpTo(k) == \A i \in DOMAIN places : i < k => places[i] \in DOMAIN read /\ read[places[i]] = Absent

\* The k-th place is the one that answered.
AnsweredAt(k) == VainUpTo(k) /\ places[k] \in DOMAIN read /\ read[places[k]] # Absent

Useless(k) == AnsweredAt(k) /\ Parsed(cni.name, read[places[k]]) = {}

Exhausted == VainUpTo(Len(places) + 1) \/ \E k \in DOMAIN places : Useless(k)

Counters ==
  /\ pc \in {"list", "network", "done", "failed"}
  /\ listed \in 0 .. 6
  /\ pc \in {"network", "done"} <=> listed = 6
  /\ pc \in {"list", "failed"} => asked = 0
  /\ pc \in {"network", "done"} => asked \in 0 .. Len(places)
  /\ DOMAIN read \intersect Range(Lists) = {Lists[i] : i \in 1 .. listed}
  /\ pc \in {"list", "failed"} => DOMAIN read \subseteq Range(Lists)
  /\ pc \in {"network", "done"} => DOMAIN read \subseteq Range(Lists) \union
                                      {places[i] : i \in {j \in DOMAIN places : j <= asked}}

Moments ==
  /\ world \in past /\ IsFiniteSet(past) /\ Cardinality(past) <= MaxChanges + 1
  /\ \A part \in DOMAIN read : \E w \in past : w[part] = read[part]

Sound == \A w \in past : DOMAIN w = Parts /\ \A part \in Parts : Possible(part, w[part])

Detected == pc \in {"network", "done"} => cni = Classify(read["daemonSets"], read["nodes"])

Asked ==
  /\ pc = "network" /\ ~denied => VainUpTo(asked + 1) \/ (asked = Len(places) /\ Exhausted)
  /\ pc = "done" /\ ~denied =>
       \/ Exhausted /\ net = NodeNetwork(cni.name, read["nodes"])
       \/ \E k \in DOMAIN places : AnsweredAt(k) /\ net \in Parsed(cni.name, read[places[k]])

Sourced == net.source # "" => net.podCIDRs # {} \/ net.source = "calico-ippool"

IInv == Counters /\ Moments /\ Sound /\ Detected /\ Asked /\ Sourced

-----------------------------------------------------------------------------
(* The steps.                                                                 *)

\* Reading a part adds it, as it is now, to what was read.
LEMMA ReadsPart ==
  ASSUME NEW part, Reads(part)
  PROVE  /\ DOMAIN read' = DOMAIN read \union {part}
         /\ read'[part] = world[part]
         /\ \A p \in DOMAIN read : p # part => read'[p] = read[p]
BY DEF Reads

LEMMA MomentsRead ==
  ASSUME Moments, NEW part, Reads(part), UNCHANGED <<world, past>>
  PROVE  Moments'
BY ReadsPart DEF Moments

LEMMA MomentsKept ==
  ASSUME Moments, UNCHANGED <<read, world, past>>
  PROVE  Moments'
BY DEF Moments

LEMMA InitInv == Init => IInv
<1> SUFFICES ASSUME Init PROVE IInv OBVIOUS
<1>1. DOMAIN read = {}
  <2>1. read = << >> BY DEF Init
  <2>2. DOMAIN << >> = 1 .. 0 OBVIOUS
  <2>3. QED BY <2>1, <2>2
<1>2. Counters
  <2>1. 1 .. 0 = {} OBVIOUS
  <2>2. pc = "list" /\ listed = 0 /\ asked = 0 BY DEF Init
  <2>3. {Lists[i] : i \in 1 .. listed} = {} BY <2>1, <2>2
  <2>4. QED BY <1>1, <2>2, <2>3 DEF Counters
<1>3. Moments
  <2>1. past = {world} BY DEF Init
  <2>2. IsFiniteSet(past) /\ Cardinality(past) = 1 BY <2>1, FS_Singleton
  <2>3. Cardinality(past) <= MaxChanges + 1 BY <2>2, ChangesAssumption
  <2>4. QED BY <1>1, <2>1, <2>2, <2>3 DEF Moments
<1>4. Detected /\ Asked /\ Sound BY WorldsAssumption DEF Init, Detected, Asked, Sound
<1>5. Sourced BY DEF Init, Sourced, Network
<1>6. QED BY <1>2, <1>3, <1>4, <1>5 DEF IInv

LEMMA ChangeStep == IInv /\ Change => IInv'
<1> SUFFICES ASSUME IInv, Change PROVE IInv' OBVIOUS
<1>1. UNCHANGED <<pc, listed, asked, read, cni, net, denied>> BY DEF Change
<1>2. Moments'
  <2>1. past' = past \union {world'} BY DEF Change
  <2>2. IsFiniteSet(past) /\ Cardinality(past) \in Nat /\ Cardinality(past) <= MaxChanges + 1
    BY FS_CardinalityType DEF IInv, Moments
  <2>3. IsFiniteSet(past') /\ Cardinality(past') <= MaxChanges + 1
    <3>1. CASE world' \in past BY <3>1, <2>1, <2>2
    <3>2. CASE world' \notin past
      <4>1. Cardinality(past) <= MaxChanges BY <3>2 DEF Change
      <4>2. IsFiniteSet(past') /\ Cardinality(past') = Cardinality(past) + 1
        BY <2>1, <2>2, <3>2, FS_AddElement
      <4>3. QED BY <4>1, <4>2, <2>2, ChangesAssumption
    <3>3. QED BY <3>1, <3>2
  <2>4. QED BY <1>1, <2>1, <2>3 DEF IInv, Moments
<1>3. Counters' /\ Detected' /\ Asked' /\ Sourced'
  BY <1>1 DEF IInv, Counters, Detected, Asked, Sourced, VainUpTo, AnsweredAt, Useless, Exhausted, places
<1>4. Sound'
  <2>1. PICK part \in Parts, v \in UNION {Values[p] : p \in Parts} :
           v \in Values[part] /\ world' = [world EXCEPT ![part] = v]
    BY DEF Change
  <2>2. DOMAIN world = Parts /\ \A p \in Parts : Possible(p, world[p]) BY DEF IInv, Moments, Sound
  <2>3. DOMAIN world' = Parts /\ \A p \in Parts : Possible(p, world'[p])
    BY <2>1, <2>2, WorldsAssumption
  <2>4. past' = past \union {world'} BY DEF Change
  <2>5. QED BY <2>3, <2>4 DEF IInv, Sound
<1>5. QED BY <1>2, <1>3, <1>4 DEF IInv

LEMMA ListStep == IInv /\ List => IInv'
<1> SUFFICES ASSUME IInv, List PROVE IInv' OBVIOUS
<1> DEFINE part == Lists[listed + 1]
<1>1. /\ pc = "list" /\ pc' = "list" /\ listed' = listed + 1 /\ listed \in 0 .. 4
      /\ UNCHANGED <<asked, cni, net, world, past, denied>> /\ Reads(part)
  BY ListedParts DEF IInv, Counters, List
<1>2. Counters'
  <2>1. DOMAIN read' = DOMAIN read \union {part} BY <1>1, ReadsPart
  <2>2. part \in Range(Lists) BY <1>1, ListedParts
  <2>3. DOMAIN read' \intersect Range(Lists) = {Lists[i] : i \in 1 .. listed'}
    <3>1. 1 .. listed' = 1 .. listed \union {listed + 1} BY <1>1
    <3>2. QED BY <1>1, <2>1, <2>2, <3>1 DEF IInv, Counters
  <2>4. QED BY <1>1, <2>1, <2>2, <2>3 DEF IInv, Counters
<1>3. Moments' BY <1>1, MomentsRead DEF IInv
<1>4. QED BY <1>1, <1>2, <1>3 DEF IInv, Detected, Asked, Sourced, Sound

LEMMA ListFailsStep == IInv /\ ListFails => IInv'
<1> SUFFICES ASSUME IInv, ListFails PROVE IInv' OBVIOUS
<1>1. pc = "list" /\ pc' = "failed" /\ UNCHANGED <<listed, asked, read, cni, net, world, past, denied>>
  BY DEF ListFails
<1>2. Counters' BY <1>1 DEF IInv, Counters
<1>3. QED BY <1>1, <1>2, MomentsKept DEF IInv, Detected, Asked, Sourced, Sound

LEMMA DetectCNIStep == IInv /\ DetectCNI => IInv'
<1> SUFFICES ASSUME IInv, DetectCNI PROVE IInv' OBVIOUS
<1>1. /\ pc = "list" /\ pc' = "network" /\ listed = 5 /\ listed' = 6
      /\ UNCHANGED <<asked, net, world, past, denied>> /\ Reads("daemonSets")
      /\ cni' = Classify(world["daemonSets"], read["nodes"])
  BY ListedParts DEF IInv, Counters, DetectCNI
<1>2. /\ DOMAIN read' = DOMAIN read \union {"daemonSets"}
      /\ read'["daemonSets"] = world["daemonSets"]
      /\ \A p \in DOMAIN read : p # "daemonSets" => read'[p] = read[p]
  BY <1>1, ReadsPart
<1>3. "nodes" \in DOMAIN read BY <1>1, ListedParts DEF IInv, Counters
<1>4. Counters'
  <2>1. DOMAIN read' \intersect Range(Lists) = {Lists[i] : i \in 1 .. 6}
    <3>1. 1 .. 6 = 1 .. 5 \union {6} OBVIOUS
    <3>2. QED BY <1>1, <1>2, <3>1, ListedParts DEF IInv, Counters
  <2>2. asked = 0 /\ Len(places') \in 0 .. 2 BY <1>1, PlacesAreDistinct DEF IInv, Counters, places
  <2>3. DOMAIN read' \subseteq Range(Lists) BY <1>1, <1>2, ListedParts DEF IInv, Counters
  <2>4. QED BY <1>1, <2>1, <2>2, <2>3 DEF Counters
<1>5. Moments' BY <1>1, MomentsRead DEF IInv
<1>6. Detected' BY <1>1, <1>2, <1>3 DEF Detected
<1>7. Asked'
  <2>1. asked' = 0 BY <1>1 DEF IInv, Counters
  <2>2. DOMAIN places' = 1 .. Len(places') /\ Len(places') \in 0 .. 2 BY PlacesAreDistinct DEF places
  <2>3. VainUpTo(1)' BY <2>2 DEF VainUpTo
  <2>4. QED BY <1>1, <2>1, <2>3 DEF Asked
<1>8. QED BY <1>1, <1>4, <1>5, <1>6, <1>7 DEF IInv, Sourced, Sound

\* What is asked next is one of the places of the CNI, and was not read yet.
LEMMA PlaceIsNew ==
  ASSUME IInv, pc = "network", asked < Len(places)
  PROVE  /\ asked + 1 \in DOMAIN places /\ Place = places[asked + 1] /\ Place \in Places
         /\ Place \notin DOMAIN read /\ Place \notin Range(Lists)
         /\ "nodes" \in DOMAIN read /\ "daemonSets" \in DOMAIN read /\ listed = 6
<1>1. /\ asked \in Nat /\ DOMAIN places = 1 .. Len(places) /\ Len(places) \in 0 .. 2 /\ listed = 6
      /\ DOMAIN read \subseteq Range(Lists) \union {places[i] : i \in {j \in DOMAIN places : j <= asked}}
  BY PlacesAreDistinct DEF IInv, Counters, places
<1>2. asked + 1 \in DOMAIN places /\ Place = places[asked + 1] BY <1>1 DEF Place, places
<1>3. Place \in Places BY <1>2, PlacesAreDistinct DEF places
<1>4. Place \notin Range(Lists) BY <1>3, PlacesAreNoLists
<1>5. \A i \in DOMAIN places : i <= asked => places[i] # Place
  BY <1>1, <1>2, PlacesAreDistinct DEF places
<1>6. Place \notin DOMAIN read BY <1>1, <1>4, <1>5
<1>7. "nodes" \in DOMAIN read /\ "daemonSets" \in DOMAIN read
  BY <1>1, ListedParts DEF IInv, Counters
<1>8. QED BY <1>1, <1>2, <1>3, <1>4, <1>6, <1>7

\* Reading it leaves what was read before as it was.
LEMMA PlaceRead ==
  ASSUME IInv, pc = "network", asked < Len(places), Reads(Place), UNCHANGED cni, NEW k
  PROVE  /\ DOMAIN read' = DOMAIN read \union {Place} /\ read'[Place] = world[Place]
         /\ \A p \in DOMAIN read : read'[p] = read[p]
         /\ DOMAIN read' \intersect Range(Lists) = DOMAIN read \intersect Range(Lists)
         /\ VainUpTo(k) => VainUpTo(k)'
<1>1. Place \notin DOMAIN read /\ Place \notin Range(Lists) BY PlaceIsNew
<1>2. DOMAIN read' = DOMAIN read \union {Place} /\ read'[Place] = world[Place]
  BY ReadsPart
<1>3. \A p \in DOMAIN read : read'[p] = read[p] BY <1>1, ReadsPart
<1>4. DOMAIN read' \intersect Range(Lists) = DOMAIN read \intersect Range(Lists) BY <1>1, <1>2
<1>5. places' = places BY DEF places
<1>6. VainUpTo(k) => VainUpTo(k)' BY <1>2, <1>3, <1>5 DEF VainUpTo
<1>7. QED BY <1>2, <1>3, <1>4, <1>6

LEMMA AskStep == IInv /\ Ask => IInv'
<1> SUFFICES ASSUME IInv, Ask PROVE IInv' OBVIOUS
<1> DEFINE parsed == Parsed(cni.name, world[Place])
<1>0. PICK k : k = asked + 1 OBVIOUS
<1>1. /\ pc = "network" /\ asked < Len(places) /\ world[Place] # Absent /\ Reads(Place)
      /\ asked' = Len(places) /\ UNCHANGED <<listed, cni, world, past, denied>>
      /\ \/ parsed = {} /\ UNCHANGED <<pc, net>>
         \/ pc' = "done" /\ net' \in parsed
  BY DEF Ask, places
<1>2. /\ k \in DOMAIN places /\ Place = places[k] /\ Place \notin Range(Lists)
      /\ "nodes" \in DOMAIN read /\ "daemonSets" \in DOMAIN read /\ listed = 6
  BY <1>0, <1>1, PlaceIsNew
<1>3. /\ DOMAIN read' = DOMAIN read \union {Place} /\ read'[Place] = world[Place]
      /\ \A p \in DOMAIN read : read'[p] = read[p]
      /\ DOMAIN read' \intersect Range(Lists) = DOMAIN read \intersect Range(Lists)
      /\ VainUpTo(k) => VainUpTo(k)'
  BY <1>1, PlaceRead
<1>4. places' = places /\ DOMAIN places = 1 .. Len(places) /\ Len(places) \in 0 .. 2
  BY <1>1, PlacesAreDistinct DEF places
<1>5. Counters'
  <2>1. DOMAIN read' \subseteq Range(Lists) \union {places[i] : i \in {j \in DOMAIN places : j <= asked'}}
    BY <1>1, <1>2, <1>3, <1>4 DEF IInv, Counters
  <2>2. asked' \in 0 .. Len(places) BY <1>1, <1>4
  <2>3. QED BY <1>1, <1>2, <1>3, <1>4, <2>1, <2>2 DEF IInv, Counters
<1>6. Moments' BY <1>1, MomentsRead DEF IInv
<1>7. Detected' BY <1>1, <1>2, <1>3 DEF IInv, Detected
<1>8. Asked'
  <2> SUFFICES ASSUME ~denied PROVE Asked' BY <1>1 DEF Asked
  <2>1. VainUpTo(k) BY <1>0, <1>1, <1>4 DEF IInv, Asked
  <2>2. VainUpTo(k)' /\ Place \in DOMAIN read' /\ read'[Place] # Absent BY <1>1, <1>3, <2>1
  <2>3. AnsweredAt(k)' BY <1>1, <1>2, <1>4, <2>2 DEF AnsweredAt
  <2>4. parsed = Parsed(cni'.name, read'[places'[k]]) BY <1>1, <1>2, <1>3, <1>4
  <2>5. CASE parsed = {} /\ UNCHANGED <<pc, net>>
    <3>1. Useless(k)' BY <2>3, <2>4, <2>5 DEF Useless
    <3>2. Exhausted' BY <1>2, <1>4, <3>1 DEF Exhausted
    <3>3. QED BY <1>1, <1>4, <2>5, <3>2 DEF Asked
  <2>6. CASE pc' = "done" /\ net' \in parsed
    <3>1. \E i \in DOMAIN places' : AnsweredAt(i)' /\ net' \in Parsed(cni'.name, read'[places'[i]])
      BY <1>2, <1>4, <2>3, <2>4, <2>6
    <3>2. QED BY <2>6, <3>1 DEF Asked
  <2>7. QED BY <1>1, <2>5, <2>6
<1>9. Sourced'
  <2>1. CASE UNCHANGED net BY <2>1 DEF IInv, Sourced
  <2>2. CASE net' \in parsed
    <3>1. PlacesOf(cni.name) # << >> BY <1>2, <1>4 DEF places
    <3>2. cni.name \in {"calico", "canal", "flannel", "cilium"} BY <3>1, PlacesAreOfFour
    <3>3. net'.podCIDRs # {} \/ net'.source = "calico-ippool" BY <2>2, <3>2, ParsedHasCIDRs
    <3>4. QED BY <3>3 DEF Sourced
  <2>3. QED BY <1>1, <2>1, <2>2
<1>10. Sound' BY <1>1 DEF IInv, Sound
<1>11. QED BY <1>5, <1>6, <1>7, <1>8, <1>9, <1>10 DEF IInv

LEMMA AskInVainStep == IInv /\ AskInVain => IInv'
<1> SUFFICES ASSUME IInv, AskInVain PROVE IInv' OBVIOUS
<1>0. PICK k : k = asked + 1 OBVIOUS
<1>1. /\ pc = "network" /\ asked < Len(places) /\ asked' = asked + 1
      /\ UNCHANGED <<pc, listed, cni, net, world, past>>
  BY DEF AskInVain, places
<1>2. places' = places /\ DOMAIN places = 1 .. Len(places) /\ Len(places) \in 0 .. 2
      /\ asked \in Nat /\ asked' \in 0 .. Len(places)
  BY <1>1, PlacesAreDistinct DEF IInv, Counters, places
<1>3. /\ k \in DOMAIN places /\ Place = places[k]
      /\ "nodes" \in DOMAIN read /\ "daemonSets" \in DOMAIN read /\ listed = 6
  BY <1>0, <1>1, PlaceIsNew
<1>4. Sourced' /\ Sound' BY <1>1 DEF IInv, Sourced, Sound
<1>5. CASE denied' /\ UNCHANGED read
  <2>1. Counters' BY <1>1, <1>2, <1>5 DEF IInv, Counters
  <2>2. Moments' BY <1>1, <1>5, MomentsKept DEF IInv
  <2>3. Detected' /\ Asked' BY <1>1, <1>5 DEF IInv, Detected, Asked
  <2>4. QED BY <1>4, <2>1, <2>2, <2>3 DEF IInv
<1>6. CASE world[Place] = Absent /\ Reads(Place) /\ UNCHANGED denied
  <2>1. /\ DOMAIN read' = DOMAIN read \union {Place} /\ read'[Place] = world[Place]
        /\ \A p \in DOMAIN read : read'[p] = read[p]
        /\ DOMAIN read' \intersect Range(Lists) = DOMAIN read \intersect Range(Lists)
        /\ VainUpTo(k) => VainUpTo(k)'
    BY <1>1, <1>6, PlaceRead
  <2>2. Counters'
    <3>1. DOMAIN read' \subseteq Range(Lists) \union {places[i] : i \in {j \in DOMAIN places : j <= asked'}}
      BY <1>0, <1>1, <1>2, <1>3, <2>1 DEF IInv, Counters
    <3>2. QED BY <1>1, <1>2, <1>3, <2>1, <3>1 DEF IInv, Counters
  <2>3. Moments' BY <1>1, <1>6, MomentsRead DEF IInv
  <2>4. Detected' BY <1>1, <1>3, <2>1 DEF IInv, Detected
  <2>5. Asked'
    <3> SUFFICES ASSUME ~denied PROVE Asked' BY <1>6 DEF Asked
    <3>1. VainUpTo(k)
      <4>1. asked # Len(places)
        <5>1. \A a, n \in Nat : a < n => a # n OBVIOUS
        <5>2. asked \in Nat /\ Len(places) \in Nat /\ asked < Len(places) BY <1>1, <1>2
        <5>3. QED BY <5>1, <5>2
      <4>2. VainUpTo(asked + 1) BY <1>1, <4>1 DEF IInv, Asked
      <4>3. QED BY <1>0, <4>2
    <3>2. \A i \in DOMAIN places' : i < k + 1 =>
             places'[i] \in DOMAIN read' /\ read'[places'[i]] = Absent
      BY <1>0, <1>2, <1>3, <1>6, <2>1, <3>1 DEF VainUpTo
    <3>3. VainUpTo(asked + 1)' BY <1>0, <1>1, <3>2 DEF VainUpTo
    <3>4. QED BY <1>1, <3>3 DEF Asked
  <2>6. QED BY <1>4, <2>2, <2>3, <2>4, <2>5 DEF IInv
<1>7. QED BY <1>5, <1>6 DEF AskInVain

LEMMA FallBackStep == IInv /\ FallBack => IInv'
<1> SUFFICES ASSUME IInv, FallBack PROVE IInv' OBVIOUS
<1>1. /\ pc = "network" /\ pc' = "done" /\ asked = Len(places)
      /\ net' = NodeNetwork(cni.name, read["nodes"])
      /\ UNCHANGED <<listed, asked, read, cni, world, past, denied>>
  BY DEF FallBack, places
<1>2. Counters' BY <1>1 DEF IInv, Counters, places
<1>3. Moments' BY <1>1, MomentsKept DEF IInv
<1>4. Detected' BY <1>1 DEF IInv, Detected
<1>5. Asked'
  <2>1. ~denied => Exhausted BY <1>1 DEF IInv, Asked, Exhausted
  <2>2. Exhausted => Exhausted' BY <1>1 DEF Exhausted, Useless, AnsweredAt, VainUpTo, places
  <2>3. QED BY <1>1, <2>1, <2>2 DEF Asked
<1>6. Sourced' /\ Sound' BY <1>1 DEF IInv, Sourced, Sound, NodeNetwork, Network
<1>7. QED BY <1>2, <1>3, <1>4, <1>5, <1>6 DEF IInv

LEMMA NextInv == IInv /\ [Next]_vars => IInv'
<1>1. IInv /\ UNCHANGED vars => IInv'
  <2> SUFFICES ASSUME IInv, UNCHANGED vars PROVE IInv' OBVIOUS
  <2>1. UNCHANGED <<pc, listed, asked, read, cni, net, world, past, denied>> BY DEF vars
  <2>2. Moments' BY <2>1, MomentsKept DEF IInv
  <2>3. Counters' /\ Sound' /\ Detected' /\ Asked' /\ Sourced'
    BY <2>1 DEF IInv, Sound, Counters, Detected, Asked, Sourced, VainUpTo, AnsweredAt, Useless, Exhausted, places
  <2>4. QED BY <2>2, <2>3 DEF IInv
<1>2. QED
  BY <1>1, ChangeStep, ListStep, ListFailsStep, DetectCNIStep, AskStep, AskInVainStep, FallBackStep
  DEF Next

\* The inductive invariant holds in every state of a collection.
THEOREM Invariant == Spec => []IInv
<1>1. QED BY InitInv, NextInv, PTL DEF Spec

-----------------------------------------------------------------------------
(* What it says.                                                              *)

\* Type correctness of Collect.
THEOREM TypeCorrect == Spec => []TypeOK
<1>1. ASSUME IInv PROVE TypeOK
  <2>1. asked \in 0 .. 2 /\ Len(Lists) = 6
    <3>1. Len(places) \in 0 .. 2 BY PlacesAreDistinct DEF places
    <3>2. asked = 0 \/ asked \in 0 .. Len(places) BY <1>1 DEF IInv, Counters
    <3>3. \A n \in 0 .. 2 : \A a : a = 0 \/ a \in 0 .. n => a \in 0 .. 2 OBVIOUS
    <3>4. asked \in 0 .. 2 BY <3>1, <3>2, <3>3
    <3>5. QED BY <3>4, ListedParts
  <2>2. QED BY <1>1, <2>1 DEF IInv, Counters, Moments, Sourced, TypeOK
<1>2. QED BY <1>1, Invariant, PTL

\* If one part changed at most, what was read of all parts was so at one moment.
LEMMA OneMoment ==
  ASSUME Moments, DOMAIN read \subseteq Parts, \A p, q \in Moved : p = q
  PROVE  \E w \in past : \A part \in DOMAIN read : w[part] = read[part]
<1>1. \A part \in DOMAIN read \ Moved : \A w \in past : w[part] = read[part]
  BY DEF Moments, Moved
<1>2. CASE \E part \in DOMAIN read : part \in Moved
  <2>1. PICK part \in DOMAIN read : part \in Moved BY <1>2
  <2>2. PICK w \in past : w[part] = read[part] BY <2>1 DEF Moments
  <2>3. \A other \in DOMAIN read : other \in Moved => other = part BY <2>1
  <2>4. QED BY <1>1, <2>2, <2>3
<1>3. CASE \A part \in DOMAIN read : part \notin Moved BY <1>1, <1>3 DEF Moments
<1>4. QED BY <1>2, <1>3

\* CNIOf of a world that is as it was read is what Collect returns.
LEMMA ReadIsCNIOf ==
  ASSUME IInv, pc = "done", ~denied, NEW w, \A part \in DOMAIN read : w[part] = read[part]
  PROVE  <<cni, net>> = CNIOf(w)
<1> DEFINE answering == {i \in DOMAIN places : w[places[i]] # Absent}
           first == First(answering)
           parsed == IF answering = {} THEN {} ELSE Parsed(cni.name, w[places[first]])
<1>1. "nodes" \in DOMAIN read /\ "daemonSets" \in DOMAIN read
  BY ListedParts DEF IInv, Counters
<1>2. cni = Classify(w["daemonSets"], w["nodes"]) BY <1>1 DEF IInv, Detected
<1>3. NetworkOf(cni.name, w, w["nodes"]) =
        IF parsed = {} THEN NodeNetwork(cni.name, w["nodes"]) ELSE CHOOSE n \in parsed : TRUE
  BY DEF NetworkOf, places
<1>4. DOMAIN places = 1 .. Len(places) /\ Len(places) \in 0 .. 2 BY PlacesAreDistinct DEF places
<1>5. ASSUME VainUpTo(Len(places) + 1) PROVE parsed = {}
  <2>1. answering = {} BY <1>4, <1>5 DEF VainUpTo
  <2>2. QED BY <2>1
<1>6. ASSUME NEW k \in DOMAIN places, AnsweredAt(k)
      PROVE  parsed = Parsed(cni.name, read[places[k]])
  <2>1. k \in answering BY <1>6 DEF AnsweredAt
  <2>2. \A i \in answering : k <= i BY <1>4, <1>6 DEF AnsweredAt, VainUpTo
  <2>3. \A i \in answering : (\A j \in answering : i <= j) => i = k BY <1>4, <2>1, <2>2
  <2>4. first = k BY <2>1, <2>2, <2>3 DEF First
  <2>5. w[places[k]] = read[places[k]] BY <1>6 DEF AnsweredAt
  <2> HIDE DEF answering, first
  <2>6. QED BY <2>1, <2>4, <2>5
<1> HIDE DEF parsed
<1>7. CASE Exhausted /\ net = NodeNetwork(cni.name, read["nodes"])
  <2>1. parsed = {} BY <1>5, <1>6, <1>7 DEF Exhausted, Useless
  <2>2. net = NetworkOf(cni.name, w, w["nodes"]) BY <1>1, <1>3, <1>7, <2>1
  <2>3. QED BY <1>2, <2>2 DEF CNIOf
<1>8. CASE \E k \in DOMAIN places : AnsweredAt(k) /\ net \in Parsed(cni.name, read[places[k]])
  <2>1. net \in parsed BY <1>6, <1>8
  <2>2. cni.name \in {"calico", "canal", "flannel", "cilium"}
    <3>1. PlacesOf(cni.name) # << >> BY <1>4, <1>8 DEF places
    <3>2. QED BY <3>1, PlacesAreOfFour
  <2>3. \A m, n \in parsed : m = n BY <1>6, <1>8, <2>2, ParsedIsOne
  <2>4. net = NetworkOf(cni.name, w, w["nodes"]) BY <1>3, <2>1, <2>3
  <2>5. QED BY <1>2, <2>4 DEF CNIOf
<1>9. QED BY <1>7, <1>8 DEF IInv, Asked

\* If a single part of the cluster changes while Collect runs, as often as it
\* may, the snapshot is the cluster at one moment, for any cluster (Collect,
\* detectCNI and detectPodNetwork).
THEOREM OneMoverSafe == Spec => []OneMoverIsAMoment
<1>1. ASSUME IInv, pc = "done", ~denied, \A p, q \in Moved : p = q PROVE IsMoment
  <2>1. DOMAIN read \subseteq Parts
    <3>1. \A i \in DOMAIN places : places[i] \in Places BY PlacesAreDistinct DEF places
    <3>2. QED BY <1>1, <3>1 DEF IInv, Counters, Parts
  <2>2. PICK w \in past : \A part \in DOMAIN read : w[part] = read[part]
    BY <1>1, <2>1, OneMoment DEF IInv
  <2>3. QED BY <1>1, <2>2, ReadIsCNIOf DEF IsMoment
<1>2. IInv => OneMoverIsAMoment BY <1>1 DEF OneMoverIsAMoment
<1>3. QED BY <1>2, Invariant, PTL

-----------------------------------------------------------------------------
(* First positions.                                                           *)

LEMMA LeastNat ==
  ASSUME NEW T \in SUBSET Nat, T # {}
  PROVE  \E x \in T : \A y \in T : x <= y
<1> DEFINE R == OpToRel(<, Nat)
<1>1. \E x \in T : \A y \in T : <<y, x>> \notin R
  <2>1. IsWellFoundedOn(R, Nat) BY NatLessThanWellFounded
  <2> HIDE DEF R
  <2>2. QED BY <2>1, WFMin
<1>2. \A x, y \in Nat : y < x => <<y, x>> \in R BY DEF OpToRel
<1> HIDE DEF R
<1>3. PICK x \in T : \A y \in T : <<y, x>> \notin R BY <1>1
<1>4. \A y \in T : ~(y < x) BY <1>2, <1>3, Zenon
<1>5. QED BY <1>4, SMT

LEMMA FirstIsOne ==
  ASSUME NEW T \in SUBSET Nat, T # {}
  PROVE  First(T) \in T /\ \A j \in T : First(T) <= j
<1>1. \E x \in T : \A y \in T : x <= y BY LeastNat
<1>2. QED BY <1>1 DEF First

LEMMA FirstOfSequence ==
  ASSUME NEW s, s \in Seq(Range(s)), NEW T \in SUBSET DOMAIN s, T # {}
  PROVE  First(T) \in T /\ \A j \in T : First(T) <= j
<1>1. T \in SUBSET Nat
  <2>1. DOMAIN s = 1 .. Len(s) /\ Len(s) \in Nat OBVIOUS
  <2>2. QED BY <2>1
<1>2. QED BY <1>1, FirstIsOne

-----------------------------------------------------------------------------
(* The CNI and whether it enforces policies.                                  *)

LEMMA TheRules ==
  /\ DOMAIN CniRules = 1 .. 7
  /\ CniRules[1] = Rule({"cilium"}, "cilium", TRUE)
  /\ CniRules[2] = Rule({"calico-node"}, "calico", TRUE)
  /\ CniRules[3] = Rule({"canal"}, "canal", TRUE)
  /\ CniRules[4] = Rule({"kindnet"}, "kindnet", TRUE)
  /\ CniRules[5] = Rule({"antrea-agent"}, "antrea", TRUE)
  /\ CniRules[6] = Rule({"kube-router"}, "kube-router", TRUE)
  /\ CniRules[7] = Rule({"kube-flannel-ds", "kube-flannel"}, "flannel", FALSE)
BY DEF CniRules

Hits(daemonSets) == {i \in DOMAIN CniRules : \E ds \in Range(daemonSets) : ds.name \in CniRules[i].dsNames}

\* A rule that is hit by the name of some DaemonSet.
LEMMA WhatHits ==
  ASSUME NEW daemonSets
  PROVE  /\ Hits(daemonSets) \subseteq 1 .. 7
         /\ 1 \in Hits(daemonSets) <=> \E ds \in Range(daemonSets) : ds.name = "cilium"
         /\ 2 \in Hits(daemonSets) <=> \E ds \in Range(daemonSets) : ds.name = "calico-node"
         /\ 3 \in Hits(daemonSets) <=> \E ds \in Range(daemonSets) : ds.name = "canal"
         /\ 4 \in Hits(daemonSets) <=> \E ds \in Range(daemonSets) : ds.name = "kindnet"
         /\ 5 \in Hits(daemonSets) <=> \E ds \in Range(daemonSets) : ds.name = "antrea-agent"
         /\ 6 \in Hits(daemonSets) <=> \E ds \in Range(daemonSets) : ds.name = "kube-router"
<1>1. \A i \in 1 .. 7 : i \in Hits(daemonSets) <=> \E ds \in Range(daemonSets) : ds.name \in CniRules[i].dsNames
  BY TheRules DEF Hits
<1>2. /\ CniRules[1].dsNames = {"cilium"} /\ CniRules[2].dsNames = {"calico-node"}
      /\ CniRules[3].dsNames = {"canal"} /\ CniRules[4].dsNames = {"kindnet"}
      /\ CniRules[5].dsNames = {"antrea-agent"} /\ CniRules[6].dsNames = {"kube-router"}
  BY TheRules DEF Rule
<1>3. Hits(daemonSets) \subseteq 1 .. 7 BY TheRules DEF Hits
<1>4. 1 \in 1 .. 7 /\ 2 \in 1 .. 7 /\ 3 \in 1 .. 7 /\ 4 \in 1 .. 7 /\ 5 \in 1 .. 7 /\ 6 \in 1 .. 7 OBVIOUS
<1> DEFINE Hit(i) == \E ds \in Range(daemonSets) : ds.name \in CniRules[i].dsNames
<1>5. /\ Hit(1) <=> \E ds \in Range(daemonSets) : ds.name = "cilium"
      /\ Hit(2) <=> \E ds \in Range(daemonSets) : ds.name = "calico-node"
      /\ Hit(3) <=> \E ds \in Range(daemonSets) : ds.name = "canal"
      /\ Hit(4) <=> \E ds \in Range(daemonSets) : ds.name = "kindnet"
      /\ Hit(5) <=> \E ds \in Range(daemonSets) : ds.name = "antrea-agent"
      /\ Hit(6) <=> \E ds \in Range(daemonSets) : ds.name = "kube-router"
  BY <1>2
<1>6. QED BY <1>1, <1>3, <1>4, <1>5

\* Of the rules that are hit the first one decides.
LEMMA FirstRuleDecides ==
  ASSUME NEW daemonSets, Hits(daemonSets) # {}
  PROVE  /\ First(Hits(daemonSets)) \in Hits(daemonSets)
         /\ \A j \in Hits(daemonSets) : First(Hits(daemonSets)) <= j
         /\ First(Hits(daemonSets)) \in 1 .. 7
<1>1. Hits(daemonSets) \in SUBSET Nat BY WhatHits
<1>2. QED BY <1>1, FirstIsOne, WhatHits

LEMMA ClassifiedByRule ==
  ASSUME NEW daemonSets, Hits(daemonSets) # {}, NEW rule, rule = CniRules[First(Hits(daemonSets))]
  PROVE  /\ ClassifyCNI(daemonSets).name = rule.name
         /\ rule.name = "kindnet" => ClassifyCNI(daemonSets).enforces = KindnetEnforces(daemonSets)
         /\ rule.name = "kube-router" => ClassifyCNI(daemonSets).enforces = ~FirewallOff(daemonSets)
         /\ rule.name \notin {"kindnet", "kube-router"} => ClassifyCNI(daemonSets).enforces = rule.enforces
BY DEF ClassifyCNI, Hits

LEMMA ClassifiedByNone ==
  ASSUME NEW daemonSets, Hits(daemonSets) = {}
  PROVE  ClassifyCNI(daemonSets) = Unknown
BY DEF ClassifyCNI, Hits

\* A kindnet whose images are of one age enforces policies unless it is outdated.
LEMMA KindnetByAge ==
  ASSUME NEW daemonSets, Possible("daemonSets", daemonSets), Settled(daemonSets),
         NEW ds \in Range(daemonSets), ds.name = "kindnet"
  PROVE  KindnetEnforces(daemonSets) <=> ~Outdated(ds)
<1> DEFINE dated == {i \in DOMAIN daemonSets : daemonSets[i].name = "kindnet" /\ Dated(daemonSets[i]) # {}}
<1>1. daemonSets \in Seq(Range(daemonSets)) /\ ds.tags \in Seq(Nat)
  BY DEF Possible
<1>2. PICK k \in DOMAIN daemonSets : ds = daemonSets[k] BY DEF Range
<1>3. \A i \in DOMAIN daemonSets : daemonSets[i].name = "kindnet" => i = k
  BY <1>2 DEF Settled, NoTwins
<1>4. Range(ds.tags) = {ds.tags[i] : i \in DOMAIN ds.tags} BY DEF Range
<1>5. KindnetEnforces(daemonSets) <=>
        dated = {} \/ daemonSets[First(dated)].tags[First(Dated(daemonSets[First(dated)]))] >= KindnetFirstEnforcing
  BY DEF KindnetEnforces
<1>6. CASE Dated(ds) = {}
  <2>1. dated = {} BY <1>2, <1>3, <1>6
  <2>2. ~Outdated(ds) BY <1>4, <1>6 DEF Outdated, Dated
  <2>3. QED BY <1>5, <2>1, <2>2
<1>7. CASE Dated(ds) # {}
  <2>1. dated = {k} BY <1>2, <1>3, <1>7
  <2>2. First(dated) = k BY <1>1, <2>1, FirstOfSequence
  <2> HIDE DEF dated
  <2> DEFINE first == First(Dated(ds))
  <2>3. DOMAIN ds.tags \subseteq Nat
    <3>1. DOMAIN ds.tags = 1 .. Len(ds.tags) /\ Len(ds.tags) \in Nat BY <1>1
    <3>2. QED BY <3>1
  <2>4. first \in Dated(ds)
    <3>1. Dated(ds) \in SUBSET Nat BY <2>3 DEF Dated
    <3>2. QED BY <1>7, <3>1, FirstIsOne
  <2> DEFINE d == ds.tags[first]
  <2>5. d \in Nat /\ d # 0 /\ d \in Range(ds.tags)
    <3> HIDE DEF first
    <3>1. first \in DOMAIN ds.tags /\ ds.tags[first] # 0 BY <2>4 DEF Dated
    <3>2. \A i \in DOMAIN ds.tags : ds.tags[i] \in Nat BY <1>1
    <3>3. QED BY <1>4, <3>1, <3>2
  <2>6. KindnetEnforces(daemonSets) <=> d >= KindnetFirstEnforcing BY <1>2, <1>5, <2>1, <2>2
  <2> HIDE DEF first, d
  <2>7. \A e \in Range(ds.tags) : e \in Nat BY <1>1, <1>4
  <2>8. \A e, f \in Range(ds.tags) \ {0} : f < KindnetFirstEnforcing => e < KindnetFirstEnforcing
    BY DEF Settled
  <2>9. Outdated(ds) <=> d < KindnetFirstEnforcing BY <2>5, <2>7, <2>8 DEF Outdated
  <2>10. QED BY <2>5, <2>6, <2>9 DEF KindnetFirstEnforcing
<1>8. QED BY <1>6, <1>7

LEMMA EnforcersHit ==
  ASSUME NEW daemonSets, NEW ds \in Range(daemonSets), Enforcer(ds)
  PROVE  \E i \in Hits(daemonSets) : i <= 6
<1>1. CASE ds.name = "cilium" BY <1>1, WhatHits
<1>2. CASE ds.name = "calico-node" BY <1>2, WhatHits
<1>3. CASE ds.name = "canal" BY <1>3, WhatHits
<1>4. CASE ds.name = "kindnet" BY <1>4, WhatHits
<1>5. CASE ds.name = "antrea-agent" BY <1>5, WhatHits
<1>6. CASE ds.name = "kube-router" BY <1>6, WhatHits
<1>7. QED BY <1>1, <1>2, <1>3, <1>4, <1>5, <1>6 DEF Enforcer

\* Where some rule is hit, the snapshot says of the DaemonSets what is so.
LEMMA RulesTellEnforcement ==
  ASSUME NEW daemonSets, Possible("daemonSets", daemonSets), Settled(daemonSets), Hits(daemonSets) # {}
  PROVE  /\ ClassifyCNI(daemonSets).name \notin {"unknown", "k3s"}
         /\ ClassifyCNI(daemonSets).enforces <=> \E ds \in Range(daemonSets) : Enforcer(ds)
<1> DEFINE n == First(Hits(daemonSets))
           found == ClassifyCNI(daemonSets)
<1>1. n \in Hits(daemonSets) /\ n \in 1 .. 7 /\ \A j \in Hits(daemonSets) : n <= j
  BY FirstRuleDecides
<1>2. /\ found.name = CniRules[n].name
      /\ CniRules[n].name = "kindnet" => found.enforces = KindnetEnforces(daemonSets)
      /\ CniRules[n].name = "kube-router" => found.enforces = ~FirewallOff(daemonSets)
      /\ CniRules[n].name \notin {"kindnet", "kube-router"} => found.enforces = CniRules[n].enforces
  BY ClassifiedByRule
<1> HIDE DEF n, found
<1>3. CASE n \in {1, 2, 3, 5}
  <2>1. \E ds \in Range(daemonSets) : ds.name \in {"cilium", "calico-node", "canal", "antrea-agent"}
    BY <1>1, <1>3, WhatHits
  <2>2. CniRules[n].name \in {"cilium", "calico", "canal", "antrea"} /\ CniRules[n].enforces = TRUE
    BY <1>3, TheRules DEF Rule
  <2>3. QED BY <1>2, <2>1, <2>2 DEF Enforcer, found
<1>4. CASE n = 4
  <2>1. PICK ds \in Range(daemonSets) : ds.name = "kindnet" BY <1>1, <1>4, WhatHits
  <2>2. CniRules[n].name = "kindnet" BY <1>4, TheRules DEF Rule
  <2>3. KindnetEnforces(daemonSets) <=> ~Outdated(ds) BY <2>1, KindnetByAge
  <2>4. Outdated(ds) => ~\E new \in Range(daemonSets) : Enforcer(new) BY DEF Settled
  <2>5. ~Outdated(ds) => Enforcer(ds) BY <2>1 DEF Enforcer
  <2>6. QED BY <1>2, <2>2, <2>3, <2>4, <2>5 DEF found
<1>5. CASE n = 6
  <2>1. PICK ds \in Range(daemonSets) : ds.name = "kube-router" BY <1>1, <1>5, WhatHits
  <2>2. CniRules[n].name = "kube-router" BY <1>5, TheRules DEF Rule
  <2>3. \A other \in Range(daemonSets) : other.name = "kube-router" => other = ds
    BY <2>1 DEF Settled, NoTwins, Range
  <2>4. FirewallOff(daemonSets) <=> ds.firewallOff BY <2>1, <2>3 DEF FirewallOff
  <2>5. ASSUME NEW other \in Range(daemonSets), Enforcer(other) PROVE other.name = "kube-router"
    <3>1. 1 \notin Hits(daemonSets) /\ 2 \notin Hits(daemonSets) /\ 3 \notin Hits(daemonSets)
          /\ 4 \notin Hits(daemonSets) /\ 5 \notin Hits(daemonSets)
      BY <1>1, <1>5
    <3>2. other.name \notin {"cilium", "calico-node", "canal", "kindnet", "antrea-agent"}
      BY <3>1, WhatHits
    <3>3. QED BY <2>5, <3>2 DEF Enforcer
  <2>6. (\E other \in Range(daemonSets) : Enforcer(other)) <=> ~ds.firewallOff
    BY <2>1, <2>3, <2>5 DEF Enforcer
  <2>7. QED BY <1>2, <2>2, <2>4, <2>6 DEF found
<1>6. CASE n = 7
  <2>1. CniRules[n].name = "flannel" /\ CniRules[n].enforces = FALSE BY <1>6, TheRules DEF Rule
  <2>2. ~\E ds \in Range(daemonSets) : Enforcer(ds) BY <1>1, <1>6, EnforcersHit, WhatHits
  <2>3. QED BY <1>2, <2>1, <2>2 DEF found
<1>7. QED BY <1>1, <1>3, <1>4, <1>5, <1>6

\* The snapshot says that policies are enforced just if some agent enforces
\* them, for any cluster in which no CNI hides behind another's rule (cniRules).
THEOREM EnforcementSafe == Spec => []EnforcementIsKnown
<1>1. ASSUME IInv, pc = "done", Settled(read["daemonSets"])
      PROVE  cni.enforces <=> EnforcerIsThere
  <2> DEFINE daemonSets == read["daemonSets"]
             nodes == read["nodes"]
  <2>1. Possible("daemonSets", daemonSets)
    <3>1. "daemonSets" \in DOMAIN read /\ "daemonSets" \in Parts
      BY <1>1, ListedParts DEF IInv, Counters, Parts
    <3>2. QED BY <1>1, <3>1 DEF IInv, Moments, Sound
  <2>2. cni = Classify(daemonSets, nodes) BY <1>1 DEF IInv, Detected
  <2> HIDE DEF daemonSets, nodes
  <2>3. CASE Hits(daemonSets) = {}
    <3>1. cni = ClassifyEmbeddedCNI(nodes) BY <2>2, <2>3, ClassifiedByNone DEF Classify, Unknown
    <3>2. ~\E ds \in Range(daemonSets) : Enforcer(ds) BY <2>3, EnforcersHit
    <3>3. cni.enforces <=> cni.name = "k3s" /\ \A n \in Range(nodes) : n.k3s => ~n.disables
      BY <3>1 DEF ClassifyEmbeddedCNI, Unknown
    <3>4. QED BY <3>2, <3>3 DEF EnforcerIsThere, daemonSets, nodes
  <2>4. CASE Hits(daemonSets) # {}
    <3>1. /\ ClassifyCNI(daemonSets).name \notin {"unknown", "k3s"}
          /\ ClassifyCNI(daemonSets).enforces <=> \E ds \in Range(daemonSets) : Enforcer(ds)
      BY <1>1, <2>1, <2>4, RulesTellEnforcement DEF daemonSets
    <3>2. cni = ClassifyCNI(daemonSets) BY <2>2, <3>1 DEF Classify
    <3>3. QED BY <3>1, <3>2 DEF EnforcerIsThere, daemonSets
  <2>5. QED BY <2>3, <2>4
<1>2. IInv => EnforcementIsKnown BY <1>1 DEF EnforcementIsKnown
<1>3. QED BY <1>2, Invariant, PTL

-----------------------------------------------------------------------------
(* The overlay of IPPools, one by one and of all at once.                     *)

\* The overlay of the first n pools, as the loop leaves it.
Stepwise(pools, after) ==
  after = [n \in 0 .. Len(pools) |->
             IF n = 0 THEN "none"
             ELSE IF Enabled(pools[n]) THEN PoolOverlay(after[n - 1], pools[n]) ELSE after[n - 1]]

\* The same, read off the pools.
OverlayOfFirst(pools, n) ==
  IF \E i \in 1 .. n : Enabled(pools[i]) /\ pools[i].ipip THEN "ipip"
  ELSE IF \E i \in 1 .. n : Enabled(pools[i]) /\ pools[i].vxlan THEN "vxlan" ELSE "none"

LEMMA OverlayOfNext ==
  ASSUME NEW pools, NEW n \in Nat, n # 0
  PROVE  OverlayOfFirst(pools, n) =
           IF Enabled(pools[n]) THEN PoolOverlay(OverlayOfFirst(pools, n - 1), pools[n])
           ELSE OverlayOfFirst(pools, n - 1)
<1> DEFINE Ipip(m) == \E i \in 1 .. m : Enabled(pools[i]) /\ pools[i].ipip
           Vxlan(m) == \E i \in 1 .. m : Enabled(pools[i]) /\ pools[i].vxlan
<1>1. 1 .. n = (1 .. (n - 1)) \union {n} OBVIOUS
<1>2. Ipip(n) <=> Ipip(n - 1) \/ (Enabled(pools[n]) /\ pools[n].ipip) BY <1>1
<1>3. Vxlan(n) <=> Vxlan(n - 1) \/ (Enabled(pools[n]) /\ pools[n].vxlan) BY <1>1
<1>4. \A m : OverlayOfFirst(pools, m) = IF Ipip(m) THEN "ipip" ELSE IF Vxlan(m) THEN "vxlan" ELSE "none"
  BY DEF OverlayOfFirst
<1> HIDE DEF Ipip, Vxlan
<1>5. QED BY <1>2, <1>3, <1>4 DEF PoolOverlay

\* The loop over the pools arrives at it.
LEMMA LoopOverPools ==
  ASSUME NEW pools, Len(pools) \in Nat, NEW after, Stepwise(pools, after)
  PROVE  \A n \in 0 .. Len(pools) : after[n] = OverlayOfFirst(pools, n)
<1> DEFINE T == {n \in 0 .. Len(pools) : after[n] # OverlayOfFirst(pools, n)}
<1>1. after[0] = OverlayOfFirst(pools, 0)
  <2>1. after[0] = "none" BY DEF Stepwise
  <2>2. OverlayOfFirst(pools, 0) = "none" BY DEF OverlayOfFirst
  <2>3. QED BY <2>1, <2>2
<1>2. \A n \in 1 .. Len(pools) :
         after[n] = IF Enabled(pools[n]) THEN PoolOverlay(after[n - 1], pools[n]) ELSE after[n - 1]
  BY DEF Stepwise
<1>3. \A n \in 1 .. Len(pools) :
         OverlayOfFirst(pools, n) =
           IF Enabled(pools[n]) THEN PoolOverlay(OverlayOfFirst(pools, n - 1), pools[n])
           ELSE OverlayOfFirst(pools, n - 1)
  BY OverlayOfNext
<1>4. ASSUME T # {} PROVE FALSE
  <2>1. PICK n \in T : \A m \in T : n <= m
    <3>1. T \in SUBSET Nat OBVIOUS
    <3> HIDE DEF T
    <3>2. QED BY <1>4, <3>1, LeastNat
  <2>2. n \in 1 .. Len(pools) BY <1>1
  <2>3. n - 1 \notin T BY <2>1, <2>2
  <2>4. after[n - 1] = OverlayOfFirst(pools, n - 1) BY <2>2, <2>3
  <2>5. after[n] = OverlayOfFirst(pools, n) BY <1>2, <1>3, <2>2, <2>4
  <2>6. QED BY <2>5
<1>5. QED BY <1>4

\* Any enabled pool of IPIP decides, otherwise any of VXLAN.
LEMMA OverlayIs ==
  ASSUME NEW pools, pools \in Seq(Range(pools))
  PROVE  Overlay(pools) =
           IF \E p \in Range(pools) : Enabled(p) /\ p.ipip THEN "ipip"
           ELSE IF \E p \in Range(pools) : Enabled(p) /\ p.vxlan THEN "vxlan" ELSE "none"
<1> DEFINE by == [n \in 0 .. Len(pools) |-> OverlayOfFirst(pools, n)]
           after == CHOOSE f : Stepwise(pools, f)
<1>1. Len(pools) \in Nat /\ DOMAIN pools = 1 .. Len(pools) OBVIOUS
<1>2. Stepwise(pools, by)
  <2>1. \A n \in 0 .. Len(pools) :
           by[n] = IF n = 0 THEN "none"
                   ELSE IF Enabled(pools[n]) THEN PoolOverlay(by[n - 1], pools[n]) ELSE by[n - 1]
    <3> SUFFICES ASSUME NEW n \in 0 .. Len(pools)
                 PROVE  by[n] = IF n = 0 THEN "none"
                                ELSE IF Enabled(pools[n]) THEN PoolOverlay(by[n - 1], pools[n]) ELSE by[n - 1]
      OBVIOUS
    <3>1. CASE n = 0
      <4>1. OverlayOfFirst(pools, 0) = "none" BY DEF OverlayOfFirst
      <4>2. QED BY <3>1, <4>1
    <3>2. CASE n # 0
      <4>1. n \in Nat /\ n - 1 \in 0 .. Len(pools) BY <1>1, <3>2
      <4>2. by[n] = OverlayOfFirst(pools, n) /\ by[n - 1] = OverlayOfFirst(pools, n - 1) BY <4>1
      <4>3. OverlayOfFirst(pools, n) =
              IF Enabled(pools[n]) THEN PoolOverlay(OverlayOfFirst(pools, n - 1), pools[n])
              ELSE OverlayOfFirst(pools, n - 1)
        BY <3>2, <4>1, OverlayOfNext
      <4>4. QED BY <3>2, <4>2, <4>3
    <3>3. QED BY <3>1, <3>2
  <2>2. DOMAIN by = 0 .. Len(pools) /\ by = [n \in 0 .. Len(pools) |-> by[n]] OBVIOUS
  <2> HIDE DEF by
  <2>3. QED BY <2>1, <2>2 DEF Stepwise
<1>3. Stepwise(pools, after) BY <1>2
<1>4. Overlay(pools) = after[Len(pools)] BY DEF Overlay, Stepwise
<1> HIDE DEF after
<1>5. Overlay(pools) = OverlayOfFirst(pools, Len(pools)) BY <1>1, <1>3, <1>4, LoopOverPools
<1>6. Range(pools) = {pools[i] : i \in 1 .. Len(pools)} BY <1>1 DEF Range
<1>7. QED BY <1>5, <1>6 DEF OverlayOfFirst

-----------------------------------------------------------------------------
(* A list and its reverse.                                                    *)

LEMMA ReverseIsListing ==
  ASSUME NEW s, s \in Seq(Range(s))
  PROVE  /\ DOMAIN s = 1 .. Len(s) /\ DOMAIN Reverse(s) = 1 .. Len(s) /\ Len(s) \in Nat
         /\ \A i \in 1 .. Len(s) : Len(s) - i + 1 \in 1 .. Len(s) /\ Reverse(s)[i] = s[Len(s) - i + 1]
         /\ Range(Reverse(s)) = Range(s)
         /\ Reverse(s) \in Seq(Range(Reverse(s)))
         /\ s = << >> <=> Reverse(s) = << >>
<1>1. DOMAIN s = 1 .. Len(s) /\ Len(s) \in Nat OBVIOUS
<1>2. /\ DOMAIN Reverse(s) = 1 .. Len(s)
      /\ \A i \in 1 .. Len(s) : Len(s) - i + 1 \in 1 .. Len(s) /\ Reverse(s)[i] = s[Len(s) - i + 1]
  BY <1>1 DEF Reverse
<1>3. Range(Reverse(s)) = {Reverse(s)[i] : i \in 1 .. Len(s)} /\ Range(s) = {s[i] : i \in 1 .. Len(s)}
  BY <1>1, <1>2 DEF Range
<1>4. \A i \in 1 .. Len(s) : \E j \in 1 .. Len(s) : s[i] = Reverse(s)[j]
  <2> SUFFICES ASSUME NEW i \in 1 .. Len(s) PROVE \E j \in 1 .. Len(s) : s[i] = Reverse(s)[j] OBVIOUS
  <2>1. Len(s) - i + 1 \in 1 .. Len(s) /\ Len(s) - (Len(s) - i + 1) + 1 = i BY <1>1
  <2>2. QED BY <1>2, <2>1
<1>5. Range(Reverse(s)) = Range(s) BY <1>2, <1>3, <1>4
<1>6. Reverse(s) \in Seq(Range(s)) BY <1>1, <1>2, <1>3 DEF Reverse
<1>7. s = << >> <=> Reverse(s) = << >>
  <2>1. s = << >> <=> Len(s) = 0 OBVIOUS
  <2>2. Len(Reverse(s)) = Len(s) BY <1>1 DEF Reverse
  <2>3. Reverse(s) = << >> <=> Len(Reverse(s)) = 0 BY <1>6
  <2>4. QED BY <2>1, <2>2, <2>3
<1>8. QED BY <1>1, <1>2, <1>5, <1>6, <1>7

LEMMA KindnetInAnyOrder ==
  ASSUME NEW daemonSets, daemonSets \in Seq(Range(daemonSets)), NoTwins(daemonSets)
  PROVE  KindnetEnforces(Reverse(daemonSets)) <=> KindnetEnforces(daemonSets)
<1> DEFINE DatedOf(s) == {i \in DOMAIN s : s[i].name = "kindnet" /\ Dated(s[i]) # {}}
           Current(ds) == ds.tags[First(Dated(ds))] >= KindnetFirstEnforcing
           turned == Reverse(daemonSets)
<1>1. \A s : KindnetEnforces(s) <=> DatedOf(s) = {} \/ Current(s[First(DatedOf(s))]) BY DEF KindnetEnforces
<1>2. /\ DOMAIN daemonSets = 1 .. Len(daemonSets) /\ DOMAIN turned = 1 .. Len(daemonSets) /\ Len(daemonSets) \in Nat
      /\ Range(turned) = Range(daemonSets) /\ turned \in Seq(Range(turned))
  BY ReverseIsListing
<1>3. /\ Range(turned) = {turned[i] : i \in DOMAIN turned}
      /\ Range(daemonSets) = {daemonSets[i] : i \in DOMAIN daemonSets}
  BY DEF Range
<1> HIDE DEF turned
<1>4. DatedOf(turned) = {} <=> DatedOf(daemonSets) = {} BY <1>2, <1>3
<1>5. ASSUME NEW i \in DatedOf(daemonSets), NEW j \in DatedOf(turned) PROVE daemonSets[i] = turned[j]
  <2>1. PICK k \in DOMAIN daemonSets : turned[j] = daemonSets[k] BY <1>2, <1>3
  <2>2. daemonSets[k].name = daemonSets[i].name BY <2>1
  <2>3. QED BY <2>1, <2>2 DEF NoTwins
<1>6. DatedOf(daemonSets) \subseteq DOMAIN daemonSets /\ DatedOf(turned) \subseteq DOMAIN turned OBVIOUS
<1> HIDE DEF DatedOf, Current
<1>7. DatedOf(daemonSets) # {} => First(DatedOf(daemonSets)) \in DatedOf(daemonSets)
  BY <1>6, FirstOfSequence
<1>8. DatedOf(turned) # {} => First(DatedOf(turned)) \in DatedOf(turned)
  BY <1>2, <1>6, FirstOfSequence
<1>9. CASE DatedOf(daemonSets) = {} BY <1>1, <1>4, <1>9 DEF turned
<1>10. CASE DatedOf(daemonSets) # {}
  <2>1. daemonSets[First(DatedOf(daemonSets))] = turned[First(DatedOf(turned))]
    BY <1>4, <1>5, <1>7, <1>8, <1>10
  <2>2. QED BY <1>1, <1>4, <1>10, <2>1 DEF turned
<1>11. QED BY <1>9, <1>10

LEMMA CNIInAnyOrder ==
  ASSUME NEW daemonSets, daemonSets \in Seq(Range(daemonSets)), NoTwins(daemonSets),
         NEW nodes, nodes \in Seq(Range(nodes))
  PROVE  Classify(Reverse(daemonSets), Reverse(nodes)) = Classify(daemonSets, nodes)
<1> DEFINE turned == Reverse(daemonSets)
<1>1. Range(turned) = Range(daemonSets) /\ Range(Reverse(nodes)) = Range(nodes) BY ReverseIsListing
<1>2. KindnetEnforces(turned) <=> KindnetEnforces(daemonSets) BY KindnetInAnyOrder
<1>3. KindnetEnforces(turned) = KindnetEnforces(daemonSets)
  BY <1>2 DEF KindnetEnforces
<1> HIDE DEF turned
<1>4. FirewallOff(turned) = FirewallOff(daemonSets) BY <1>1 DEF FirewallOff
<1>5. ClassifyCNI(turned) = ClassifyCNI(daemonSets) BY <1>1, <1>3, <1>4 DEF ClassifyCNI
<1>6. ClassifyEmbeddedCNI(Reverse(nodes)) = ClassifyEmbeddedCNI(nodes) BY <1>1 DEF ClassifyEmbeddedCNI
<1>7. QED BY <1>5, <1>6 DEF Classify, turned

OneBackend(nodes) == \A m, n \in Range(nodes) : "" \in {m.backend, n.backend} \/ m.backend = n.backend

LEMMA NodesInAnyOrder ==
  ASSUME NEW nodes, nodes \in Seq(Range(nodes)), OneBackend(nodes), NEW name
  PROVE  NodeNetwork(name, Reverse(nodes)) = NodeNetwork(name, nodes)
<1> DEFINE Told(s) == {i \in DOMAIN s : s[i].backend # ""}
           turned == Reverse(nodes)
<1>1. Range(turned) = Range(nodes) /\ turned \in Seq(Range(turned)) BY ReverseIsListing
<1> HIDE DEF turned
<1>2. Range(turned) = {turned[i] : i \in DOMAIN turned} /\ Range(nodes) = {nodes[i] : i \in DOMAIN nodes}
  BY DEF Range
<1>3. Told(turned) = {} <=> Told(nodes) = {}
  <2>1. Told(turned) = {} <=> \A n \in Range(turned) : n.backend = "" BY <1>2
  <2>2. Told(nodes) = {} <=> \A n \in Range(nodes) : n.backend = "" BY <1>2
  <2>3. QED BY <1>1, <2>1, <2>2
<1>4. \A i \in Told(nodes), j \in Told(turned) : nodes[i].backend = turned[j].backend
  BY <1>1, <1>2 DEF OneBackend
<1>5. Told(nodes) \subseteq DOMAIN nodes /\ Told(turned) \subseteq DOMAIN turned OBVIOUS
<1>6. \A s : NodeNetwork(name, s) =
        Network(UNION {n.podCIDRs : n \in Range(s)},
                IF name = "k3s" /\ Told(s) # {} THEN FlannelEncap(s[First(Told(s))].backend) ELSE "",
                IF UNION {n.podCIDRs : n \in Range(s)} = {} THEN "" ELSE "node-podcidr")
  BY DEF NodeNetwork
<1> HIDE DEF Told
<1>7. Told(nodes) # {} => nodes[First(Told(nodes))].backend = turned[First(Told(turned))].backend
  <2>1. Told(nodes) # {} => First(Told(nodes)) \in Told(nodes) BY <1>5, FirstOfSequence
  <2>2. Told(turned) # {} => First(Told(turned)) \in Told(turned) BY <1>1, <1>5, FirstOfSequence
  <2>3. QED BY <1>3, <1>4, <2>1, <2>2
<1>8. QED BY <1>1, <1>3, <1>6, <1>7 DEF turned

\* IPPools in another order say the same.
Turned(answer) == IF answer = Absent THEN answer ELSE [pools |-> Reverse(answer.pools)]

LEMMA PoolsInAnyOrder ==
  ASSUME NEW answer, answer # Absent, answer.pools \in Seq(Range(answer.pools)),
         NEW name \in {"calico", "canal"}
  PROVE  Parsed(name, Turned(answer)) = Parsed(name, answer)
<1> DEFINE pools == answer.pools
<1>1. /\ Range(Reverse(pools)) = Range(pools) /\ Reverse(pools) \in Seq(Range(Reverse(pools)))
      /\ pools = << >> <=> Reverse(pools) = << >>
  BY ReverseIsListing
<1>2. Overlay(Reverse(pools)) = Overlay(pools) BY <1>1, OverlayIs
<1>3. Turned(answer).pools = Reverse(pools) BY DEF Turned
<1> HIDE DEF pools
<1>4. QED BY <1>1, <1>2, <1>3 DEF Parsed, pools

LEMMA AnswersInAnyOrder ==
  ASSUME NEW answer
  PROVE  Turned(answer) = Absent <=> answer = Absent
<1>1. ASSUME answer # Absent PROVE Turned(answer) # Absent
  <2>1. DOMAIN Turned(answer) = {"pools"} BY <1>1 DEF Turned
  <2>2. DOMAIN Absent = {"absent"} BY DEF Absent
  <2>3. QED BY <2>1, <2>2
<1>2. QED BY <1>1 DEF Turned

\* The order in which the API lists DaemonSets, pools and nodes does not decide
\* about the CNI and its network, for any cluster whose DaemonSets have names of
\* their own and whose nodes record one backend (classifyCNI, detectPodNetwork).
THEOREM OrderSafe == Spec => []OrderDoesNotMatter
<1> DEFINE turned == [world EXCEPT !["daemonSets"] = Reverse(@), !["nodes"] = Reverse(@), !["ippools"] =
                        IF @ = Absent THEN @ ELSE [pools |-> Reverse(@.pools)]]
<1>1. ASSUME IInv, NoTwins(world["daemonSets"]), OneBackend(world["nodes"])
      PROVE  CNIOf(turned) = CNIOf(world)
  <2>1. DOMAIN world = Parts /\ \A part \in Parts : Possible(part, world[part])
    BY <1>1 DEF IInv, Moments, Sound
  <2>2. {"daemonSets", "nodes", "ippools"} \subseteq Parts BY ListedParts DEF Parts, Places
  <2>3. /\ turned["daemonSets"] = Reverse(world["daemonSets"])
        /\ turned["nodes"] = Reverse(world["nodes"])
        /\ turned["ippools"] = Turned(world["ippools"])
        /\ \A place \in Places : place # "ippools" => turned[place] = world[place]
    <3>1. \A place \in Places : place \in Parts /\ place \notin {"daemonSets", "nodes"} BY DEF Parts, Places
    <3>2. QED BY <2>1, <2>2, <3>1 DEF Turned
  <2> HIDE DEF turned
  <2>4. /\ world["daemonSets"] \in Seq(Range(world["daemonSets"]))
        /\ world["nodes"] \in Seq(Range(world["nodes"]))
        /\ world["ippools"] # Absent => world["ippools"].pools \in Seq(Range(world["ippools"].pools))
    BY <2>1, <2>2 DEF Possible
  <2>5. Classify(turned["daemonSets"], turned["nodes"]) = Classify(world["daemonSets"], world["nodes"])
    BY <1>1, <2>3, <2>4, CNIInAnyOrder
  <2>6. ASSUME NEW name PROVE NetworkOf(name, turned, turned["nodes"]) = NetworkOf(name, world, world["nodes"])
    <3> DEFINE at == PlacesOf(name)
               Answering(w) == {i \in DOMAIN at : w[at[i]] # Absent}
               Says(w) == IF Answering(w) = {} THEN {} ELSE Parsed(name, w[at[First(Answering(w))]])
    <3>1. \A w, nodes : NetworkOf(name, w, nodes) =
             IF Says(w) = {} THEN NodeNetwork(name, nodes) ELSE CHOOSE n \in Says(w) : TRUE
      BY DEF NetworkOf
    <3>2. \A i \in DOMAIN at : at[i] \in Places BY PlacesAreDistinct
    <3>3. Answering(turned) = Answering(world)
      BY <2>3, <3>2, AnswersInAnyOrder
    <3>4. ASSUME Answering(world) # {} PROVE Says(turned) = Says(world)
      <4> DEFINE first == First(Answering(world))
      <4>1. first \in DOMAIN at /\ world[at[first]] # Absent
        <5>1. Answering(world) \in SUBSET Nat
          <6>1. DOMAIN at = 1 .. Len(at) /\ Len(at) \in 0 .. 2 BY PlacesAreDistinct
          <6>2. QED BY <6>1
        <5> HIDE DEF Answering
        <5>2. first \in Answering(world) BY <3>4, <5>1, FirstIsOne
        <5>3. QED BY <5>2 DEF Answering
      <4>2. Says(turned) = Parsed(name, turned[at[first]]) /\ Says(world) = Parsed(name, world[at[first]])
        BY <3>3, <3>4
      <4> HIDE DEF first, Says, Answering
      <4>3. CASE at[first] = "ippools"
        <5>1. name \in {"calico", "canal"} BY <4>1, <4>3 DEF PlacesOf
        <5>2. QED BY <2>3, <2>4, <4>1, <4>2, <4>3, <5>1, PoolsInAnyOrder
      <4>4. CASE at[first] # "ippools" BY <2>3, <3>2, <4>1, <4>2, <4>4
      <4>5. QED BY <4>3, <4>4
    <3>5. Says(turned) = Says(world) BY <3>3, <3>4
    <3> HIDE DEF Says
    <3>6. NodeNetwork(name, turned["nodes"]) = NodeNetwork(name, world["nodes"])
      BY <1>1, <2>3, <2>4, NodesInAnyOrder
    <3>7. QED BY <3>1, <3>5, <3>6
  <2>7. QED BY <2>5, <2>6 DEF CNIOf
<1>2. IInv => OrderDoesNotMatter BY <1>1 DEF OrderDoesNotMatter, OneBackend
<1>3. QED BY <1>2, Invariant, PTL
=============================================================================
