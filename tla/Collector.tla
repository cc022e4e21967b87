------------------------------ MODULE Collector ------------------------------
(* internal/collector: Collect lists the objects of the cluster kind by kind, *)
(* tells the CNI by its DaemonSets and asks it for the pods' CIDRs, while the *)
(* cluster goes on changing.                                                  *)
(*                                                                            *)
(* A world maps each Part of the cluster to its value.  The DaemonSets are a  *)
(* sequence of [name, tags, firewallOff]: the dates in the image tags, 0 for  *)
(* none.  The nodes are a sequence of [k3s, disables, backend, podCIDRs], the *)
(* IPPools [pools], a sequence of [disabled, cidr, ipip, vxlan].  flannel's   *)
(* ConfigMap is [network, network6, backend], "" for a field that is missing, *)
(* cilium's [cidrs, native, geneve, wireguard].  Of the other objects only    *)
(* the version counts.                                                        *)
EXTENDS Naturals, FiniteSets, SequencesExt

CONSTANTS
    Worlds,       \* the clusters that Collect may find
    Values,       \* for each part the values it may change to
    MaxChanges    \* how often the cluster changes while Collect runs

ASSUME ChangesAssumption == MaxChanges \in Nat

\* What Collect lists, in this order, and where it may look for CIDRs.
Lists == <<"pods", "services", "policies", "namespaces", "nodes", "daemonSets">>
Places == {"ippools", "kube-flannel/flannel", "kube-system/flannel",
           "kube-system/cilium", "cilium/cilium"}
Parts == Range(Lists) \union Places
Absent == [absent |-> TRUE]

\* A value that a part may have: what the API lists is a sequence.
Possible(part, v) ==
    /\ part \in {"nodes", "daemonSets"} => v \in Seq(Range(v))
    /\ part = "daemonSets" => \A ds \in Range(v) : ds.tags \in Seq(Nat)
    /\ part = "ippools" /\ v # Absent => v.pools \in Seq(Range(v.pools))

ASSUME WorldsAssumption ==
    /\ \A w \in Worlds : DOMAIN w = Parts /\ \A part \in Parts : Possible(part, w[part])
    /\ \A part \in Parts : \A v \in Values[part] : Possible(part, v)

VARIABLES
    pc,      \* "list", "network", "done" or "failed"
    listed,  \* how many of Lists were read
    asked,   \* how many places of the CNI were asked in vain
    read,    \* what was read, by part; the snapshot keeps that of Lists
    cni,     \* [name, enforces]
    net,     \* [podCIDRs, encap, source]
    world,   \* the cluster
    past,    \* history: the worlds since Collect began
    denied   \* history: some place could not be read

vars == <<pc, listed, asked, read, cni, net, world, past, denied>>

-----------------------------------------------------------------------------
(* The CNI.                                                                   *)

Rule(dsNames, name, enforces) == [dsNames |-> dsNames, name |-> name, enforces |-> enforces]

\* Mutant of CniRules: flannel comes first.
CniRulesFlannelFirst ==
    <<Rule({"kube-flannel-ds", "kube-flannel"}, "flannel", FALSE),
      Rule({"cilium"}, "cilium", TRUE), Rule({"calico-node"}, "calico", TRUE),
      Rule({"canal"}, "canal", TRUE), Rule({"kindnet"}, "kindnet", TRUE),
      Rule({"antrea-agent"}, "antrea", TRUE), Rule({"kube-router"}, "kube-router", TRUE)>>

CniRules ==
    <<Rule({"cilium"}, "cilium", TRUE), Rule({"calico-node"}, "calico", TRUE),
      Rule({"canal"}, "canal", TRUE), Rule({"kindnet"}, "kindnet", TRUE),
      Rule({"antrea-agent"}, "antrea", TRUE), Rule({"kube-router"}, "kube-router", TRUE),
      Rule({"kube-flannel-ds", "kube-flannel"}, "flannel", FALSE)>>

KindnetFirstEnforcing == 20240813

\* The first of some positions.
First(S) == CHOOSE i \in S : \A j \in S : i <= j

\* The containers of a DaemonSet whose image tag has a date.
Dated(ds) == {k \in DOMAIN ds.tags : ds.tags[k] # 0}

\* The first image tag with a date decides; without one kindnet is current.
KindnetEnforces(daemonSets) ==
    LET dated == {i \in DOMAIN daemonSets : daemonSets[i].name = "kindnet" /\ Dated(daemonSets[i]) # {}}
        ds == daemonSets[First(dated)]
    IN  dated = {} \/ ds.tags[First(Dated(ds))] >= KindnetFirstEnforcing

FirewallOff(daemonSets) == \E ds \in Range(daemonSets) : ds.name = "kube-router" /\ ds.firewallOff

Unknown == [name |-> "unknown", enforces |-> FALSE]

ClassifyCNI(daemonSets) ==
    LET hits == {i \in DOMAIN CniRules : \E ds \in Range(daemonSets) : ds.name \in CniRules[i].dsNames}
        rule == CniRules[First(hits)]
    IN  IF hits = {} THEN Unknown
        ELSE [name |-> rule.name,
              enforces |-> CASE rule.name = "kindnet" -> KindnetEnforces(daemonSets)
                             [] rule.name = "kube-router" -> ~FirewallOff(daemonSets)
                             [] OTHER -> rule.enforces]

ClassifyEmbeddedCNI(nodes) ==
    LET k3s == {n \in Range(nodes) : n.k3s}
    IN  IF k3s = {} THEN Unknown
        ELSE [name |-> "k3s", enforces |-> \A n \in k3s : ~n.disables]

Classify(daemonSets, nodes) ==
    LET known == ClassifyCNI(daemonSets)
    IN  IF known.name = "unknown" THEN ClassifyEmbeddedCNI(nodes) ELSE known

-----------------------------------------------------------------------------
(* The pod network.                                                           *)

PlacesOf(name) ==
    CASE name \in {"calico", "canal"} -> <<"ippools">>
      [] name = "flannel" -> <<"kube-flannel/flannel", "kube-system/flannel">>
      [] name = "cilium" -> <<"kube-system/cilium", "cilium/cilium">>
      [] OTHER -> <<>>

Enabled(p) == ~p.disabled /\ p.cidr # ""

\* Mutant of PoolOverlay: a later VXLAN pool overrides an IPIP one.
PoolOverlayOfLast(encap, p) ==
    IF p.ipip THEN "ipip" ELSE IF p.vxlan THEN "vxlan" ELSE encap

\* The overlay in use after one more pool.
PoolOverlay(encap, p) ==
    IF p.ipip THEN "ipip" ELSE IF p.vxlan /\ encap # "ipip" THEN "vxlan" ELSE encap

\* The overlay in use after all enabled pools, one by one.
Overlay(pools) ==
    LET after[n \in 0 .. Len(pools)] ==
            IF n = 0 THEN "none"
            ELSE IF Enabled(pools[n]) THEN PoolOverlay(after[n - 1], pools[n]) ELSE after[n - 1]
    IN  after[Len(pools)]

FlannelEncap(backend) ==
    CASE backend = "host-gw" -> "none"
      [] backend = "ipip" -> "ipip"
      [] backend \in {"wireguard", "wireguard-native"} -> "wireguard"
      [] OTHER -> "vxlan"

CiliumEncap(config) ==
    IF config.wireguard THEN "wireguard"
    ELSE IF config.native THEN "none" ELSE IF config.geneve THEN "geneve" ELSE "vxlan"

Network(podCIDRs, encap, source) == [podCIDRs |-> podCIDRs, encap |-> encap, source |-> source]

\* What the answer of a place says: {} if it is of no use.
Parsed(name, answer) ==
    CASE name \in {"calico", "canal"} ->
            IF answer.pools = <<>> THEN {}
            ELSE {Network({p.cidr : p \in {q \in Range(answer.pools) : Enabled(q)}},
                          Overlay(answer.pools), "calico-ippool")}
      [] name = "flannel" ->
            IF answer.network = "" THEN {}
            ELSE {Network({answer.network, answer.network6} \ {""}, FlannelEncap(answer.backend), "flannel-config")}
      [] name = "cilium" ->
            IF answer.cidrs = {} THEN {}
            ELSE {Network(answer.cidrs, CiliumEncap(answer), "cilium-config")}

\* Node.spec.podCIDR; of k3s also the backend that the first such node records.
NodeNetwork(name, nodes) ==
    LET podCIDRs == UNION {n.podCIDRs : n \in Range(nodes)}
        told == {i \in DOMAIN nodes : nodes[i].backend # ""}
    IN  Network(podCIDRs, IF name = "k3s" /\ told # {} THEN FlannelEncap(nodes[First(told)].backend) ELSE "",
                IF podCIDRs = {} THEN "" ELSE "node-podcidr")

-----------------------------------------------------------------------------
Init ==
    /\ pc = "list" /\ listed = 0 /\ asked = 0
    /\ world \in Worlds
    /\ past = {world}
    /\ read = <<>> /\ denied = FALSE
    /\ cni = Unknown /\ net = Network({}, "", "")

Reads(part) == read' = [p \in DOMAIN read \union {part} |-> IF p = part THEN world[p] ELSE read[p]]

\* Somebody changes the cluster: Collect takes no lock and names no version.
Change ==
    /\ pc \in {"list", "network"}
    /\ \E part \in Parts : \E v \in Values[part] :
          /\ v # world[part]
          /\ world' = [world EXCEPT ![part] = v]
    /\ world' \in past \/ Cardinality(past) <= MaxChanges
    /\ past' = past \union {world'}
    /\ UNCHANGED <<pc, listed, asked, read, cni, net, denied>>

\* One of the List calls before the DaemonSets.
List ==
    /\ pc = "list" /\ listed + 1 < Len(Lists)
    /\ listed' = listed + 1
    /\ Reads(Lists[listed'])
    /\ UNCHANGED <<pc, asked, cni, net, world, past, denied>>

\* A List call fails and Collect returns no snapshot.
ListFails ==
    /\ pc = "list"
    /\ pc' = "failed"
    /\ UNCHANGED <<listed, asked, read, cni, net, world, past, denied>>

\* Mutant of DetectCNI: the nodes are asked for again.
DetectCNIAnew ==
    /\ pc = "list" /\ listed + 1 = Len(Lists)
    /\ listed' = listed + 1
    /\ Reads("daemonSets")
    /\ cni' = Classify(world["daemonSets"], world["nodes"])
    /\ pc' = "network"
    /\ UNCHANGED <<asked, net, world, past, denied>>

\* detectCNI, then classifyEmbeddedCNI on the nodes that were listed.
DetectCNI ==
    /\ pc = "list" /\ listed + 1 = Len(Lists)
    /\ listed' = listed + 1
    /\ Reads("daemonSets")
    /\ cni' = Classify(world["daemonSets"], read["nodes"])
    /\ pc' = "network"
    /\ UNCHANGED <<asked, net, world, past, denied>>

\* The place that is asked next.
Place == PlacesOf(cni.name)[asked + 1]

\* A place that has an answer: it is the last one asked.
Ask ==
    /\ pc = "network" /\ asked < Len(PlacesOf(cni.name)) /\ world[Place] # Absent
    /\ Reads(Place)
    /\ asked' = Len(PlacesOf(cni.name))
    /\ LET parsed == Parsed(cni.name, world[Place])
       IN  IF parsed = {} THEN UNCHANGED <<pc, net>> ELSE pc' = "done" /\ net' \in parsed
    /\ UNCHANGED <<listed, cni, world, past, denied>>

\* A place that has none, or that Collect may not read.
AskInVain ==
    /\ pc = "network" /\ asked < Len(PlacesOf(cni.name))
    /\ \/ world[Place] = Absent /\ Reads(Place) /\ UNCHANGED denied
       \/ denied' = TRUE /\ UNCHANGED read
    /\ asked' = asked + 1
    /\ UNCHANGED <<pc, listed, cni, net, world, past>>

\* The nodes' own CIDRs are the last resort.
FallBack ==
    /\ pc = "network" /\ asked = Len(PlacesOf(cni.name))
    /\ net' = NodeNetwork(cni.name, read["nodes"])
    /\ pc' = "done"
    /\ UNCHANGED <<listed, asked, read, cni, world, past, denied>>

Next == Change \/ List \/ ListFails \/ DetectCNI \/ Ask \/ AskInVain \/ FallBack

Spec == Init /\ [][Next]_vars

-----------------------------------------------------------------------------
(* Properties *)

TypeOK ==
    /\ pc \in {"list", "network", "done", "failed"}
    /\ listed \in 0 .. Len(Lists) /\ asked \in 0 .. 2
    /\ DOMAIN read \intersect Range(Lists) = {Lists[i] : i \in 1 .. listed}
    /\ world \in past /\ Cardinality(past) <= MaxChanges + 1
    /\ pc \in {"network", "done"} <=> listed = Len(Lists)
    /\ net.source # "" => net.podCIDRs # {} \/ net.source = "calico-ippool"

\* What Collect would return of a cluster that stood still and could be read.
NetworkOf(name, w, nodes) ==
    LET places == PlacesOf(name)
        answering == {i \in DOMAIN places : w[places[i]] # Absent}
        parsed == IF answering = {} THEN {} ELSE Parsed(name, w[places[First(answering)]])
    IN  IF parsed = {} THEN NodeNetwork(name, nodes) ELSE CHOOSE n \in parsed : TRUE

CNIOf(w) ==
    LET known == Classify(w["daemonSets"], w["nodes"])
    IN  <<known, NetworkOf(known.name, w, w["nodes"])>>

\* The parts of the cluster that changed while Collect ran.
Moved == {part \in Parts : \E v, w \in past : v[part] # w[part]}

\* The snapshot is the cluster at one moment.
IsMoment == \E w \in past : <<cni, net>> = CNIOf(w) /\ \A part \in DOMAIN read : read[part] = w[part]

\* If a single part of the cluster changes while Collect runs, as often as it
\* may, the snapshot is still the cluster at one moment: nothing is read twice
\* (Collect, detectCNI and detectPodNetwork, k8s.go:71-127, podnet.go:20-55).
OneMoverIsAMoment ==
    pc = "done" /\ ~denied /\ (\A p, q \in Moved : p = q) => IsMoment

\* A DaemonSet that enforces NetworkPolicies.
Outdated(ds) == ds.name = "kindnet" /\ \E d \in Range(ds.tags) : d # 0 /\ d < KindnetFirstEnforcing
Enforcer(ds) ==
    \/ ds.name \in {"cilium", "calico-node", "canal", "antrea-agent"}
    \/ ds.name = "kindnet" /\ ~Outdated(ds)
    \/ ds.name = "kube-router" /\ ~ds.firewallOff

EnforcerIsThere ==
    \/ \E ds \in Range(read["daemonSets"]) : Enforcer(ds)
    \/ /\ cni.name = "k3s" /\ \A n \in Range(read["nodes"]) : n.k3s => ~n.disables

\* No two DaemonSets have one name.
NoTwins(daemonSets) ==
    \A i, j \in DOMAIN daemonSets : daemonSets[i].name = daemonSets[j].name => i = j

\* The images of a kindnet are of one age, since one decides for all; and no
\* outdated kindnet runs beside an enforcer: the rule that comes first decides,
\* so the snapshot would say that nothing enforces policies.
Settled(daemonSets) ==
    /\ NoTwins(daemonSets)
    /\ \A ds \in Range(daemonSets) : \A d, e \in Range(ds.tags) \ {0} :
          ds.name = "kindnet" /\ d < KindnetFirstEnforcing => e < KindnetFirstEnforcing
    /\ ~\E old, new \in Range(daemonSets) : Outdated(old) /\ Enforcer(new)

\* The snapshot says that policies are enforced just if some agent enforces
\* them, also in a half-finished migration (cniRules, k8s.go:129-149).
EnforcementIsKnown ==
    pc = "done" /\ Settled(read["daemonSets"]) => (cni.enforces <=> EnforcerIsThere)

\* The order in which the API lists DaemonSets, pools and nodes does not decide
\* about the CNI and its network.
OrderDoesNotMatter ==
    LET turned == [world EXCEPT !["daemonSets"] = Reverse(@), !["nodes"] = Reverse(@), !["ippools"] =
                      IF @ = Absent THEN @ ELSE [pools |-> Reverse(@.pools)]]
    IN  /\ NoTwins(world["daemonSets"])
        /\ \A m, n \in Range(world["nodes"]) : "" \in {m.backend, n.backend} \/ m.backend = n.backend
        => CNIOf(turned) = CNIOf(world)
=============================================================================
