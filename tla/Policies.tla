------------------------------ MODULE Policies ------------------------------
(* Ingress NetworkPolicies, pods and Services as the detectors of             *)
(* internal/detector read them.  An address is an element of a finite set, a  *)
(* CIDR the set of addresses inside it, a selector the set of pods it matches *)
(* and a port name a string; "" is no name, {} a CIDR that does not parse.    *)
EXTENDS Naturals, Sequences, FiniteSets, Functions

CONSTANTS
    Families,         \* the whole address spaces: 0.0.0.0/0 and ::/0
    CIDRs,            \* the CIDRs that policies, pools and nodes use
    SystemNamespaces  \* the namespaces of the cluster's own plumbing

\* Two CIDRs are nested or disjoint, and a CIDR lies in one address family.
ASSUME CIDRsAssumption ==
    /\ \A p \in CIDRs : p # {} /\ \E f \in Families : p \subseteq f
    /\ \A p, q \in CIDRs \union Families :
          p \subseteq q \/ q \subseteq p \/ p \intersect q = {}

\* No two address families share an address.
ASSUME FamiliesAssumption ==
    \A f, g \in Families : f # {} /\ (f # g => f \intersect g = {})

-----------------------------------------------------------------------------
(* ipBlocks: [cidr, except], where except is a set of CIDRs.                  *)

\* The block starts from the whole address space: Bits() is 0.
InternetWide(b) == b.cidr \in Families

\* 0.0.0.0/0 or ::/0 with no excepts.
OpenToAll(b) == InternetWide(b) /\ b.except = {}

\* Some address is inside cidr and outside every except.
AdmitsAny(b, addrs) ==
    \E a \in addrs : a \in b.cidr /\ \A e \in b.except : a \notin e

\* Mutant of AdmitsAll: the excepts are not looked at.
AdmitsAllOfCIDR(b, nets) == \A n \in nets : n \subseteq b.cidr

\* Every net lies inside cidr and overlaps no except.
AdmitsAll(b, nets) ==
    \A n \in nets : n \subseteq b.cidr /\ \A e \in b.except : e \intersect n = {}

-----------------------------------------------------------------------------
(* Peers: [kind |-> "block", block |-> b], [kind |-> "allPods"] for an empty  *)
(* namespaceSelector with no or an empty podSelector, [kind |-> "somePods"]   *)
(* for any other selector.  A rule is [ports, from]: a set of ports and a     *)
(* sequence of peers.  A port is [tcp, name, nums]: a named one, or the       *)
(* numbers it stands for.  A policy is [ns, types, selects, rules].           *)

PortMatches(ports, port, name) ==
    \/ ports = {}
    \/ \E p \in ports :
          p.tcp /\ IF p.name # "" THEN name = p.name ELSE port \in p.nums

HasIngress(np) == np.types = {} \/ "Ingress" \in np.types

\* The pod's namespace's policies that select it for ingress.
IngressPoliciesFor(s, pod) ==
    {np \in Range(s.policies) :
        np.ns = pod.ns /\ HasIngress(np) /\ pod.id \in np.selects}

\* The rules of those policies that are about a port.
RulesFor(s, pod, port, name) ==
    {r \in UNION {Range(np.rules) : np \in IngressPoliciesFor(s, pod)} :
        PortMatches(r.ports, port, name)}

\* The container port a Service port leads to, and its name: the first port of
\* the pod with the target's name or number, else the number alone.  A target
\* of 0 stands for the Service port's own.  {} is a name the pod does not have.
ResolveTargetPort(pod, sp) ==
    LET fits == {i \in DOMAIN pod.ports :
                    IF sp.target.name # "" THEN pod.ports[i].name = sp.target.name
                    ELSE pod.ports[i].num = sp.target.num}
        number == IF sp.target.num = 0 THEN sp.port ELSE sp.target.num
    IN  IF fits # {} THEN
            LET c == pod.ports[CHOOSE i \in fits : \A j \in fits : i <= j]
            IN  {[num |-> c.num, name |-> c.name]}
        ELSE IF sp.target.name # "" THEN {}
        ELSE {[num |-> number, name |-> ""]}

-----------------------------------------------------------------------------
(* What a policy says by the Kubernetes API, and not by the detectors: the    *)
(* reference they are held against.  A source is an address, and whether a    *)
(* pod (one that no "somePods" selector matches) is behind it.                *)

PodAt(a) == [addr |-> a, pod |-> TRUE]
HostAt(a) == [addr |-> a, pod |-> FALSE]

PeerAdmits(peer, src) ==
    \/ peer.kind = "allPods" /\ src.pod
    \/ peer.kind = "block" /\ src.addr \in peer.block.cidr \ UNION peer.block.except

\* A rule opens the pod's TCP port; a name is looked up among its TCP ports.
RuleOpens(rule, pod, port) ==
    \/ rule.ports = {}
    \/ \E p \in rule.ports :
          /\ p.tcp
          /\ IF p.name = "" THEN port \in p.nums
             ELSE \E c \in Range(pod.ports) : c.tcp /\ c.name = p.name /\ c.num = port

Declared(s, pod, port, src) ==
    LET pols == {np \in Range(s.policies) :
                    np.ns = pod.ns /\ HasIngress(np) /\ pod.id \in np.selects}
    IN  \/ pols = {}
        \/ \E np \in pols : \E r \in Range(np.rules) :
              /\ RuleOpens(r, pod, port)
              /\ r.from = <<>> \/ \E peer \in Range(r.from) : PeerAdmits(peer, src)
=============================================================================
