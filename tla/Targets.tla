------------------------------- MODULE Targets -------------------------------
(* What the oracle measures of a snapshot: buildSources, buildTargets and     *)
(* applicable in hack/oracle/model.go.                                        *)
(*                                                                            *)
(* A snapshot is [pods, services, nodes].  A pod is [id, ns, name, running,   *)
(* hostNetwork, node, ip, app, ports], with the ports of Policies.  A Service *)
(* is [ns, name, app, clusterIP, local, ports]: app is the label it selects,  *)
(* "" for no selector, clusterIP "" or headless "None", local the policy that *)
(* external traffic stays on its node; a port is [tcp, port, target,          *)
(* nodePort].  A node stands for its InternalIP, and a pod of the host        *)
(* network has that as its ip.  An address is a pair of host and port.        *)
EXTENDS Naturals, Sequences, FiniteSets, SequencesExt

CONSTANTS
    SystemNamespaces,  \* as in model.go, not as in the detectors
    Outsider           \* the pod of the oracle's own that no policy selects

P == INSTANCE Policies WITH Families <- {}, CIDRs <- {}

-----------------------------------------------------------------------------
IsScenarioPod(p) == p.ns \notin SystemNamespaces /\ p.running

\* filterSnapshot: other scenarios and the oracle itself are left out.
FilterSnapshot(s, namespaces) ==
    LET Keep(x) == x.ns \in namespaces \union SystemNamespaces
    IN  [s EXCEPT !.pods = SelectSeq(@, Keep), !.services = SelectSeq(@, Keep)]

-----------------------------------------------------------------------------
(* Sources: [kind, pod, node, ip, injected].                                  *)

\* A source without a pod, a target without an owner, node or Service.
None == "none"
NoService == <<None, None>>

Source(kind, p, injected) ==
    [kind |-> kind, pod |-> p.id, node |-> p.node, ip |-> p.ip, injected |-> injected]

\* The agent of the DaemonSet on a node, which goes by the name of the node.
Agent(node) == [id |-> node, node |-> node, ip |-> node]

\* The host outside the cluster, whose address is left empty.
External == [id |-> None, node |-> None, ip |-> ""]

BuildSources(s) ==
    {Source(IF p.hostNetwork THEN "hostnetwork" ELSE "pod", p, TRUE) :
        p \in {q \in Range(s.pods) : IsScenarioPod(q)}}
    \union {Source("node", Agent(n), FALSE) : n \in Range(s.nodes)}
    \union {Source("outsider", Outsider, FALSE),
            Source("external", External, FALSE)}

\* Sources of the kinds that share a node's network namespace.
Nodeish(src) == src.kind \in {"node", "hostnetwork"}

-----------------------------------------------------------------------------
(* Targets: [kind, addr, owner, backends, service, port, node, local]; a      *)
(* backend is [pod, port].                                                    *)

PodTarget(p, port) ==
    [kind |-> IF p.hostNetwork THEN "hostnetwork" ELSE "pod-ip", addr |-> <<p.ip, port>>,
     owner |-> p.id, backends |-> {[pod |-> p, port |-> port]},
     service |-> NoService, port |-> 0, node |-> None, local |-> FALSE]

HostPortTarget(p, c) ==
    [PodTarget(p, c.num) EXCEPT !.kind = "hostport", !.addr = <<p.node, c.hostPort>>]

ServiceTarget(svc, sp, backends) ==
    [kind |-> "clusterip", addr |-> <<svc.clusterIP, sp.port>>, owner |-> None,
     backends |-> backends, service |-> <<svc.ns, svc.name>>, port |-> sp.port,
     node |-> None, local |-> FALSE]

NodePortTarget(svc, sp, backends, node) ==
    [ServiceTarget(svc, sp, backends) EXCEPT !.kind = "nodeport",
        !.addr = <<node, sp.nodePort>>, !.node = node, !.local = svc.local]

\* Mutant of Backend: a pod counts that has ended or does not run yet.
BackendOfAnyPhase(svc, sp, p) ==
    IF p.ns = svc.ns /\ p.app = svc.app /\ p.ns \notin SystemNamespaces
    THEN {[pod |-> p, port |-> t.num] : t \in P!ResolveTargetPort(p, sp)} ELSE {}

\* A scenario pod as a backend of a Service port: one record, or none.
Backend(svc, sp, p) ==
    IF p.ns = svc.ns /\ p.app = svc.app /\ IsScenarioPod(p)
    THEN {[pod |-> p, port |-> t.num] : t \in P!ResolveTargetPort(p, sp)} ELSE {}

Backends(s, svc, sp) == UNION {Backend(svc, sp, p) : p \in Range(s.pods)}

ScenarioPods(s) == {p \in Range(s.pods) : IsScenarioPod(p)}
ScenarioServices(s) == {svc \in Range(s.services) : svc.ns \notin SystemNamespaces /\ svc.app # ""}

\* A call of add: the target, and when it is made.  Pods come first, then the
\* Services, each port by port, and each port's targets in order.
Call(at, t) == [at |-> at, target |-> t]

OfPort(i, j, p, c) ==
    {Call(<<1, i, j, 1>>, PodTarget(p, c.num))}
    \union {Call(<<1, i, j, 2>>, HostPortTarget(p, d)) : d \in {e \in {c} : e.hostPort > 0 /\ ~p.hostNetwork}}

OfPod(i, p) == UNION {OfPort(i, j, p, p.ports[j]) : j \in {k \in DOMAIN p.ports : p.ports[k].tcp}}

\* Pods may not declare the port that a Service sends to them.
OfServicePort(s, i, j, svc, sp) ==
    LET last == Len(s.pods)
    IN  (UNION {{Call(<<2, i, j, k>>, PodTarget(b.pod, b.port)) : b \in Backend(svc, sp, s.pods[k])} :
                    k \in DOMAIN s.pods})
        \union {Call(<<2, i, j, last + 1>>, ServiceTarget(svc, sp, Backends(s, svc, sp))) :
                    ip \in {svc.clusterIP} \ {"", "None"}}
        \union {Call(<<2, i, j, last + 1 + k>>, NodePortTarget(svc, sp, Backends(s, svc, sp), s.nodes[k])) :
                    k \in {n \in DOMAIN s.nodes : sp.nodePort > 0}}

OfService(s, i, svc) ==
    UNION {OfServicePort(s, i, j, svc, svc.ports[j]) : j \in {k \in DOMAIN svc.ports : svc.ports[k].tcp}}

Calls(s) ==
    (UNION {OfPod(i, s.pods[i]) : i \in {k \in DOMAIN s.pods : IsScenarioPod(s.pods[k])}})
    \union UNION {OfService(s, i, s.services[i]) :
                      i \in {k \in DOMAIN s.services : s.services[k] \in ScenarioServices(s)}}

Before(c, d) ==
    \E n \in 1 .. 4 : c.at[n] < d.at[n] /\ \A m \in 1 .. n - 1 : c.at[m] = d.at[m]

\* add: an address is a target once, as what it was first seen to be.
First(c, calls) == \A d \in calls : d.target.addr = c.target.addr => ~Before(d, c)

BuildTargets(s) ==
    LET calls == Calls(s) IN {c.target : c \in {d \in calls : First(d, calls)}}

IsService(t) == t.kind \in {"clusterip", "nodeport"}

\* How many backends of the target run on a node.
BackendsOn(t, node) == {b \in t.backends : b.pod.node = node}

\* Not to oneself, and from outside not to addresses inside the cluster.
Applicable(src, t) ==
    IF src.kind = "external" THEN t.kind \in {"nodeport", "hostport", "hostnetwork"}
    ELSE src.pod # t.owner /\ \A b \in t.backends : b.pod.id # src.pod

-----------------------------------------------------------------------------
(* What the API says is there to be reached, as [addr, behind]: behind are    *)
(* the pods and ports that a connection may end at.                           *)

TCPPorts(p) == {c \in Range(p.ports) : c.tcp}

TargetNumbers(sp, p) ==
    IF sp.target.name = "" THEN {IF sp.target.num = 0 THEN sp.port ELSE sp.target.num}
    ELSE {c.num : c \in {d \in TCPPorts(p) : d.name = sp.target.name}}

Selected(s, svc) == {p \in ScenarioPods(s) : p.ns = svc.ns /\ p.app = svc.app}
TCPServicePorts(svc) == {sp \in Range(svc.ports) : sp.tcp}

Behind(s, svc, sp) ==
    UNION {{<<p.id, n>> : n \in TargetNumbers(sp, p)} : p \in Selected(s, svc)}

Door(addr, behind) == [addr |-> addr, behind |-> behind]

PodDoors(p) ==
    {Door(<<p.ip, c.num>>, {<<p.id, c.num>>}) : c \in TCPPorts(p)}
    \union {Door(<<p.node, c.hostPort>>, {<<p.id, c.num>>}) :
               c \in {d \in TCPPorts(p) : d.hostPort > 0 /\ ~p.hostNetwork}}

ServiceDoors(s, svc, sp) ==
    (UNION {{Door(<<p.ip, n>>, {<<p.id, n>>}) : n \in TargetNumbers(sp, p)} : p \in Selected(s, svc)})
    \union {Door(<<host, sp.port>>, Behind(s, svc, sp)) : host \in {svc.clusterIP} \ {"", "None"}}
    \union {Door(<<n, sp.nodePort>>, Behind(s, svc, sp)) :
               n \in {m \in Range(s.nodes) : sp.nodePort > 0}}

Doors(s) ==
    (UNION {PodDoors(p) : p \in ScenarioPods(s)})
    \union UNION {UNION {ServiceDoors(s, svc, sp) : sp \in TCPServicePorts(svc)} :
                      svc \in ScenarioServices(s)}

\* The scheduler and the API server keep an address to one purpose.
OnePurpose(s) == \A d, e \in Doors(s) : d.addr = e.addr => d = e

\* A port's name is its own, and the Services that use it speak its protocol.
OwnNames(s) ==
    /\ \A p \in Range(s.pods) : \A i, j \in DOMAIN p.ports :
          i # j => p.ports[i].name # p.ports[j].name \/ p.ports[i].name = ""
    /\ \A svc \in Range(s.services) : \A sp \in TCPServicePorts(svc) : \A p \in Selected(s, svc) :
          \A c \in Range(p.ports) : sp.target.name # "" /\ sp.target.name = c.name => c.tcp
=============================================================================
