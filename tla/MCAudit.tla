------------------------------ MODULE MCAudit ------------------------------
(* One Service over the pods a and b, a hostNetwork pod h of the same labels, *)
(* a hostNetwork agent of the cluster's own; two policies of one rule each,   *)
(* every rule from a catalogue that has each kind of peer.  v4 addresses: two *)
(* nodes, two pods' pools, one external client; one v6 address.               *)
EXTENDS Audit

V4 == {"n1", "n2", "p", "q", "x"}
V6 == {"y"}
Nodes == {"n1", "n2"}
Pods == {"p", "q"}

MCFamilies == {V4, V6}
MCCIDRs == {V4, V6, Nodes, Pods, {"n1"}, {"p"}, {"q"}, {"x"}}
MCSystemNamespaces == {"kube-system"}

Block(cidr, except) == [kind |-> "block", block |-> [cidr |-> cidr, except |-> except]]
AllPods == [kind |-> "allPods"]
SomePods == [kind |-> "somePods"]

Peers == {AllPods, SomePods, Block({}, {}), Block(V4, {}), Block(V6, {}), Block(V4, {Pods}),
          Block(V4, {Pods, Nodes}), Block(V4, {Pods, {"n1"}}), Block(Nodes, {}),
          Block(Nodes, {{"n1"}}), Block({"p"}, {}), Block(Pods, {}), Block({"x"}, {})}

Num(n) == [tcp |-> TRUE, name |-> "", nums |-> {n}]
Name(n) == [tcp |-> TRUE, name |-> n, nums |-> {}]
UDP == [tcp |-> FALSE, name |-> "", nums |-> {80}]

Rules(ports) == {[ports |-> p, from |-> f] : p \in ports, f \in {<<>>} \union {<<q>> : q \in Peers}}
Everything == {"a", "b", "h", "k"}
Policy(ns, types, selects, rules) ==
    [ns |-> ns, types |-> types, selects |-> selects, rules |-> rules]

Upper == {Policy("app", t[1], t[2], <<r>>) :
            t \in {<<{"Ingress"}, Everything>>, <<{}, {"b"}>>, <<{"Egress"}, Everything>>},
            r \in Rules({{}, {Num(80)}})}
Lower == {Policy("app", {"Ingress", "Egress"}, Everything, <<r>>) :
            r \in Rules({{}, {Name("http")}, {UDP, Num(81)}})}
         \union {Policy("app", {"Ingress"}, Everything, <<>>)}
Several == {Policy("app", {"Ingress"}, Everything, <<[ports |-> {}, from |-> f], [ports |-> {Num(81)}, from |-> <<>>]>>) :
              f \in {<<Block({"p"}, {}), Block({"q"}, {}), Block(Nodes, {})>>,
                     <<AllPods, Block(V4, {Pods})>>, <<Block(V4, {Pods}), Block(Nodes, {})>>}}

MCPolicies == {<<>>}
    \union {<<u, l>> : u \in Upper, l \in Lower}
    \union {<<l, s>> : l \in {Policy("app", {"Ingress"}, Everything, <<>>)}, s \in Several}
    \union {<<s, Policy("kube-system", {}, Everything, <<>>)>> : s \in Several}

Port(num, name, tcp, hostPort) == [num |-> num, name |-> name, tcp |-> tcp, hostPort |-> hostPort]
Pod(id, ns, hostNetwork, workload, ports) ==
    [id |-> id, ns |-> ns, hostNetwork |-> hostNetwork, workload |-> workload, ports |-> ports]
Service(port, target, nodePort) ==
    [ns |-> "app", name |-> "gw", external |-> TRUE, selects |-> {"a", "b", "h"}, tcp |-> TRUE,
     port |-> port, target |-> target, nodePort |-> nodePort]

Agent == Pod("k", "kube-system", TRUE, "agent", <<Port(80, "http", TRUE, 0)>>)

\* The pods and Services of a snapshot.
Named == [pods |-> <<Pod("a", "app", FALSE, "gw", <<Port(80, "http", TRUE, 0)>>),
                     Pod("b", "app", FALSE, "gw", <<Port(81, "http", TRUE, 0)>>),
                     Pod("h", "app", TRUE, "host", <<Port(80, "http", TRUE, 0), Port(81, "", TRUE, 0)>>), Agent>>,
          services |-> <<Service(80, [name |-> "http", num |-> 0], 30080)>>]
Numbered == [pods |-> <<Pod("a", "app", FALSE, "gw", <<Port(80, "http", TRUE, 8080)>>),
                        Pod("b", "app", FALSE, "bare", <<>>),
                        Pod("h", "app", TRUE, "host", <<>>)>>,
             services |-> <<Service(80, [name |-> "", num |-> 81], 30081),
                            Service(80, [name |-> "", num |-> 80], 0)>>]
\* One port over UDP and TCP, as of a DNS server: the UDP port is listed first.
Twins == [pods |-> <<Pod("a", "app", FALSE, "gw", <<Port(80, "http-udp", FALSE, 0), Port(80, "http", TRUE, 0)>>)>>,
          services |-> <<Service(80, [name |-> "", num |-> 80], 30080)>>]

CNI(name, enforces, podCIDRs) == [name |-> name, enforces |-> enforces, podCIDRs |-> podCIDRs]
CNIs == {CNI("calico", TRUE, {Pods}), CNI("calico", TRUE, {{"p"}, {"q"}}), CNI("calico", TRUE, {}),
         CNI("unknown", FALSE, {Pods}), CNI("flannel", FALSE, {Pods}), CNI("cilium", TRUE, {Pods})}

Snapshot(w, policies, cni) ==
    [pods |-> w.pods, services |-> w.services, policies |-> policies, nodes |-> Nodes, cni |-> cni]

MCSnapshots ==
    {Snapshot(w, p, c) : w \in {Named, Numbered}, p \in MCPolicies, c \in CNIs}
    \union {Snapshot(Twins, p, CNI("calico", TRUE, {Pods})) : p \in MCPolicies}
=============================================================================
