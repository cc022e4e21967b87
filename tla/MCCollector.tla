---------------------------- MODULE MCCollector ----------------------------
(* Clusters of one or two CNIs in every listing order, of several pools and   *)
(* ConfigMaps; each part may change to another of a few values.               *)
EXTENDS Collector

DS(name, tags, firewallOff) == [name |-> name, tags |-> tags, firewallOff |-> firewallOff]
Agents == {DS("cilium", <<0>>, FALSE), DS("calico-node", <<0>>, FALSE), DS("antrea-agent", <<0>>, FALSE),
           DS("kindnet", <<0, 20240202>>, FALSE), DS("kindnet", <<20240813>>, FALSE),
           DS("kindnet", <<0, 20250101, 20240202>>, FALSE),
           DS("kube-router", <<0>>, TRUE), DS("kube-router", <<0>>, FALSE),
           DS("kube-flannel-ds", <<0>>, FALSE), DS("node-exporter", <<0>>, FALSE)}
DaemonSets == {<<>>} \union {<<a>> : a \in Agents} \union {<<a, b>> : a, b \in Agents}

Node(k3s, disables, backend, podCIDRs) ==
    [k3s |-> k3s, disables |-> disables, backend |-> backend, podCIDRs |-> podCIDRs]
Plain == <<Node(FALSE, FALSE, "", {"n1"}), Node(FALSE, FALSE, "", {"n2"})>>
K3s == <<Node(TRUE, FALSE, "", {"n1"}), Node(TRUE, FALSE, "host-gw", {})>>
K3sOff == <<Node(TRUE, FALSE, "vxlan", {"n1"}), Node(TRUE, TRUE, "", {"n2"})>>
Bare == <<Node(FALSE, FALSE, "", {})>>

Pool(disabled, cidr, ipip, vxlan) == [disabled |-> disabled, cidr |-> cidr, ipip |-> ipip, vxlan |-> vxlan]
PoolLists == {<<>>, <<Pool(FALSE, "p1", TRUE, FALSE), Pool(FALSE, "p2", FALSE, TRUE)>>,
              <<Pool(TRUE, "p1", TRUE, FALSE), Pool(FALSE, "p2", FALSE, TRUE), Pool(FALSE, "", FALSE, TRUE)>>,
              <<Pool(FALSE, "p1", FALSE, FALSE)>>, <<Pool(TRUE, "p1", FALSE, FALSE)>>}
Flannel(network, backend) == [network |-> network, network6 |-> "", backend |-> backend]
Cilium(cidrs, native, wireguard) ==
    [cidrs |-> cidrs, native |-> native, geneve |-> FALSE, wireguard |-> wireguard]

\* The values of the places, by the system that keeps them.
NoPlaces == [p \in Places |-> Absent]
PlaceMaps ==
    {NoPlaces}
    \union {[NoPlaces EXCEPT !["ippools"] = [pools |-> l]] : l \in PoolLists}
    \union {[NoPlaces EXCEPT !["kube-system/flannel"] = Flannel("f", "VXLAN")],
            [NoPlaces EXCEPT !["kube-flannel/flannel"] = Flannel("", ""), !["kube-system/flannel"] = Flannel("f", "")],
            [NoPlaces EXCEPT !["cilium/cilium"] = Cilium({"c"}, TRUE, FALSE)],
            [NoPlaces EXCEPT !["kube-system/cilium"] = Cilium({"c"}, FALSE, TRUE)]}

World(daemonSets, nodes, places) ==
    [part \in Range(Lists) |-> IF part = "daemonSets" THEN daemonSets ELSE IF part = "nodes" THEN nodes ELSE 0]
    @@ places

MCWorlds == {World(d, n, p) : d \in DaemonSets, n \in {Plain, K3s, K3sOff, Bare}, p \in {NoPlaces}}
            \union {World(<<d>>, Plain, p) : d \in Agents, p \in PlaceMaps}

MCValues ==
    [part \in Parts |->
        CASE part = "nodes" -> {Plain, K3s}
          [] part = "daemonSets" -> {<<>>, <<DS("calico-node", <<0>>, FALSE), DS("kube-flannel-ds", <<0>>, FALSE)>>}
          [] part = "ippools" -> {[pools |-> <<Pool(FALSE, "p1", TRUE, FALSE)>>], [pools |-> <<>>]}
          [] part = "kube-flannel/flannel" -> {Absent, Flannel("g", "ipip")}
          [] part = "kube-system/flannel" -> {Absent, Flannel("f", "ipip")}
          [] part = "pods" -> {0, 1}
          [] OTHER -> {}]
=============================================================================
