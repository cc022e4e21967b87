----------------------------- MODULE MCIdentity -----------------------------
(* Two nodes; pods a and b behind a Service, on one node or on two, with a    *)
(* client c, hostNetwork pods h and k on one node, a job j that has ended and *)
(* left its address to a, an agent of the cluster's own, containers of an     *)
(* earlier run; Services of one or two ports, one of them with a long name.   *)
EXTENDS Identity

Port(num, name, tcp, hostPort) == [num |-> num, name |-> name, tcp |-> tcp, hostPort |-> hostPort]
Pod(id, ns, app, node, ip, list) ==
    [id |-> id, ns |-> ns, name |-> id, running |-> TRUE, hostNetwork |-> FALSE, node |-> node,
     ip |-> ip, app |-> app, ports |-> list, old |-> {}, probe |-> 0, up |-> FALSE]
Host(id, app, node, list) == [Pod(id, "app", app, node, node, list) EXCEPT !.hostNetwork = TRUE]
Serves(pod, port) == [pod EXCEPT !.old = {port}]
Ended(pod) == [pod EXCEPT !.running = FALSE]

Http == <<Port(80, "http", TRUE, 0)>>
A(node) == Pod("a", "app", "web", node, "ip-a", Http)
B(node) == Pod("b", "app", "web", node, "ip-b", <<Port(81, "http", TRUE, 0)>>)
C == Pod("c", "app", "client", "n1", "ip-c", <<>>)
H == Host("h", "host", "n1", Http)
K == Host("k", "host", "n1", <<Port(90, "", TRUE, 0)>>)
Dns == Pod("d", "app", "web", "n2", "ip-d", <<Port(53, "dns", FALSE, 0), Port(53, "dns-tcp", TRUE, 5353)>>)
Job == Ended(Pod("j", "app", "web", "n2", "ip-a", Http))
Plumbing == Pod("s", "kube-system", "web", "n1", "ip-s", Http)
Elsewhere == Pod("e", "other", "web", "n1", "ip-e", Http)

ServicePort(port, name, num, nodePort) ==
    [tcp |-> TRUE, port |-> port, target |-> [name |-> name, num |-> num], nodePort |-> nodePort]
UDP(sp) == [sp EXCEPT !.tcp = FALSE]
Service(name, app, clusterIP, local, sps) ==
    [ns |-> "app", name |-> name, app |-> app, clusterIP |-> clusterIP, local |-> local, ports |-> sps]

Web(local) == Service("web", "web", "vip", local, <<ServicePort(80, "http", 0, 30080)>>)
Short == Service("svc-1", "web", "vip-1", FALSE, <<ServicePort(80, "http", 0, 0)>>)
Long == Service("svc-2", "client", "vip-2", FALSE, <<ServicePort(80, "", 0, 0)>>)
Headless == Service("web", "web", "None", FALSE, <<ServicePort(80, "", 80, 0)>>)
DnsService == Service("dns", "web", "vip", FALSE,
                      <<UDP(ServicePort(53, "", 53, 30053)), ServicePort(53, "dns-tcp", 0, 0), ServicePort(54, "", 54, 0)>>)
HostService == Service("host", "host", "vip", FALSE, <<ServicePort(80, "", 80, 30080)>>)
Selectorless == Service("ext", "", "vip", FALSE, <<ServicePort(80, "", 80, 0)>>)

Snapshot(pods, services) == [pods |-> pods, services |-> services, nodes |-> <<"n1", "n2">>]

MCSnapshots ==
    {Snapshot(<<A("n1"), C>>, <<Web(l)>>) : l \in BOOLEAN}
    \union {Snapshot(<<A("n1"), B("n2"), Elsewhere>>, <<Web(l)>>) : l \in BOOLEAN}
    \union {Snapshot(<<A("n1"), H, Job>>, <<Web(FALSE)>>),
            Snapshot(<<A("n2"), C, Plumbing>>, <<Short, Long>>),
            Snapshot(<<A("n1"), H, Serves(K, 39000)>>, <<Selectorless, Headless>>),
            Snapshot(<<H, Serves(K, 39002)>>, <<HostService>>),
            Snapshot(<<H, K>>, <<HostService>>),
            Snapshot(<<Serves(C, 39999)>>, <<Web(FALSE)>>),
            Snapshot(<<A("n2"), Dns>>, <<DnsService>>)}

MCSystemNamespaces == {"kube-system"}
MCScenarioNamespaces == {"app"}
MCOutsider == Pod("o", "oracle", "outsider", "n2", "ip-o", <<>>)
MCTunnels == [n1 |-> "tun-1", n2 |-> "tun-2"]
MCTruncated == [n \in {"web", "dns", "host", "ext", "svc-1", "svc-2"} |->
                   IF n \in {"svc-1", "svc-2"} THEN "fo-id-svc" ELSE n \o "-id"]
MCSpareIPs == {"ip-new"}
MCFresh == <<"r1">>

AllPaths == [kind : {"pod-ip", "hostnetwork", "hostport", "clusterip", "nodeport"}, local : BOOLEAN, near : BOOLEAN]
MCPaths == {{}, AllPaths, {p \in AllPaths : p.kind = "nodeport" /\ ~p.local},
            {p \in AllPaths : ~p.near}}
=============================================================================
