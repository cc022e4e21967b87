------------------------------ MODULE MCScore ------------------------------
(* Three families of corpora.  Heirs: a base, a mutation of it and a mutation   *)
(* of the mutation, labels of every kind and manifests that differ in one     *)
(* object.  Single: one scenario with up to two labels in every order, every  *)
(* set of findings and up to two kinds of probes.  Some have a hold-out.      *)
(* Experiment: findings and probes without labels.  Namesakes: a mutation of  *)
(* a workload that shares its name with its Service.                          *)
EXTENDS Divergence

Subject(kind, ns, name) == [kind |-> kind, ns |-> ns, name |-> name]
Cluster == Subject("Cluster", <<>>, <<>>)
GwService == Subject("Service", <<"app">>, <<"gw">>)
GwWorkload == Subject("Workload", <<"app">>, <<"gw">>)
GwPod == Subject("Pod", <<"app">>, <<"gw", "x">>)
App == Subject("Namespace", <<"app">>, <<"app">>)
Dns == Subject("Service", <<"kube", "system">>, <<"dns">>)

Label(class, subject, cni, label) ==
    [class |-> class, subject |-> subject, cni |-> cni, label |-> label, from |-> <<>>]
Node == "ipblock-admits-node-ips"
Host == "hostnetwork-under-policy"
Cni == "cni-not-enforcing"

Declared(kind, name, spec) == [kind |-> kind, ns |-> <<"app">>, name |-> name, spec |-> spec]
Probe(svc, name, basis, declared, effective, baseline, n) ==
    [target |-> [ns |-> <<"app">>, svc |-> svc, name |-> name], basis |-> basis,
     declared |-> declared, effective |-> effective, baseline |-> baseline, n |-> n]
\* A pod of the workload gw under a ReplicaSet, and one with an owner that does
\* not control it.
Owner(controller, replicaSet, name) == [controller |-> controller, replicaSet |-> replicaSet, name |-> name]
Pods == <<[ns |-> <<"app">>, name |-> <<"gw", "x">>,
           owners |-> <<Owner(FALSE, FALSE, <<"node">>), Owner(TRUE, TRUE, <<"gw", "hash">>)>>],
          [ns |-> <<"app">>, name |-> <<"db">>, owners |-> <<Owner(FALSE, FALSE, <<"node">>)>>]>>
Run(scenario, profile, enforces, findings, probes) ==
    [scenario |-> scenario, profile |-> profile, enforces |-> enforces,
     findings |-> findings, probes |-> probes, pods |-> Pods]
Finding(class, object) == [class |-> class, object |-> object]

Shop == <<"shop">>
Etp == <<"shop", "etp">>
EtpTwo == <<"shop", "etp", "two">>
Iot == <<"iot">>

-----------------------------------------------------------------------------
Catalogue == <<Label(Node, GwService, {"any"}, "must-not"), Label(Host, GwWorkload, {"any"}, "must"),
               Label(Cni, Cluster, {"calico"}, "must-not"), Label("other", Dns, {"any"}, "must-not")>>
Others == {<<>>, <<Label(Node, GwService, {"calico"}, "must")>>, <<Label(Host, GwService, {"any"}, "may")>>}

Files == {<<Declared("Service", <<"gw">>, 0)>>, <<Declared("Service", <<"gw">>, 1)>>,
          <<Declared("Service", <<"gw">>, 0), Declared("Deployment", <<"web">>, 0)>>,
          <<Declared("DaemonSet", <<"gw">>, 0), Declared("Service", <<"gw">>, 0)>>,
          <<Declared("DaemonSet", <<"gw">>, 1), Declared("Service", <<"gw">>, 0)>>}

OneRun == <<Run(Etp, "calico", TRUE, {Finding(Node, GwService)}, <<>>)>>
Heirs ==
    {[labels |-> Shop :> Catalogue @@ Etp :> own, manifests |-> Shop :> a @@ Etp :> b,
      runs |-> OneRun, holdout |-> FALSE] : own \in Others, a \in Files, b \in Files}
    \union
    {[labels |-> Shop :> Catalogue @@ Etp :> own @@ EtpTwo :> two @@ Iot :> <<>>,
      manifests |-> Shop :> a @@ Etp :> a @@ EtpTwo :> a @@ Iot :> a,
      runs |-> OneRun, holdout |-> FALSE] : own \in Others, two \in Others, a \in Files}

\* As in fintech-paylane-hostnet-agent: a DaemonSet is changed that has a Service
\* of its name.
MCNamesakes ==
    {[labels |-> Shop :> Catalogue @@ Etp :> own,
      manifests |-> Shop :> <<Declared("DaemonSet", <<"gw">>, 0), Declared("Service", <<"gw">>, 0)>>
                    @@ Etp :> <<Declared("DaemonSet", <<"gw">>, 1), Declared("Service", <<"gw">>, 0)>>,
      runs |-> OneRun, holdout |-> FALSE] : own \in Others}

-----------------------------------------------------------------------------
LabelPool == {Label(Node, s, c, v) : s \in {GwService, GwWorkload}, c \in {{"any"}, {"flannel"}}, v \in LabelValues}
             \union {Label(Host, s, {"any"}, v) : s \in {GwWorkload, GwPod}, v \in LabelValues}
             \union {Label(Cni, Cluster, {"any"}, v) : v \in LabelValues}
             \union {Label("other", App, {"any"}, "must")}
LabelSeqs == {<<>>} \union {<<l>> : l \in LabelPool} \union {<<k, l>> : k, l \in LabelPool}

FindingPool == {Finding(Cni, Cluster), Finding(Node, GwService), Finding(Host, GwWorkload)}
MeasuredPool == FindingPool \union {Finding(Node, GwWorkload)}

ProbePool == {Probe(FALSE, <<"gw", "x">>, "policy", "deny", o[1], o[2], n) :
                 o \in {<<"open", "open">>, <<"timeout", "open">>, <<"refused", "refused">>}, n \in {1, 9}}
             \union {Probe(TRUE, <<"gw">>, "undefined-snat", "deny", "open", "open", 1),
                     Probe(FALSE, <<"gw", "x">>, "undefined-snat", "deny", "refused", "refused", 1),
                     Probe(FALSE, <<"gw", "x">>, "undefined-hostnetwork", "deny", "open", "open", 1),
                     Probe(FALSE, <<"db">>, "policy", "allow", "timeout", "open", 1)}
ProbeSeqs == {<<>>} \union {<<p>> : p \in ProbePool} \union {<<p, q>> : p, q \in ProbePool}

Single ==
    {[labels |-> Shop :> ls, manifests |-> Shop :> <<>>,
      runs |-> <<Run(Shop, "calico", TRUE, fs, <<>>)>>, holdout |-> FALSE] :
        ls \in LabelSeqs, fs \in SUBSET FindingPool}
    \union
    {[labels |-> Shop :> ls, manifests |-> Shop :> <<>>,
      runs |-> <<Run(Iot, "calico", TRUE, {}, ps), Run(Shop, "calico", e, {}, ps)>>, holdout |-> h] :
        ls \in {<<>>} \union {<<l>> : l \in LabelPool}, ps \in ProbeSeqs, e \in BOOLEAN, h \in BOOLEAN}

Experiment ==
    {[labels |-> Shop :> <<>>, manifests |-> Shop :> <<>>,
      runs |-> <<Run(Shop, "calico", e, fs, ps)>>, holdout |-> FALSE] :
        fs \in SUBSET MeasuredPool, ps \in ProbeSeqs, e \in BOOLEAN}

MCCorpora == Heirs \union Single \union Experiment
MCSystemNamespaces == {<<"kube", "system">>}
MCHoldout == {Iot}
=============================================================================
