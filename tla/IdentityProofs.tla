---------------------------- MODULE IdentityProofs ----------------------------
(* What is written was measured on the pods of the snapshot, for any          *)
(* snapshots, networks and numbers of replacements.                           *)
EXTENDS Identity, FiniteSetTheorems, WellFoundedInduction, TLAPS

-----------------------------------------------------------------------------
(* The inductive invariant.  A pod that the snapshot does not have took the   *)
(* place of one that is in everybody's scripts: whoever was met there, the    *)
(* exec in the pod that is lost has failed by the end of the baseline, unless *)
(* there was nothing to execute in it.                                        *)

SnapIds == {p.id : p \in Range(snap.pods)}
Same(q, p) == \A f \in PodFields \ {"probe", "up"} : q[f] = p[f]

\* What there is beside the pods of the snapshot came later, and serves nothing.
PodsInv ==
  /\ snap \in Filtered
  /\ \A q \in live : PodFields \subseteq DOMAIN q
  /\ \A q \in live : q.id \in SnapIds => \E p \in Range(snap.pods) : Same(q, p)
  /\ \A q \in live : q.id \notin SnapIds => q.probe = 0 /\ q.old = {}
  /\ \A p, q \in live : p.id = q.id /\ p.id \in SnapIds => p = q

Lost(id) == id \in InjectedPods(snap) /\ \A q \in live : q.id # id
LostInv == (\E q \in live : q.id \notin SnapIds) => \E id \in InjectedPods(snap) : Lost(id)

\* A pod is lost in which nothing is ever executed.
QuietLoss == \E id \in InjectedPods(snap) \ Executed : Lost(id)

\* A pod is lost whose exec is still to come, or has failed, or never comes.
LossIsSeen ==
  \/ failed
  \/ QuietLoss
  \/ pc = "done" /\ result = "refused"
  \/ /\ pc \in {"effective", "shadows", "baseline"}
     /\ \E id \in InjectedPods(snap) : Lost(id) /\ (pc = "baseline" => id \in todo)

\* How connects arrive at the pods of the snapshot.
Arrivals == {Arrived(tgt, p) : p \in Reached(Range(snap.pods), tgt)}

MetInv ==
  /\ pc \in {"inject", "wait"} => met = {}
  /\ \A m \in met : m \in Arrivals \/ (m.pod \notin SnapIds /\ LossIsSeen)

ResultInv == pc = "done" /\ result = "written" => ~failed

IInv == TypeOK /\ PodsInv /\ LostInv /\ MetInv /\ ResultInv

-----------------------------------------------------------------------------
(* Pods.                                                                      *)

LEMMA PodsOfSnapshot ==
  ASSUME snap \in Filtered
  PROVE  /\ \A p \in Range(snap.pods) : PodFields \subseteq DOMAIN p /\ p.id # None
         /\ \A p, q \in Range(snap.pods) : p.id = q.id \/ (p.ns = q.ns /\ p.name = q.name) => p = q
         /\ \A p \in Range(snap.pods) : p.id \notin Range(Fresh)
BY PodsAssumption, FreshAssumption

LEMMA InjectedAreOfSnapshot == InjectedPods(snap) \subseteq SnapIds
BY DEF InjectedPods, ScenarioPods, SnapIds

LEMMA FreshIsNew ==
  ASSUME snap \in Filtered, replaced \in Nat, replaced < Len(Fresh)
  PROVE  Fresh[replaced + 1] \notin SnapIds
<1>1. replaced + 1 \in DOMAIN Fresh BY FreshAssumption
<1>2. Fresh[replaced + 1] \in Range(Fresh) BY <1>1 DEF Range
<1>3. QED BY <1>2, PodsOfSnapshot DEF SnapIds

LEMMA SameFields ==
  ASSUME NEW p, NEW q, Same(q, p)
  PROVE  /\ q.id = p.id /\ q.ns = p.ns /\ q.name = p.name /\ q.running = p.running
         /\ q.hostNetwork = p.hostNetwork /\ q.node = p.node /\ q.ip = p.ip /\ q.app = p.app
         /\ q.ports = p.ports /\ q.old = p.old
BY DEF Same, PodFields

\* The pod of the snapshot whose place in a script it is.
LEMMA NamedIsOld ==
  ASSUME PodsInv, NEW id \in InjectedPods(snap), NEW q \in Named(id), q.id \in SnapIds
  PROVE  q.id = id
<1> DEFINE old == CHOOSE p \in Range(snap.pods) : p.id = id
<1>1. \E p \in Range(snap.pods) : p.id = id BY InjectedAreOfSnapshot DEF SnapIds
<1>2. old \in Range(snap.pods) /\ old.id = id BY <1>1
<1>3. q \in live /\ q.ns = old.ns /\ q.name = old.name BY DEF Named
<1> HIDE DEF old
<1>4. PICK p \in Range(snap.pods) : Same(q, p) BY <1>3 DEF PodsInv
<1>5. p.ns = old.ns /\ p.name = old.name /\ q.id = p.id BY <1>3, <1>4, SameFields
<1>6. p = old BY <1>2, <1>4, <1>5, PodsOfSnapshot DEF PodsInv
<1>7. QED BY <1>2, <1>5, <1>6

\* Nothing executes in the place of a pod that is lost.
LEMMA LostCannotExec ==
  ASSUME PodsInv, NEW id, Lost(id)
  PROVE  ~CanExec(id)
<1> SUFFICES ASSUME NEW q \in Named(id), q.probe # 0 PROVE FALSE BY DEF CanExec, Lost
<1>1. q \in live BY DEF Named
<1>2. q.id \in SnapIds BY <1>1 DEF PodsInv
<1>3. q.id = id BY <1>2, NamedIsOld DEF Lost
<1>4. QED BY <1>1, <1>3 DEF Lost

\* How a connect arrives depends on nothing that a probe container changes.
LEMMA SameArrives ==
  ASSUME NEW q, NEW p, Same(q, p), NEW t
  PROVE  Arrived(t, q) = Arrived(t, p)
<1>1. q.id = p.id /\ q.node = p.node BY SameFields
<1>2. From(t, q) = From(t, p) BY <1>1 DEF From
<1>3. QED BY <1>1, <1>2 DEF Arrived

\* Where a pod can be reached depends on nothing that a probe container changes.
LEMMA SameIsReached ==
  ASSUME NEW q, NEW p \in Range(snap.pods), Same(q, p), q \in Reached(live, tgt)
  PROVE  p \in Reached(Range(snap.pods), tgt)
<1>1. TCPPorts(q) = TCPPorts(p) BY SameFields DEF TCPPorts
<1>2. \A sp : TargetNumbers(sp, q) = TargetNumbers(sp, p) BY <1>1 DEF TargetNumbers
<1>3. CASE IsService(tgt)
  <2> DEFINE svc == CHOOSE v \in Range(snap.services) : <<v.ns, v.name>> = tgt.service
  <2> DEFINE sp == CHOOSE c \in Range(svc.ports) : c.tcp /\ c.port = tgt.port
  <2> HIDE DEF svc, sp
  <2>1. /\ q.ns = svc.ns /\ q.app = svc.app /\ q.running /\ TargetNumbers(sp, q) # {}
        /\ (tgt.local /\ src.kind = "external") => q.node = tgt.node
    BY <1>3 DEF Reached, Endpoints, svc, sp
  <2>2. /\ p.ns = svc.ns /\ p.app = svc.app /\ p.running /\ TargetNumbers(sp, p) # {}
        /\ (tgt.local /\ src.kind = "external") => p.node = tgt.node
    BY <2>1, <1>2, SameFields
  <2>3. QED BY <1>3, <2>2 DEF Reached, Endpoints, svc, sp
<1>4. CASE ~IsService(tgt) BY <1>1, <1>4, SameFields DEF Reached
<1>5. QED BY <1>3, <1>4

-----------------------------------------------------------------------------
(* Targets: what add is called for, whatever comes first.                     *)

Called(calls, t) == \E c \in calls : c.target = t

\* What is added for a pod, and for a port of a Service.
OfThePod(p, t) ==
  \E c \in TCPPorts(p) :
    \/ t = PodTarget(p, c.num)
    \/ c.hostPort > 0 /\ ~p.hostNetwork /\ t = HostPortTarget(p, c)

OfTheServicePort(s, svc, sp, t) ==
  \/ \E p \in Range(s.pods) : \E b \in Backend(svc, sp, p) : t = PodTarget(b.pod, b.port)
  \/ svc.clusterIP \notin {"", "None"} /\ t = ServiceTarget(svc, sp, Backends(s, svc, sp))
  \/ \E n \in Range(s.nodes) : sp.nodePort > 0 /\ t = NodePortTarget(svc, sp, Backends(s, svc, sp), n)

IsCall(s, t) ==
  \/ \E p \in ScenarioPods(s) : OfThePod(p, t)
  \/ \E svc \in ScenarioServices(s) : \E sp \in TCPServicePorts(svc) : OfTheServicePort(s, svc, sp, t)

LEMMA CallTarget ==
  ASSUME NEW at, NEW u
  PROVE  Call(at, u).target = u
BY DEF Call

LEMMA PodCalls ==
  ASSUME NEW i, NEW p, NEW t
  PROVE  Called(OfPod(i, p), t) <=> OfThePod(p, t)
<1> DEFINE tcp == {k \in DOMAIN p.ports : p.ports[k].tcp}
<1>1. \A j : (\E c \in OfPort(i, j, p, p.ports[j]) : c.target = t) <=>
               \/ t = PodTarget(p, p.ports[j].num)
               \/ (p.ports[j].hostPort > 0 /\ ~p.hostNetwork /\ t = HostPortTarget(p, p.ports[j]))
  BY CallTarget DEF OfPort
<1>2. TCPPorts(p) = {p.ports[j] : j \in tcp} BY DEF TCPPorts, Range
<1>3. \A c : c \in OfPod(i, p) <=> \E j \in tcp : c \in OfPort(i, j, p, p.ports[j]) BY DEF OfPod
<1> HIDE DEF tcp
<1>4. QED BY <1>1, <1>2, <1>3 DEF Called, OfThePod

LEMMA ServicePortCalls ==
  ASSUME NEW s, NEW i, NEW j, NEW svc, NEW sp, NEW t
  PROVE  Called(OfServicePort(s, i, j, svc, sp), t) <=> OfTheServicePort(s, svc, sp, t)
<1> DEFINE last == Len(s.pods)
<1> DEFINE OfBackend(k, b) == Call(<<2, i, j, k>>, PodTarget(b.pod, b.port))
<1> DEFINE OfNode(k) == Call(<<2, i, j, last + 1 + k>>, NodePortTarget(svc, sp, Backends(s, svc, sp), s.nodes[k]))
<1> DEFINE pods == UNION {{OfBackend(k, b) : b \in Backend(svc, sp, s.pods[k])} : k \in DOMAIN s.pods}
<1> DEFINE vip == {Call(<<2, i, j, last + 1>>, ServiceTarget(svc, sp, Backends(s, svc, sp))) :
                     ip \in {svc.clusterIP} \ {"", "None"}}
<1> DEFINE nodes == {OfNode(k) : k \in {n \in DOMAIN s.nodes : sp.nodePort > 0}}
<1>1. OfServicePort(s, i, j, svc, sp) = (pods \union vip) \union nodes BY DEF OfServicePort
<1>2. Called(pods, t) <=>
        \E p \in Range(s.pods) : \E b \in Backend(svc, sp, p) : t = PodTarget(b.pod, b.port)
  <2>1. \A k, b : OfBackend(k, b).target = PodTarget(b.pod, b.port) BY CallTarget
  <2> HIDE DEF OfBackend
  <2>2. Called(pods, t) <=>
          \E k \in DOMAIN s.pods : \E b \in Backend(svc, sp, s.pods[k]) : t = PodTarget(b.pod, b.port)
    <3>1. \A c : c \in pods <=> \E k \in DOMAIN s.pods : c \in {OfBackend(k, b) : b \in Backend(svc, sp, s.pods[k])}
      OBVIOUS
    <3>2. \A k : Called({OfBackend(k, b) : b \in Backend(svc, sp, s.pods[k])}, t) <=>
                   \E b \in Backend(svc, sp, s.pods[k]) : t = PodTarget(b.pod, b.port)
      BY <2>1 DEF Called
    <3> HIDE DEF pods
    <3>3. Called(pods, t) <=>
            \E k \in DOMAIN s.pods : Called({OfBackend(k, b) : b \in Backend(svc, sp, s.pods[k])}, t)
      BY <3>1 DEF Called
    <3>4. QED BY <3>2, <3>3
  <2>3. QED BY <2>2 DEF Range
<1>3. Called(vip, t) <=>
        svc.clusterIP \notin {"", "None"} /\ t = ServiceTarget(svc, sp, Backends(s, svc, sp))
  BY CallTarget DEF Called
<1>4. Called(nodes, t) <=>
        \E n \in Range(s.nodes) : sp.nodePort > 0 /\ t = NodePortTarget(svc, sp, Backends(s, svc, sp), n)
  <2>1. \A k : OfNode(k).target = NodePortTarget(svc, sp, Backends(s, svc, sp), s.nodes[k]) BY CallTarget
  <2> HIDE DEF OfNode
  <2>2. Called(nodes, t) <=> \E k \in DOMAIN s.nodes :
           sp.nodePort > 0 /\ t = NodePortTarget(svc, sp, Backends(s, svc, sp), s.nodes[k])
    BY <2>1 DEF Called
  <2>3. QED BY <2>2 DEF Range
<1> HIDE DEF pods, vip, nodes
<1>5. Called((pods \union vip) \union nodes, t) <=> Called(pods, t) \/ Called(vip, t) \/ Called(nodes, t)
  BY DEF Called
<1>6. QED BY <1>1, <1>2, <1>3, <1>4, <1>5 DEF OfTheServicePort

\* The calls of add, without their order.
LEMMA CallsAre ==
  ASSUME NEW s, NEW t
  PROVE  Called(Calls(s), t) <=> IsCall(s, t)
<1> DEFINE is == {k \in DOMAIN s.pods : IsScenarioPod(s.pods[k])}
<1> DEFINE js == {k \in DOMAIN s.services : s.services[k] \in ScenarioServices(s)}
<1> DEFINE Ports(svc) == {k \in DOMAIN svc.ports : svc.ports[k].tcp}
<1>1. \A c : c \in Calls(s) <=>
         \/ \E i \in is : c \in OfPod(i, s.pods[i])
         \/ \E i \in js : c \in OfService(s, i, s.services[i])
  BY DEF Calls
<1>2. \A i, svc, c : c \in OfService(s, i, svc) <=> \E j \in Ports(svc) : c \in OfServicePort(s, i, j, svc, svc.ports[j])
  BY DEF OfService
<1>3. ScenarioPods(s) = {s.pods[i] : i \in is} BY DEF ScenarioPods, Range
<1>4. ScenarioServices(s) = {s.services[i] : i \in js} BY DEF ScenarioServices, Range
<1>5. \A svc : TCPServicePorts(svc) = {svc.ports[j] : j \in Ports(svc)} BY DEF TCPServicePorts, Range
<1> HIDE DEF is, js, Ports
<1>6. Called(Calls(s), t) <=>
         \/ \E i \in is : Called(OfPod(i, s.pods[i]), t)
         \/ \E i \in js : \E j \in Ports(s.services[i]) :
               Called(OfServicePort(s, i, j, s.services[i], s.services[i].ports[j]), t)
  BY <1>1, <1>2 DEF Called
<1>7. @ <=> \/ \E i \in is : OfThePod(s.pods[i], t)
            \/ \E i \in js : \E j \in Ports(s.services[i]) :
                  OfTheServicePort(s, s.services[i], s.services[i].ports[j], t)
  BY PodCalls, ServicePortCalls
<1>8. QED BY <1>3, <1>4, <1>5, <1>6, <1>7 DEF IsCall

LEMMA TargetsAreCalls ==
  ASSUME NEW s, NEW t \in BuildTargets(s)
  PROVE  IsCall(s, t)
<1>1. Called(Calls(s), t) BY DEF BuildTargets, Called
<1>2. QED BY <1>1, CallsAre

\* A target that is no Service: it is its owner's, and nobody else is behind it.
IsOf(t, p) ==
  /\ t.owner = p.id /\ ~t.local /\ \E n : t.backends = {[pod |-> p, port |-> n]}
  /\ \/ t.kind = "pod-ip" /\ ~p.hostNetwork /\ t.addr[1] = p.ip
     \/ t.kind = "hostnetwork" /\ p.hostNetwork /\ t.addr[1] = p.ip
     \/ /\ t.kind = "hostport" /\ ~p.hostNetwork /\ t.addr[1] = p.node
        /\ \E c \in TCPPorts(p) : c.hostPort > 0 /\ t.addr[2] = c.hostPort

LEMMA PodShape ==
  ASSUME NEW s, NEW t \in BuildTargets(s), ~IsService(t)
  PROVE  \E p \in ScenarioPods(s) : IsOf(t, p)
<1>1. \E p \in ScenarioPods(s) : \E n :
         \/ t = PodTarget(p, n)
         \/ ~p.hostNetwork /\ \E c \in TCPPorts(p) : c.hostPort > 0 /\ t = HostPortTarget(p, c)
  <2>1. CASE \E p \in ScenarioPods(s) : OfThePod(p, t) BY <2>1 DEF OfThePod
  <2>2. CASE \E svc \in ScenarioServices(s) : \E sp \in TCPServicePorts(svc) : OfTheServicePort(s, svc, sp, t)
    <3>0. PICK svc \in ScenarioServices(s) : \E sp \in TCPServicePorts(svc) : OfTheServicePort(s, svc, sp, t)
      BY <2>2
    <3>1. PICK sp \in TCPServicePorts(svc) : OfTheServicePort(s, svc, sp, t) BY <3>0
    <3>2. \E p \in Range(s.pods) : \E b \in Backend(svc, sp, p) : t = PodTarget(b.pod, b.port)
      <4>1. \A n : IsService(ServiceTarget(svc, sp, Backends(s, svc, sp)))
                   /\ IsService(NodePortTarget(svc, sp, Backends(s, svc, sp), n))
        BY DEF IsService, ServiceTarget, NodePortTarget
      <4>2. QED BY <3>1, <4>1 DEF OfTheServicePort
    <3>3. QED BY <3>2 DEF Backend, ScenarioPods
  <2>3. QED BY <2>1, <2>2, TargetsAreCalls DEF IsCall
<1>2a. PICK p \in ScenarioPods(s) : \E n :
         \/ t = PodTarget(p, n)
         \/ ~p.hostNetwork /\ \E c \in TCPPorts(p) : c.hostPort > 0 /\ t = HostPortTarget(p, c)
  BY <1>1
<1>2. PICK n :
         \/ t = PodTarget(p, n)
         \/ ~p.hostNetwork /\ \E c \in TCPPorts(p) : c.hostPort > 0 /\ t = HostPortTarget(p, c)
  BY <1>2a
<1>3. CASE t = PodTarget(p, n) BY <1>3 DEF PodTarget, IsOf
<1>4. CASE ~p.hostNetwork /\ \E c \in TCPPorts(p) : c.hostPort > 0 /\ t = HostPortTarget(p, c)
  <2>1. PICK c \in TCPPorts(p) : c.hostPort > 0 /\ t = HostPortTarget(p, c) BY <1>4
  <2>2. QED BY <1>4, <2>1 DEF HostPortTarget, PodTarget, IsOf
<1>5. QED BY <1>2, <1>3, <1>4

\* A target that is a Service's, which is found under its name and port.
LEMMA ServiceShape ==
  ASSUME NEW s \in Filtered, NEW t \in BuildTargets(s), IsService(t)
  PROVE  \E svc \in ScenarioServices(s) : \E sp \in TCPServicePorts(svc) :
            /\ t.service = <<svc.ns, svc.name>> /\ t.port = sp.port
            /\ svc = CHOOSE v \in Range(s.services) : <<v.ns, v.name>> = t.service
            /\ sp = CHOOSE c \in Range(svc.ports) : c.tcp /\ c.port = t.port
            /\ t.backends = Backends(s, svc, sp) /\ t.owner = None
            /\ \/ t.kind = "clusterip" /\ ~t.local
               \/ t.kind = "nodeport" /\ t.addr[1] = t.node /\ t.node \in Range(s.nodes)
<1>1. \A p, n, c : ~IsService(PodTarget(p, n)) /\ ~IsService(HostPortTarget(p, c))
  BY DEF IsService, PodTarget, HostPortTarget
<1>2a. PICK svc \in ScenarioServices(s) : \E sp \in TCPServicePorts(svc) : OfTheServicePort(s, svc, sp, t)
  BY <1>1, TargetsAreCalls DEF IsCall, OfThePod
<1>2. PICK sp \in TCPServicePorts(svc) :
         \/ t = ServiceTarget(svc, sp, Backends(s, svc, sp))
         \/ \E n \in Range(s.nodes) : t = NodePortTarget(svc, sp, Backends(s, svc, sp), n)
  BY <1>1, <1>2a DEF OfTheServicePort
<1>3. /\ t.service = <<svc.ns, svc.name>> /\ t.port = sp.port /\ t.backends = Backends(s, svc, sp)
      /\ t.owner = None
      /\ \/ t.kind = "clusterip" /\ ~t.local
         \/ t.kind = "nodeport" /\ t.addr[1] = t.node /\ t.node \in Range(s.nodes)
  <2>1. CASE t = ServiceTarget(svc, sp, Backends(s, svc, sp)) BY <2>1 DEF ServiceTarget
  <2>2. CASE \E n \in Range(s.nodes) : t = NodePortTarget(svc, sp, Backends(s, svc, sp), n)
    <3>1. PICK n \in Range(s.nodes) : t = NodePortTarget(svc, sp, Backends(s, svc, sp), n) BY <2>2
    <3>2. QED BY <3>1 DEF ServiceTarget, NodePortTarget
  <2>3. QED BY <1>2, <2>1, <2>2
<1>4. svc = CHOOSE v \in Range(s.services) : <<v.ns, v.name>> = t.service
  <2>1. \A v \in Range(s.services) : <<v.ns, v.name>> = <<svc.ns, svc.name>> => v = svc
    BY ServicesAssumption DEF ScenarioServices
  <2>2. svc \in Range(s.services) BY DEF ScenarioServices
  <2>3. QED BY <1>3, <2>1, <2>2
<1>5. sp = CHOOSE c \in Range(svc.ports) : c.tcp /\ c.port = t.port
  <2>1. \A c, d \in TCPServicePorts(svc) : c.port = d.port => c = d
    BY ServicesAssumption DEF ScenarioServices
  <2>2. \A c \in Range(svc.ports) : c.tcp /\ c.port = t.port => c = sp
    BY <1>3, <2>1 DEF TCPServicePorts
  <2>3. sp \in Range(svc.ports) /\ sp.tcp BY DEF TCPServicePorts
  <2>4. QED BY <1>3, <2>2, <2>3
<1>6. QED BY <1>3, <1>4, <1>5

-----------------------------------------------------------------------------
(* The ports of the probe containers.                                         *)

LEMMA OwnPort ==
  ASSUME snap \in Filtered, NEW p \in ScenarioPods(snap)
  PROVE  /\ p.id \in DOMAIN ports
         /\ ports[p.id] \in Nat \ {0}
         /\ \E i \in DOMAIN snap.pods : snap.pods[i] = p /\ ports[p.id] = PortOf(snap, i)
<1> DEFINE at == CHOOSE i \in DOMAIN snap.pods : snap.pods[i].id = p.id
<1>1. p \in Range(snap.pods) BY DEF ScenarioPods
<1>2. \E i \in DOMAIN snap.pods : snap.pods[i].id = p.id BY <1>1 DEF Range
<1>3. at \in DOMAIN snap.pods /\ snap.pods[at].id = p.id BY <1>2
<1> HIDE DEF at
<1>4. snap.pods[at] = p BY <1>1, <1>3, PodsOfSnapshot DEF Range
<1>5. p.id \in DOMAIN ports /\ ports[p.id] = PortOf(snap, at) BY DEF ports, identityPorts, InjectedPods, at
<1>6. PortOf(snap, at) \in Nat \ {0}
  <2>1. IsFiniteSet({j \in HostNet(snap) : j < at})
    <3>1. DOMAIN snap.pods = 1 .. Len(snap.pods) /\ Len(snap.pods) \in Nat BY PodsAssumption
    <3>2. IsFiniteSet(1 .. Len(snap.pods)) BY <3>1, FS_Interval
    <3>3. QED BY <3>1, <3>2, FS_Subset DEF HostNet
  <2>2. Cardinality({j \in HostNet(snap) : j < at}) \in Nat BY <2>1, FS_CardinalityType
  <2>3. QED BY <2>2 DEF PortOf, hostNetIdentityBase, identityPort
<1>7. QED BY <1>3, <1>4, <1>5, <1>6

\* hostNetwork pods have ports of their own.
LEMMA PortsDiffer ==
  ASSUME snap \in Filtered, NEW p \in ScenarioPods(snap), NEW q \in ScenarioPods(snap),
         p.hostNetwork, q.hostNetwork, ports[p.id] = ports[q.id]
  PROVE  p = q
<1> DEFINE Earlier(i) == {j \in HostNet(snap) : j < i}
<1>1. PICK i \in DOMAIN snap.pods : snap.pods[i] = p /\ ports[p.id] = PortOf(snap, i) BY OwnPort
<1>2. PICK k \in DOMAIN snap.pods : snap.pods[k] = q /\ ports[q.id] = PortOf(snap, k) BY OwnPort
<1>3. i \in HostNet(snap) /\ k \in HostNet(snap) BY <1>1, <1>2 DEF HostNet, ScenarioPods
<1>4. DOMAIN snap.pods = 1 .. Len(snap.pods) /\ Len(snap.pods) \in Nat BY PodsAssumption
<1>5. \A m : IsFiniteSet(Earlier(m))
  <2>1. IsFiniteSet(1 .. Len(snap.pods)) BY <1>4, FS_Interval
  <2>2. QED BY <1>4, <2>1, FS_Subset DEF HostNet
<1>6. Cardinality(Earlier(i)) = Cardinality(Earlier(k))
  <2>1. \A m : Cardinality(Earlier(m)) \in Nat BY <1>5, FS_CardinalityType
  <2>2. \A m \in HostNet(snap) : PortOf(snap, m) = hostNetIdentityBase + Cardinality(Earlier(m)) BY DEF PortOf
  <2>3. Cardinality(Earlier(i)) \in Nat /\ Cardinality(Earlier(k)) \in Nat BY <2>1
  <2>4. hostNetIdentityBase + Cardinality(Earlier(i)) = hostNetIdentityBase + Cardinality(Earlier(k))
    BY <1>1, <1>2, <1>3, <2>2
  <2> HIDE DEF Earlier
  <2>5. QED BY <2>3, <2>4 DEF hostNetIdentityBase
<1>7. \A m, n \in HostNet(snap) : m < n => Cardinality(Earlier(m)) # Cardinality(Earlier(n))
  <2> SUFFICES ASSUME NEW m \in HostNet(snap), NEW n \in HostNet(snap), m < n
               PROVE  Cardinality(Earlier(m)) # Cardinality(Earlier(n))
    OBVIOUS
  <2>1. HostNet(snap) \subseteq Nat BY <1>4 DEF HostNet
  <2>2. Earlier(m) \subseteq Earlier(n) /\ m \in Earlier(n) /\ m \notin Earlier(m) BY <2>1
  <2> HIDE DEF Earlier
  <2>3. QED BY <1>5, <2>2, FS_Subset
<1>8. ~(i < k) /\ ~(k < i) BY <1>3, <1>6, <1>7
<1>9. i = k BY <1>4, <1>8
<1>10. QED BY <1>1, <1>2, <1>9

-----------------------------------------------------------------------------
(* The steps.                                                                 *)

\* The pair, its snapshot and its network stay.
LEMMA ArrivalsStay ==
  ASSUME UNCHANGED <<snap, src, tgt, nat>>
  PROVE  Arrivals' = Arrivals
<1>1. Reached(Range(snap.pods), tgt)' = Reached(Range(snap.pods), tgt) BY DEF Reached, Endpoints
<1>2. \A p : Arrived(tgt, p)' = Arrived(tgt, p) BY DEF Arrived, From, Address
<1>3. QED BY <1>1, <1>2 DEF Arrivals

LEMMA InitInv == Init => IInv
<1> SUFFICES ASSUME Init PROVE IInv OBVIOUS
<1>1. snap \in Filtered BY DEF Init, Filtered
<1>2. live = Range(snap.pods) BY DEF Init
<1>3. \A q \in live : q.id \in SnapIds BY <1>2 DEF SnapIds
<1>4. Len(Fresh) \in Nat BY FreshAssumption
<1>5. TypeOK
  <2>1. {base, failed, fault} \subseteq BOOLEAN BY Zenon DEF Init
  <2>2. pc = "inject" /\ result = "none" /\ replaced = 0 BY DEF Init
  <2>3. pc \in Loops /\ replaced \in 0 .. Len(Fresh) BY <1>4, <2>2 DEF Loops
  <2>4. QED BY <2>1, <2>2, <2>3 DEF TypeOK
<1>6. PodsInv BY <1>1, <1>2, <1>3, PodsOfSnapshot DEF PodsInv, Same
<1>7. LostInv BY <1>3 DEF LostInv
<1>8. MetInv /\ ResultInv BY DEF Init, MetInv, ResultInv
<1>9. QED BY <1>5, <1>6, <1>7, <1>8 DEF IInv

\* Steps that leave the pods as they are.
LEMMA PodsStay ==
  ASSUME PodsInv, LostInv, UNCHANGED <<snap, live>>
  PROVE  PodsInv' /\ LostInv' /\ \A id : Lost(id)' <=> Lost(id)
<1>1. SnapIds' = SnapIds BY DEF SnapIds
<1>2. PodsInv' BY <1>1 DEF PodsInv
<1>3. \A id : Lost(id)' <=> Lost(id) BY DEF Lost
<1>4. LostInv' BY <1>1 DEF LostInv, Lost
<1>5. QED BY <1>2, <1>3, <1>4

\* A container is added to a pod.
LEMMA PodsInjected ==
  ASSUME PodsInv, LostInv, UNCHANGED snap, NEW q \in live, q.id \in DOMAIN ports, NEW port, NEW up,
         live' = (live \ {q}) \union {[q EXCEPT !.probe = port, !.up = up]}
  PROVE  PodsInv' /\ LostInv' /\ \A id : Lost(id) => Lost(id)'
<1> DEFINE new == [q EXCEPT !.probe = port, !.up = up]
<1>0. SnapIds' = SnapIds /\ Range(snap.pods)' = Range(snap.pods) /\ InjectedPods(snap)' = InjectedPods(snap)
  BY DEF SnapIds
<1>1. PodFields \subseteq DOMAIN q BY DEF PodsInv
<1>2. DOMAIN new = DOMAIN q /\ \A f \in DOMAIN q \ {"probe", "up"} : new[f] = q[f] BY Zenon
<1>3. Same(new, q) BY <1>1, <1>2 DEF Same
<1>4. new.id = q.id BY <1>3, SameFields
<1>5. q.id \in SnapIds BY InjectedAreOfSnapshot DEF ports, identityPorts
<1> HIDE DEF new
<1>6. live' = (live \ {q}) \union {new} BY DEF new
<1>7. \A r \in live' : r \in live \/ r = new BY <1>6
<1>8. PodsInv'
  <2>1. (snap \in Filtered)' BY DEF PodsInv
  <2>2. \A r \in live' : PodFields \subseteq DOMAIN r BY <1>1, <1>2, <1>7 DEF PodsInv, new
  <2>3. \A r \in live' : r.id \in SnapIds => \E p \in Range(snap.pods) : Same(r, p)
    <3>1. PICK p \in Range(snap.pods) : Same(q, p) BY <1>5 DEF PodsInv
    <3>2. Same(new, p) BY <1>3, <3>1 DEF Same
    <3>3. QED BY <1>7, <3>2 DEF PodsInv
  <2>4. \A r \in live' : r.id \notin SnapIds => r.probe = 0 /\ r.old = {} BY <1>4, <1>5, <1>7 DEF PodsInv
  <2>5. \A r, t \in live' : r.id = t.id /\ r.id \in SnapIds => r = t
    BY <1>4, <1>5, <1>6 DEF PodsInv
  <2>6. QED BY <1>0, <2>1, <2>2, <2>3, <2>4, <2>5 DEF PodsInv, Same
<1>9. \A id : Lost(id) => Lost(id)' BY <1>0, <1>4, <1>7 DEF Lost
<1>10. LostInv' BY <1>0, <1>4, <1>5, <1>7, <1>9 DEF LostInv
<1>11. QED BY <1>8, <1>9, <1>10

\* A pod takes the place of another one.
LEMMA PodsReplaced ==
  ASSUME IInv, NEW p \in live, Replace(p)
  PROVE  PodsInv' /\ LostInv' /\ \A id : Lost(id) => Lost(id)'
<1>1. PICK name \in {p.name, Fresh[replaced + 1]}, node \in Range(snap.nodes), ip \in {p.ip} \union SpareIPs :
          live' = (live \ {p}) \union
                {[p EXCEPT !.id = Fresh[replaced + 1], !.name = name, !.node = node, !.old = {},
                           !.probe = 0, !.up = FALSE, !.ip = IF p.hostNetwork THEN node ELSE ip]}
  BY DEF Replace
<1> DEFINE new == [p EXCEPT !.id = Fresh[replaced + 1], !.name = name, !.node = node, !.old = {},
                            !.probe = 0, !.up = FALSE, !.ip = IF p.hostNetwork THEN node ELSE ip]
<1>2. UNCHANGED snap /\ IsScenarioPod(p) /\ replaced < Len(Fresh) /\ replaced \in Nat
  BY DEF Replace, IInv, TypeOK
<1>3. SnapIds' = SnapIds /\ Range(snap.pods)' = Range(snap.pods) /\ InjectedPods(snap)' = InjectedPods(snap)
  BY <1>2 DEF SnapIds
<1>4. PodFields \subseteq DOMAIN p /\ snap \in Filtered BY DEF IInv, PodsInv
<1>5. DOMAIN new = DOMAIN p BY Zenon
<1>6. new.id = Fresh[replaced + 1] /\ new.probe = 0 /\ new.old = {} BY <1>4 DEF PodFields
<1>7. new.id \notin SnapIds BY <1>2, <1>4, <1>6, FreshIsNew
<1> HIDE DEF new
<1>8. live' = (live \ {p}) \union {new} BY <1>1 DEF new
<1>9. \A r \in live' : r \in live \/ r = new BY <1>8
<1>10. PodsInv'
  <2>1. (snap \in Filtered)' BY <1>2, <1>4
  <2>2. \A r \in live' : PodFields \subseteq DOMAIN r BY <1>4, <1>5, <1>9 DEF IInv, PodsInv
  <2>3. \A r \in live' : r.id \in SnapIds => \E o \in Range(snap.pods) : Same(r, o)
    BY <1>7, <1>9 DEF IInv, PodsInv
  <2>4. \A r \in live' : r.id \notin SnapIds => r.probe = 0 /\ r.old = {} BY <1>6, <1>9 DEF IInv, PodsInv
  <2>5. \A r, t \in live' : r.id = t.id /\ r.id \in SnapIds => r = t
    BY <1>7, <1>9 DEF IInv, PodsInv
  <2>6. QED BY <1>3, <2>1, <2>2, <2>3, <2>4, <2>5 DEF PodsInv, Same
<1>11. \A id : Lost(id) => Lost(id)'
  <2>1. \A id \in InjectedPods(snap) : new.id # id BY <1>7, InjectedAreOfSnapshot
  <2>2. QED BY <1>3, <1>9, <2>1 DEF Lost
<1>12. \E id \in InjectedPods(snap) : Lost(id)'
  <2>1. CASE p.id \in SnapIds
    <3>1. PICK o \in Range(snap.pods) : Same(p, o) BY <2>1 DEF IInv, PodsInv
    <3>2. o \in ScenarioPods(snap) BY <1>2, <3>1, SameFields DEF ScenarioPods, IsScenarioPod
    <3>3. p.id \in InjectedPods(snap) BY <3>1, <3>2, SameFields DEF InjectedPods
    <3>4. \A r \in live' : r.id # p.id BY <1>7, <1>8, <2>1 DEF IInv, PodsInv
    <3>5. QED BY <1>3, <3>3, <3>4 DEF Lost
  <2>2. CASE p.id \notin SnapIds
    <3>1. PICK id \in InjectedPods(snap) : Lost(id) BY <2>2 DEF IInv, LostInv
    <3>2. QED BY <1>11, <3>1
  <2>3. QED BY <2>1, <2>2
<1>13. LostInv' BY <1>3, <1>12 DEF LostInv
<1>14. QED BY <1>10, <1>11, <1>13

\* What the snapshot says of its pods stays with it.
LEMMA SnapStays ==
  ASSUME UNCHANGED snap
  PROVE  InjectedPods(snap)' = InjectedPods(snap) /\ Executed' = Executed /\ SnapIds' = SnapIds
<1>1. \A id : HasJobs(id)' <=> HasJobs(id) BY DEF HasJobs
<1>2. InjectedPods(snap)' = InjectedPods(snap) /\ SnapIds' = SnapIds BY DEF SnapIds
<1>3. QED BY <1>1, <1>2 DEF Executed

LEMMA QuietStays ==
  ASSUME QuietLoss, UNCHANGED snap, \A id : Lost(id) => Lost(id)'
  PROVE  QuietLoss'
BY SnapStays DEF QuietLoss

\* Who was met stays excused, or lost, where pc, todo, failed and result stay.
LEMMA LossStays ==
  ASSUME LossIsSeen, UNCHANGED <<pc, snap, todo, failed, result>>, \A id : Lost(id) => Lost(id)'
  PROVE  LossIsSeen'
<1>1. InjectedPods(snap)' = InjectedPods(snap) OBVIOUS
<1>2. QED BY <1>1, QuietStays DEF LossIsSeen

\* The turn of a pod in the first two loops, and a shadow.
LEMMA HandledStep ==
  ASSUME IInv, NEW x \in todo, Handled(x), pc \notin {"effective", "baseline"}, failed' = failed,
         PodsInv', LostInv', \A id : Lost(id) => Lost(id)'
  PROVE  IInv'
<1>1. UNCHANGED <<pc, snap, src, tgt, nat, met, base, replaced, fault, result>> BY DEF Handled
<1>2. TypeOK' BY <1>1 DEF IInv, TypeOK
<1>3. LossIsSeen => LossIsSeen'
  <2>1. InjectedPods(snap)' = InjectedPods(snap) BY <1>1
  <2>2. QED BY <1>1, <2>1, QuietStays DEF LossIsSeen
<1>4. Arrivals' = Arrivals /\ SnapIds' = SnapIds BY <1>1, ArrivalsStay, SnapStays
<1>5. MetInv' BY <1>1, <1>3, <1>4 DEF IInv, MetInv
<1>6. ResultInv' BY <1>1 DEF IInv, ResultInv
<1>7. QED BY <1>2, <1>5, <1>6 DEF IInv

LEMMA RefuseStep ==
  ASSUME IInv, Refuse, pc \in Loops, fault' \in BOOLEAN
  PROVE  IInv'
<1>1. /\ pc' = "done" /\ result' = "refused"
      /\ UNCHANGED <<snap, src, tgt, nat, live, todo, met, base, failed, replaced>>
  BY DEF Refuse
<1>2. TypeOK'
  <2>1. {base', failed', fault'} \subseteq BOOLEAN BY <1>1 DEF IInv, TypeOK
  <2>2. QED BY <1>1, <2>1 DEF IInv, TypeOK
<1>3. PodsInv' /\ LostInv' BY <1>1, PodsStay DEF IInv
<1>4. MetInv'
  <2>1. LossIsSeen' BY <1>1 DEF LossIsSeen
  <2>2. Arrivals' = Arrivals /\ SnapIds' = SnapIds BY <1>1, ArrivalsStay, SnapStays
  <2>3. QED BY <1>1, <2>1, <2>2 DEF IInv, MetInv
<1>5. ResultInv' BY <1>1 DEF ResultInv
<1>6. QED BY <1>2, <1>3, <1>4, <1>5 DEF IInv

\* A connect ends at a pod of the snapshot, or while one of those is lost.
LEMMA ConnectStep == IInv /\ Connect => IInv'
<1> SUFFICES ASSUME IInv, Connect PROVE IInv' OBVIOUS
<1>1. /\ UNCHANGED <<pc, snap, src, tgt, nat, live, todo, base, failed, replaced, fault, result>>
      /\ pc = "effective"
  BY DEF Connect, Probing
<1>2. PICK q \in Reached(live, tgt) : met' = met \union {Arrived(tgt, q)} BY DEF Connect
<1>3. q \in live BY DEF Reached, Endpoints
<1>4. TypeOK' BY <1>1 DEF IInv, TypeOK
<1>5. PodsInv' /\ LostInv' /\ \A id : Lost(id) => Lost(id)' BY <1>1, PodsStay DEF IInv
<1>6. LossIsSeen => LossIsSeen' BY <1>1, <1>5, LossStays
<1>7. Arrivals' = Arrivals /\ SnapIds' = SnapIds BY <1>1, ArrivalsStay, SnapStays
<1>8. Arrived(tgt, q) \in Arrivals \/ (Arrived(tgt, q).pod \notin SnapIds /\ LossIsSeen)
  <2>1. CASE q.id \in SnapIds
    <3>1. PICK p \in Range(snap.pods) : Same(q, p) BY <1>3, <2>1 DEF IInv, PodsInv
    <3>2. p \in Reached(Range(snap.pods), tgt) BY <3>1, SameIsReached
    <3>3. Arrived(tgt, q) = Arrived(tgt, p) BY <3>1, SameArrives
    <3>4. QED BY <3>2, <3>3 DEF Arrivals
  <2>2. CASE q.id \notin SnapIds
    <3>1. \E id \in InjectedPods(snap) : Lost(id) BY <1>3, <2>2 DEF IInv, LostInv
    <3>2. LossIsSeen BY <1>1, <3>1 DEF LossIsSeen
    <3>3. QED BY <2>2, <3>2 DEF Arrived
  <2>3. QED BY <2>1, <2>2
<1>9. MetInv'
  <2>1. \A m \in met' : m \in Arrivals \/ (m.pod \notin SnapIds /\ LossIsSeen) BY <1>2, <1>8 DEF IInv, MetInv
  <2>2. QED BY <1>1, <1>6, <1>7, <2>1 DEF MetInv
<1>10. ResultInv' BY <1>1 DEF IInv, ResultInv
<1>11. QED BY <1>4, <1>5, <1>9, <1>10 DEF IInv

\* Steps that leave alone whatever the invariant is about.
LEMMA QuietStep ==
  ASSUME IInv, UNCHANGED <<pc, snap, src, tgt, nat, live, todo, met, failed, replaced, fault, result>>, base' \in BOOLEAN
  PROVE  IInv'
<1>1. TypeOK'
  <2>1. {base', failed', fault'} \subseteq BOOLEAN BY DEF IInv, TypeOK
  <2>2. QED BY <2>1 DEF IInv, TypeOK
<1>2. PodsInv' /\ LostInv' /\ \A id : Lost(id) => Lost(id)' BY PodsStay DEF IInv
<1>3. LossIsSeen => LossIsSeen' BY <1>2, LossStays
<1>4. Arrivals' = Arrivals /\ SnapIds' = SnapIds BY ArrivalsStay, SnapStays
<1>5. MetInv' /\ ResultInv' BY <1>3, <1>4 DEF IInv, MetInv, ResultInv
<1>6. QED BY <1>1, <1>2, <1>5 DEF IInv

\* The exec in the place of a lost pod fails.
LEMMA ExecStep ==
  ASSUME IInv, NEW x \in todo, EndExec(x)
  PROVE  IInv'
<1>1. /\ UNCHANGED <<pc, snap, src, tgt, nat, live, met, base, replaced, result>>
      /\ todo' = todo \ {x} /\ pc \in Rounds
  BY DEF EndExec
<1>2. PICK broken \in {FALSE, CanExec(x)} :
         /\ failed' = (failed \/ broken \/ ~CanExec(x))
         /\ fault' = (fault \/ broken)
  BY DEF EndExec
<1>3. TypeOK'
  <2>1. {base', failed', fault'} \subseteq BOOLEAN BY Zenon, <1>1, <1>2 DEF IInv, TypeOK
  <2>2. QED BY <1>1, <2>1 DEF IInv, TypeOK
<1>4. PodsInv' /\ LostInv' /\ \A id : Lost(id) => Lost(id)' BY <1>1, PodsStay DEF IInv
<1>5. Arrivals' = Arrivals /\ SnapIds' = SnapIds BY <1>1, ArrivalsStay, SnapStays
<1>6. LossIsSeen => LossIsSeen'
  <2> SUFFICES ASSUME LossIsSeen, ~failed' PROVE LossIsSeen' BY DEF LossIsSeen
  <2>1. ~failed /\ CanExec(x) BY <1>2
  <2>2. pc \notin {"done"} BY <1>1 DEF Rounds
  <2>0. CASE QuietLoss BY <1>1, <1>4, <2>0, QuietStays DEF LossIsSeen
  <2> SUFFICES ASSUME ~QuietLoss PROVE LossIsSeen' BY <2>0
  <2>3. PICK id \in InjectedPods(snap) : Lost(id) /\ (pc = "baseline" => id \in todo)
    BY <2>1, <2>2 DEF LossIsSeen
  <2>4. id # x BY <2>1, <2>3, LostCannotExec DEF IInv
  <2>5. id \in InjectedPods(snap)' /\ Lost(id)' /\ (pc' = "baseline" => id \in todo')
    BY <1>1, <1>4, <2>3, <2>4
  <2>6. pc' \in {"effective", "shadows", "baseline"} BY <1>1 DEF Rounds
  <2>7. QED BY <2>5, <2>6 DEF LossIsSeen
<1>7. MetInv' BY <1>1, <1>5, <1>6 DEF IInv, MetInv
<1>8. ResultInv' BY <1>1, <1>2 DEF IInv, ResultInv, Rounds
<1>9. QED BY <1>3, <1>4, <1>7, <1>8 DEF IInv

\* The baseline begins with all of its execs to come, and ends with none.
LEMMA LoopStep == IInv /\ EndLoop => IInv'
<1> SUFFICES ASSUME IInv, EndLoop PROVE IInv' OBVIOUS
<1>1. /\ UNCHANGED <<snap, src, tgt, nat, live, met, base, failed, replaced, fault, result>>
      /\ pc \in Loops /\ todo = {}
      /\ pc' = CASE pc = "inject" -> "wait" [] pc = "wait" -> "effective"
                 [] pc = "effective" -> "shadows" [] pc = "shadows" -> "baseline"
                 [] OTHER -> "finish"
      /\ todo' = IF pc' = "finish" THEN {} ELSE Work(pc')
  BY DEF EndLoop
<1>2. \/ pc = "inject" /\ pc' = "wait"
      \/ pc = "wait" /\ pc' = "effective"
      \/ pc = "effective" /\ pc' = "shadows"
      \/ pc = "shadows" /\ pc' = "baseline"
      \/ pc = "baseline" /\ pc' = "finish"
  BY <1>1 DEF Loops
<1>3. TypeOK' BY <1>1, <1>2 DEF IInv, TypeOK, Loops
<1>4. PodsInv' /\ LostInv' /\ \A id : Lost(id) => Lost(id)' BY <1>1, PodsStay DEF IInv
<1>5. Arrivals' = Arrivals /\ SnapIds' = SnapIds BY <1>1, ArrivalsStay, SnapStays
<1>6. InjectedPods(snap)' = InjectedPods(snap) BY <1>1
<1>7. pc' = "baseline" => Executed \subseteq todo'
  <2>1. Executed' = Executed BY <1>1, SnapStays
  <2>2. QED BY <1>1, <2>1 DEF Work, Rounds
<1>8. LossIsSeen => LossIsSeen'
  <2> SUFFICES ASSUME LossIsSeen, ~failed, ~QuietLoss PROVE LossIsSeen' BY <1>1, <1>4, QuietStays DEF LossIsSeen
  <2>1. /\ pc \in {"effective", "shadows", "baseline"}
        /\ \E id \in InjectedPods(snap) : Lost(id) /\ (pc = "baseline" => id \in todo)
    BY <1>1 DEF LossIsSeen, Loops
  <2>2. PICK id \in Executed : Lost(id) /\ (pc = "baseline" => id \in todo) BY <2>1 DEF QuietLoss
  <2>3. pc' \in {"effective", "shadows", "baseline"} BY <1>1, <1>2, <2>1, <2>2
  <2>4. id \in InjectedPods(snap)' /\ Lost(id)' /\ (pc' = "baseline" => id \in todo')
    BY <1>4, <1>6, <1>7, <2>2 DEF Executed
  <2>5. QED BY <2>3, <2>4 DEF LossIsSeen
<1>9. MetInv' BY <1>1, <1>2, <1>5, <1>8 DEF IInv, MetInv
<1>10. ResultInv' BY <1>2 DEF ResultInv
<1>11. QED BY <1>3, <1>4, <1>9, <1>10 DEF IInv

LEMMA FinishStep == IInv /\ Finish => IInv'
<1> SUFFICES ASSUME IInv, Finish PROVE IInv' OBVIOUS
<1>1. /\ UNCHANGED <<snap, src, tgt, nat, live, todo, met, base, failed, replaced, fault>>
      /\ pc = "finish" /\ pc' = "done" /\ result' = IF failed THEN "refused" ELSE "written"
  BY DEF Finish
<1>2. TypeOK' BY <1>1 DEF IInv, TypeOK
<1>3. PodsInv' /\ LostInv' BY <1>1, PodsStay DEF IInv
<1>4. Arrivals' = Arrivals /\ SnapIds' = SnapIds BY <1>1, ArrivalsStay, SnapStays
<1>5. LossIsSeen => LossIsSeen'
  <2>1. \A id : Lost(id) => Lost(id)' BY <1>1, PodsStay DEF IInv
  <2>2. QED BY <1>1, <2>1, QuietStays DEF LossIsSeen
<1>6. MetInv' BY <1>1, <1>4, <1>5 DEF IInv, MetInv
<1>7. ResultInv' BY <1>1 DEF ResultInv
<1>8. QED BY <1>2, <1>3, <1>6, <1>7 DEF IInv

LEMMA ReplaceStep ==
  ASSUME IInv, NEW p \in live, Replace(p)
  PROVE  IInv'
<1>1. /\ UNCHANGED <<pc, snap, src, tgt, nat, todo, met, base, failed, fault, result>>
      /\ replaced' = replaced + 1 /\ replaced < Len(Fresh)
  BY DEF Replace
<1>2. TypeOK'
  <2>1. Len(Fresh) \in Nat /\ replaced \in Nat BY FreshAssumption DEF IInv, TypeOK
  <2>2. replaced' \in 0 .. Len(Fresh) BY <1>1, <2>1
  <2>3. QED BY <1>1, <2>2 DEF IInv, TypeOK
<1>3. PodsInv' /\ LostInv' /\ \A id : Lost(id) => Lost(id)' BY PodsReplaced
<1>4. LossIsSeen => LossIsSeen' BY <1>1, <1>3, LossStays
<1>5. Arrivals' = Arrivals /\ SnapIds' = SnapIds BY <1>1, ArrivalsStay, SnapStays
<1>6. MetInv' /\ ResultInv' BY <1>1, <1>4, <1>5 DEF IInv, MetInv, ResultInv
<1>7. QED BY <1>2, <1>3, <1>6 DEF IInv

LEMMA NextInv == IInv /\ [Next]_vars => IInv'
<1> SUFFICES ASSUME IInv, [Next]_vars PROVE IInv' OBVIOUS
<1>1. ASSUME NEW x \in todo, InjectRefused(x) PROVE IInv'
  <2>1. Refuse /\ pc \in Loops /\ fault' = fault BY <1>1 DEF InjectRefused, Loops
  <2>2. QED BY <2>1, RefuseStep DEF IInv, TypeOK
<1>3. ASSUME NEW x \in todo, InjectNew(x) PROVE IInv'
  <2>1. Handled(x) /\ UNCHANGED failed /\ pc = "inject" /\ UNCHANGED snap BY <1>3 DEF InjectNew, Handled
  <2>2. PICK q \in Named(x) :
           /\ q.id \in DOMAIN ports
           /\ live' = (live \ {q}) \union
                    {[q EXCEPT !.probe = ports[q.id], !.up = Serving(Beside(q), ports[q.id]) = {}]}
    BY <1>3 DEF InjectNew
  <2>3. q \in live /\ \E port, up : live' = (live \ {q}) \union {[q EXCEPT !.probe = port, !.up = up]}
    BY <2>2 DEF Named
  <2>4. PodsInv' /\ LostInv' /\ \A id : Lost(id) => Lost(id)' BY <2>1, <2>2, <2>3, PodsInjected DEF IInv
  <2>5. QED BY <2>1, <2>4, HandledStep
<1>4. ASSUME NEW x \in todo, WaitRunning(x) PROVE IInv'
  <2>1. Handled(x) /\ UNCHANGED <<live, failed>> /\ pc = "wait" /\ UNCHANGED snap
    BY <1>4 DEF WaitRunning, Handled
  <2>2. QED BY <2>1, PodsStay, HandledStep DEF IInv
<1>5. ASSUME NEW x \in todo, WaitRefused(x) PROVE IInv'
  <2>1. Refuse /\ pc \in Loops /\ fault' = fault BY <1>5 DEF WaitRefused, Loops
  <2>2. QED BY <2>1, RefuseStep DEF IInv, TypeOK
<1>6. ASSUME NEW x \in todo, EndExec(x) PROVE IInv' BY <1>6, ExecStep
<1>7. ASSUME NEW x \in todo, CreateShadow(x) PROVE IInv'
  <2>1. pc = "shadows" BY <1>7 DEF CreateShadow
  <2>2. CASE Refuse /\ UNCHANGED fault BY <2>1, <2>2, RefuseStep DEF IInv, TypeOK, Loops
  <2>3. CASE Handled(x) /\ UNCHANGED <<live, failed>>
    <3>1. UNCHANGED snap BY <2>3 DEF Handled
    <3>2. QED BY <2>1, <2>3, <3>1, PodsStay, HandledStep DEF IInv
  <2>4. QED BY <1>7, <2>2, <2>3 DEF CreateShadow
<1>8. CASE Connect BY <1>8, ConnectStep
<1>9. CASE ConnectBaseline BY <1>9, QuietStep DEF ConnectBaseline
<1>10. CASE Ask
  <2>1. UNCHANGED <<pc, snap, src, tgt, nat, live, todo, met, failed, replaced, fault, result, base>>
    BY <1>10 DEF Ask
  <2>2. QED BY <2>1, QuietStep DEF IInv, TypeOK
<1>11. CASE EndLoop BY <1>11, LoopStep
<1>12. CASE Finish BY <1>12, FinishStep
<1>13. CASE CallFails
  <2>1. Refuse /\ pc \in Loops /\ fault' = TRUE BY <1>13 DEF CallFails, Loops
  <2>2. QED BY <2>1, RefuseStep
<1>14. ASSUME NEW p \in live, Replace(p) PROVE IInv' BY <1>14, ReplaceStep
<1>15. CASE UNCHANGED vars
  <2>1. UNCHANGED <<pc, snap, src, tgt, nat, live, todo, met, failed, replaced, fault, result, base>>
    BY <1>15 DEF vars
  <2>2. QED BY <2>1, QuietStep DEF IInv, TypeOK
<1>16. QED
  BY <1>1, <1>3, <1>4, <1>5, <1>6, <1>7, <1>8, <1>9, <1>10, <1>11, <1>12, <1>13, <1>14, <1>15 DEF Next

\* The inductive invariant holds of every run.
THEOREM Invariant == Spec => []IInv
<1>1. QED BY InitInv, NextInv, PTL DEF Spec

-----------------------------------------------------------------------------
(* What answers and what makes a run stop: a second invariant, on the first.  *)
(* Whatever is up serves its own pod's port, which no container of an earlier *)
(* run serves in its network; once a pod was waited for, none in its network  *)
(* does, whether the pod stays or not.  While nothing is replaced, no call    *)
(* fails and no port is taken, the pods are those of the snapshot, and each   *)
(* that had its turn has a container that is up.                              *)

PairInv == tgt \in BuildTargets(snap) /\ src \in BuildSources(snap) /\ Applicable(src, tgt)

TurnInv == pc \in {"inject", "wait"} => todo \subseteq InjectedPods(snap)

UpInv ==
  /\ \A q \in live : q.up => q.id \in SnapIds /\ IsScenarioPod(q) /\ q.probe = ports[q.id]
  /\ \A q \in live : q.up => \A p \in Beside(q) : ports[q.id] \notin p.old
  /\ pc = "inject" => \A q \in live : q.id \in todo => ~q.up

\* No container of an earlier run serves the port of a pod in its network.
Free(p) ==
  \A q \in live :
     q.id = p.id \/ (p.hostNetwork /\ q.hostNetwork /\ p.node = q.node) => ports[p.id] \notin q.old

FreeInv ==
  /\ pc = "wait" => \A p \in ScenarioPods(snap) : p.id \in todo \/ Free(p)
  /\ pc \in {"effective", "shadows", "baseline"} => \A p \in ScenarioPods(snap) : Free(p)

\* The pods of the snapshot that may answer.
Answers(p) ==
  \/ tgt.kind = "pod-ip" /\ ~p.hostNetwork /\ p.ip = tgt.addr[1]
  \/ tgt.kind = "hostnetwork" /\ p.hostNetwork /\ p.id = tgt.owner
  \/ IsService(tgt) /\ p \in Endpoints(Range(snap.pods), ShadowTarget(tgt), FALSE)

Answering == {Arrived(ShadowTarget(tgt), p) : p \in {o \in ScenarioPods(snap) : Answers(o)}}

AnswersInv == answers \subseteq Answering

Calm == replaced = 0 /\ ~fault /\ ~PortTaken /\ OwnShadowNames

Probed(id) == \E q \in live : q.id = id /\ q.probe # 0

CalmPods ==
  /\ \A p \in Range(snap.pods) : \E q \in live : Same(q, p)
  /\ \A q \in live : q.id \in SnapIds
  /\ \A q \in live : IsScenarioPod(q) /\ q.probe # 0 => q.up

CalmWork ==
  /\ pc \in {"inject", "wait"} => todo \subseteq InjectedPods(snap)
  /\ \A id \in InjectedPods(snap) : (pc = "inject" /\ id \in todo) \/ Probed(id)
  /\ pc \in {"inject", "wait", "effective"} => created = {}
  /\ pc = "shadows" => todo \subseteq Targeted(snap) \ created
  /\ created \subseteq Targeted(snap)

CalmInv == Calm => ~failed /\ result # "refused" /\ CalmPods /\ CalmWork

JInv == IInv /\ PairInv /\ TurnInv /\ UpInv /\ FreeInv /\ AnswersInv /\ CalmInv

\* No step changes the pair, the snapshot or the network.
LEMMA PairStays ==
  ASSUME [Next]_vars
  PROVE  UNCHANGED <<snap, src, tgt, nat>>
<1>1. ASSUME NEW x \in todo, InjectRefused(x) \/ InjectNew(x) \/ WaitRunning(x)
                             \/ WaitRefused(x) \/ EndExec(x) \/ CreateShadow(x)
      PROVE  UNCHANGED <<snap, src, tgt, nat>>
  BY <1>1 DEF InjectRefused, InjectNew, WaitRunning, WaitRefused, EndExec, CreateShadow,
              Refuse, Handled
<1>2. CASE Connect \/ ConnectBaseline \/ Ask \/ EndLoop \/ Finish \/ CallFails
  BY <1>2 DEF Connect, ConnectBaseline, Ask, EndLoop, Finish, CallFails, Refuse
<1>3. ASSUME NEW p \in live, Replace(p) PROVE UNCHANGED <<snap, src, tgt, nat>> BY <1>3 DEF Replace
<1>4. CASE UNCHANGED vars BY <1>4 DEF vars
<1>5. QED BY <1>1, <1>2, <1>3, <1>4 DEF Next

LEMMA SnapshotStays ==
  ASSUME UNCHANGED <<snap, src, tgt, nat>>
  PROVE  /\ SnapIds' = SnapIds /\ ports' = ports /\ Range(snap.pods)' = Range(snap.pods)
         /\ InjectedPods(snap)' = InjectedPods(snap) /\ Targeted(snap)' = Targeted(snap)
         /\ (PortTaken' <=> PortTaken) /\ ScenarioPods(snap)' = ScenarioPods(snap)
         /\ (OwnShadowNames' <=> OwnShadowNames)
         /\ Answering' = Answering
<1>1. SnapIds' = SnapIds /\ ports' = ports BY DEF SnapIds, ports
<1>2. PortTaken' <=> PortTaken BY <1>1 DEF PortTaken
<1>3. OwnShadowNames' <=> OwnShadowNames BY DEF OwnShadowNames
<1>4. \A p : Answers(p)' <=> Answers(p) BY DEF Answers, Endpoints
<1>5. \A p : Arrived(ShadowTarget(tgt), p)' = Arrived(ShadowTarget(tgt), p) BY DEF Arrived, From, Address
<1>6. Answering' = Answering BY <1>4, <1>5 DEF Answering
<1>7. QED BY <1>1, <1>2, <1>3, <1>6

\* What a pod that has a port is in the snapshot.
LEMMA PodWithPort ==
  ASSUME PodsInv, NEW q \in live, q.id \in DOMAIN ports
  PROVE  /\ q.id \in SnapIds /\ IsScenarioPod(q)
         /\ \E p \in ScenarioPods(snap) : Same(q, p)
<1>1. PICK o \in ScenarioPods(snap) : o.id = q.id BY DEF ports, identityPorts, InjectedPods
<1>2. o \in Range(snap.pods) /\ IsScenarioPod(o) BY DEF ScenarioPods
<1>3. q.id \in SnapIds BY <1>1, <1>2 DEF SnapIds
<1>4. PICK p \in Range(snap.pods) : Same(q, p) BY <1>3 DEF PodsInv
<1>5. p = o BY <1>1, <1>2, <1>4, SameFields, PodsOfSnapshot DEF PodsInv
<1>6. QED BY <1>2, <1>3, <1>4, <1>5, SameFields DEF IsScenarioPod

\* A container that is up, or of an earlier run, is in a pod of the snapshot.
LEMMA UpIsOfSnapshot ==
  ASSUME PodsInv, UpInv, NEW q \in live, q.up \/ q.old # {}
  PROVE  \E p \in ScenarioPods(snap) : Same(q, p)
<1>1. q.id \in SnapIds BY DEF UpInv, PodsInv
<1>2. PICK p \in Range(snap.pods) : Same(q, p) BY <1>1 DEF PodsInv
<1>3. IsScenarioPod(p)
  <2>1. CASE q.up BY <1>2, <2>1, SameFields DEF UpInv, IsScenarioPod
  <2>2. CASE q.old # {} BY <1>2, <2>2, SameFields, ContainersAssumption DEF PodsInv
  <2>3. QED BY <2>1, <2>2
<1>4. QED BY <1>2, <1>3 DEF ScenarioPods

\* Where nothing of an earlier run is in its way, a hostNetwork pod serves alone
\* on its port of the node.
LEMMA UpAlone ==
  ASSUME PodsInv, UpInv, NEW p \in ScenarioPods(snap), Free(p), p.hostNetwork,
         NEW q \in Serving(live, ports[p.id]), q.hostNetwork, q.node = p.node
  PROVE  q.id = p.id
<1>1. q \in live /\ q.up /\ q.probe = ports[p.id] BY DEF Serving, Free
<1>2. PICK o \in ScenarioPods(snap) : Same(q, o) BY <1>1, UpIsOfSnapshot
<1>3. o.hostNetwork /\ o.id = q.id BY <1>2, SameFields
<1>4. ports[o.id] = ports[p.id] BY <1>1, <1>3 DEF UpInv
<1>5. QED BY <1>3, <1>4, PortsDiffer DEF PodsInv

\* How InjectNew and Replace change the pods, as in PodsInjected and PodsReplaced.
LEMMA Injected ==
  ASSUME PodsInv, NEW x, InjectNew(x)
  PROVE  \E q, new :
            /\ q \in Named(x) /\ q \in live /\ q.id \in DOMAIN ports
            /\ live' = (live \ {q}) \union {new} /\ Same(new, q) /\ new.probe = ports[q.id]
            /\ (new.up <=> Serving(Beside(q), ports[q.id]) = {})
<1>1. PICK q \in Named(x) :
         /\ q.id \in DOMAIN ports
         /\ live' = (live \ {q}) \union
                {[q EXCEPT !.probe = ports[q.id], !.up = Serving(Beside(q), ports[q.id]) = {}]}
  BY DEF InjectNew
<1> DEFINE new == [q EXCEPT !.probe = ports[q.id], !.up = Serving(Beside(q), ports[q.id]) = {}]
<1>2. q \in Named(x) /\ q \in live BY DEF Named
<1>3. PodFields \subseteq DOMAIN q BY <1>2 DEF PodsInv
<1>4. DOMAIN new = DOMAIN q /\ \A f \in DOMAIN q \ {"probe", "up"} : new[f] = q[f] BY Zenon
<1>5. Same(new, q) BY <1>3, <1>4 DEF Same
<1>6. new.probe = ports[q.id] /\ new.up = (Serving(Beside(q), ports[q.id]) = {}) BY <1>3 DEF PodFields
<1>7. live' = (live \ {q}) \union {new} BY <1>1
<1> HIDE DEF new
<1>8. /\ q \in Named(x) /\ q \in live /\ q.id \in DOMAIN ports
      /\ live' = (live \ {q}) \union {new} /\ Same(new, q) /\ new.probe = ports[q.id]
      /\ (new.up <=> Serving(Beside(q), ports[q.id]) = {})
  BY <1>1, <1>2, <1>5, <1>6, <1>7
<1>9. QED BY <1>8, Zenon

LEMMA Replaced ==
  ASSUME PodsInv, NEW p \in live, Replace(p)
  PROVE  \E new : live' = (live \ {p}) \union {new} /\ ~new.up /\ new.old = {}
<1>1. PICK name \in {p.name, Fresh[replaced + 1]}, node \in Range(snap.nodes), ip \in {p.ip} \union SpareIPs :
          live' = (live \ {p}) \union
                {[p EXCEPT !.id = Fresh[replaced + 1], !.name = name, !.node = node, !.old = {},
                           !.probe = 0, !.up = FALSE, !.ip = IF p.hostNetwork THEN node ELSE ip]}
  BY DEF Replace
<1> DEFINE new == [p EXCEPT !.id = Fresh[replaced + 1], !.name = name, !.node = node, !.old = {},
                            !.probe = 0, !.up = FALSE, !.ip = IF p.hostNetwork THEN node ELSE ip]
<1>2. PodFields \subseteq DOMAIN p BY DEF PodsInv
<1>3. new.up = FALSE /\ new.old = {} BY <1>2 DEF PodFields
<1>4. live' = (live \ {p}) \union {new} BY <1>1
<1> HIDE DEF new
<1>5. QED BY <1>3, <1>4

\* Which steps change the pods.
LEMMA LiveStep ==
  ASSUME [Next]_vars
  PROVE  UNCHANGED live \/ (\E x \in todo : InjectNew(x)) \/ (\E p \in live : Replace(p))
<1>1. ASSUME NEW x \in todo, InjectRefused(x) \/ WaitRunning(x)
                             \/ WaitRefused(x) \/ EndExec(x) \/ CreateShadow(x)
      PROVE  UNCHANGED live
  BY <1>1 DEF InjectRefused, WaitRunning, WaitRefused, EndExec, CreateShadow, Refuse
<1>2. CASE Connect \/ ConnectBaseline \/ Ask \/ EndLoop \/ Finish \/ CallFails
  BY <1>2 DEF Connect, ConnectBaseline, Ask, EndLoop, Finish, CallFails, Refuse
<1>3. CASE UNCHANGED vars BY <1>3 DEF vars
<1>4. QED BY <1>1, <1>2, <1>3 DEF Next

\* Which steps go on in a loop, and to the next one.
LEMMA TodoStep ==
  ASSUME [Next]_vars
  PROVE  \/ UNCHANGED <<pc, todo>>
         \/ pc' = "done"
         \/ EndLoop
         \/ \E x \in todo : /\ pc' = pc /\ todo' = todo \ {x}
                            /\ pc = "wait" => WaitRunning(x)
                            /\ pc = "inject" => InjectNew(x)
<1> DEFINE Goes(x) == /\ pc' = pc /\ todo' = todo \ {x}
                      /\ pc = "wait" => WaitRunning(x)
                      /\ pc = "inject" => InjectNew(x)
<1>1. ASSUME NEW x \in todo, InjectRefused(x) \/ WaitRefused(x) PROVE pc' = "done"
  BY <1>1 DEF InjectRefused, WaitRefused, Refuse
<1>2. ASSUME NEW x \in todo, InjectNew(x) PROVE Goes(x) BY <1>2 DEF InjectNew, Handled
<1>3. ASSUME NEW x \in todo, WaitRunning(x) PROVE Goes(x) BY <1>3 DEF WaitRunning, Handled
<1>4. ASSUME NEW x \in todo, EndExec(x) PROVE Goes(x) BY <1>4 DEF EndExec, Rounds
<1>5. ASSUME NEW x \in todo, CreateShadow(x) PROVE pc' = "done" \/ Goes(x)
  BY <1>5 DEF CreateShadow, Refuse, Handled
<1>6. CASE Finish \/ CallFails BY <1>6 DEF Finish, CallFails, Refuse
<1>7. CASE Connect \/ ConnectBaseline \/ Ask \/ UNCHANGED vars
  BY <1>7 DEF Connect, ConnectBaseline, Ask, vars
<1>8. ASSUME NEW p \in live, Replace(p) PROVE UNCHANGED <<pc, todo>> BY <1>8 DEF Replace
<1>9. QED BY <1>1, <1>2, <1>3, <1>4, <1>5, <1>6, <1>7, <1>8 DEF Next

\* The loops follow each other.
LEMMA NextLoop ==
  ASSUME EndLoop
  PROVE  /\ todo = {} /\ live' = live
         /\ \/ pc = "inject" /\ pc' = "wait" /\ todo' = InjectedPods(snap)'
            \/ pc = "wait" /\ pc' = "effective"
            \/ pc = "effective" /\ pc' = "shadows"
            \/ pc = "shadows" /\ pc' = "baseline"
            \/ pc = "baseline" /\ pc' = "finish"
<1>1. /\ pc' = CASE pc = "inject" -> "wait" [] pc = "wait" -> "effective"
                 [] pc = "effective" -> "shadows" [] pc = "shadows" -> "baseline"
                 [] OTHER -> "finish"
      /\ todo' = IF pc' = "finish" THEN {} ELSE Work(pc')
      /\ pc \in Loops /\ todo = {} /\ UNCHANGED <<live, snap>>
  BY DEF EndLoop
<1>2. pc' = "wait" => todo' = InjectedPods(snap)' BY <1>1 DEF Work, Rounds
<1>3. QED BY <1>1, <1>2 DEF Loops

LEMMA TurnStep == TurnInv /\ [Next]_vars => TurnInv'
<1> SUFFICES ASSUME TurnInv, [Next]_vars PROVE TurnInv' OBVIOUS
<1>1. InjectedPods(snap)' = InjectedPods(snap) BY PairStays
<1>2. CASE EndLoop BY <1>2, NextLoop DEF TurnInv
<1>3. CASE ~EndLoop BY <1>1, <1>3, TodoStep DEF TurnInv
<1>4. QED BY <1>2, <1>3

\* Whose turn it is, in the snapshot and among the pods.
LEMMA TurnIs ==
  ASSUME PodsInv, TurnInv, pc \in {"inject", "wait"}, NEW x \in todo, NEW q \in Named(x), q.id \in SnapIds
  PROVE  q.id = x
BY NamedIsOld DEF TurnInv

LEMMA UpStep == IInv /\ TurnInv /\ UpInv /\ [Next]_vars => UpInv'
<1> SUFFICES ASSUME IInv, TurnInv, UpInv, [Next]_vars PROVE UpInv' OBVIOUS
<1>1. UNCHANGED <<snap, src, tgt, nat>> BY PairStays
<1>2. ports' = ports /\ SnapIds' = SnapIds BY <1>1, SnapshotStays
<1>3. PodsInv BY DEF IInv
<1>4. CASE UNCHANGED live
  <2>1. \A q : Beside(q)' = Beside(q) BY <1>4 DEF Beside
  <2>2. pc' = "inject" => pc = "inject" /\ todo' \subseteq todo BY TodoStep, NextLoop
  <2>3. QED BY <1>2, <1>4, <2>1, <2>2 DEF UpInv
<1>5. ASSUME NEW x \in todo, InjectNew(x) PROVE UpInv'
  <2>1. PICK q, new :
            /\ q \in Named(x) /\ q \in live /\ q.id \in DOMAIN ports
            /\ live' = (live \ {q}) \union {new} /\ Same(new, q) /\ new.probe = ports[q.id]
            /\ (new.up <=> Serving(Beside(q), ports[q.id]) = {})
    BY <1>3, <1>5, Injected
  <2>2. IsScenarioPod(new) /\ new.id = q.id /\ q.id \in SnapIds
    BY <1>3, <2>1, PodWithPort, SameFields DEF IsScenarioPod
  <2>3. new.hostNetwork = q.hostNetwork /\ new.node = q.node /\ new.old = q.old BY <2>1, SameFields
  <2>4. pc = "inject" /\ pc' = pc /\ todo' = todo \ {x} BY <1>5 DEF InjectNew, Handled
  <2>5. q.id = x BY <1>3, <2>1, <2>2, <2>4, TurnIs
  <2>6. \A r \in live' : r.up => r.id \in SnapIds /\ IsScenarioPod(r) /\ r.probe = ports[r.id]
    BY <2>1, <2>2 DEF UpInv
  <2>7. ASSUME NEW r \in live', r.up, NEW p \in Beside(r)' PROVE ports[r.id] \notin p.old
    <3>1. p \in live' /\ (p.id = r.id \/ (r.hostNetwork /\ p.hostNetwork /\ p.node = r.node))
      BY <2>7 DEF Beside
    <3>2. PICK r0 \in live : /\ r0.id = r.id /\ r0.hostNetwork = r.hostNetwork /\ r0.node = r.node
                             /\ r = new => r0 = q
                             /\ r # new => r0 = r
      BY <2>1, <2>2, <2>3
    <3>3. PICK p0 \in live : p0.id = p.id /\ p0.hostNetwork = p.hostNetwork /\ p0.node = p.node /\ p0.old = p.old
      BY <2>1, <2>2, <2>3, <3>1
    <3>4. p0 \in Beside(r0) BY <3>1, <3>2, <3>3 DEF Beside
    <3>5. CASE r = new
      <4>1. p0 \notin Serving(Beside(q), ports[q.id]) BY <2>1, <2>7, <3>5
      <4>2. ports[q.id] \notin p0.old BY <3>2, <3>4, <3>5, <4>1 DEF Serving
      <4>3. QED BY <3>2, <3>3, <3>5, <4>2
    <3>6. CASE r # new BY <2>7, <3>2, <3>3, <3>4, <3>6 DEF UpInv
    <3>7. QED BY <3>5, <3>6
  <2>8. \A r \in live' : r.id \in todo' => ~r.up BY <2>1, <2>2, <2>4, <2>5 DEF UpInv
  <2>9. QED BY <1>2, <2>6, <2>7, <2>8 DEF UpInv
<1>6. ASSUME NEW p \in live, Replace(p) PROVE UpInv'
  <2>1. PICK new : live' = (live \ {p}) \union {new} /\ ~new.up /\ new.old = {} BY <1>3, <1>6, Replaced
  <2>2. UNCHANGED <<pc, todo>> BY <1>6 DEF Replace
  <2>3. \A r \in live' : r.up => r \in live BY <2>1
  <2>4. \A r : \A q \in Beside(r)' : q \in Beside(r) \/ q.old = {} BY <2>1 DEF Beside
  <2>5. QED BY <1>2, <2>2, <2>3, <2>4 DEF UpInv
<1>7. QED BY <1>4, <1>5, <1>6, LiveStep

\* No step adds a container of an earlier run.
LEMMA FreeStays ==
  ASSUME PodsInv, [Next]_vars, NEW p, Free(p)
  PROVE  Free(p)'
<1>1. ports' = ports BY PairStays, SnapshotStays
<1>2. CASE UNCHANGED live BY <1>1, <1>2 DEF Free
<1>3. ASSUME NEW x \in todo, InjectNew(x) PROVE Free(p)'
  <2>1. PICK q, new : q \in live /\ live' = (live \ {q}) \union {new} /\ Same(new, q) BY <1>3, Injected
  <2>2. new.id = q.id /\ new.hostNetwork = q.hostNetwork /\ new.node = q.node /\ new.old = q.old
    BY <2>1, SameFields
  <2>3. QED BY <1>1, <2>1, <2>2 DEF Free
<1>4. ASSUME NEW r \in live, Replace(r) PROVE Free(p)'
  <2>1. PICK new : live' = (live \ {r}) \union {new} /\ new.old = {} BY <1>4, Replaced
  <2>2. QED BY <1>1, <2>1 DEF Free
<1>5. QED BY <1>2, <1>3, <1>4, LiveStep

\* A pod in whose new container an exec is possible has its port for itself.
LEMMA WaitedIsFree ==
  ASSUME PodsInv, TurnInv, UpInv, NEW p \in ScenarioPods(snap), p.id \in todo, WaitRunning(p.id)
  PROVE  Free(p)
<1>1. pc = "wait" /\ CanExec(p.id) /\ p.id \in InjectedPods(snap) BY DEF WaitRunning, InjectedPods
<1>2. PICK q \in Named(p.id) : q.probe # 0 /\ q.up BY <1>1 DEF CanExec
<1>3. q \in live /\ q.id \in SnapIds BY <1>2 DEF Named, UpInv
<1>4. q.id = p.id BY <1>1, <1>3, TurnIs
<1>5. PICK o \in ScenarioPods(snap) : Same(q, o) BY <1>2, <1>3, UpIsOfSnapshot
<1>6. o = p BY <1>4, <1>5, SameFields, PodsOfSnapshot DEF PodsInv, ScenarioPods
<1>7. q.hostNetwork = p.hostNetwork /\ q.node = p.node BY <1>5, <1>6, SameFields
<1>8. \A r \in Beside(q) : ports[p.id] \notin r.old BY <1>2, <1>3, <1>4 DEF UpInv
<1>9. QED BY <1>4, <1>7, <1>8 DEF Beside, Free

LEMMA FreeStep == IInv /\ TurnInv /\ UpInv /\ FreeInv /\ [Next]_vars => FreeInv'
<1> SUFFICES ASSUME IInv, TurnInv, UpInv, FreeInv, [Next]_vars PROVE FreeInv' OBVIOUS
<1>1. PodsInv BY DEF IInv
<1>2. ScenarioPods(snap)' = ScenarioPods(snap) BY PairStays, SnapshotStays
<1>3. \A p : Free(p) => Free(p)' BY <1>1, FreeStays
<1>4. CASE EndLoop
  <2>1. pc' = "wait" => \A p \in ScenarioPods(snap)' : p.id \in todo'
    <3>1. \A p \in ScenarioPods(snap)' : p.id \in InjectedPods(snap)' BY DEF InjectedPods
    <3>2. QED BY <1>4, <3>1, NextLoop
  <2>2. pc' \in {"effective", "shadows", "baseline"} => \A p \in ScenarioPods(snap) : Free(p)
    BY <1>4, NextLoop DEF FreeInv
  <2>3. QED BY <1>2, <1>3, <2>1, <2>2 DEF FreeInv
<1>5. CASE pc' = "done" BY <1>5 DEF FreeInv
<1>6. CASE UNCHANGED <<pc, todo>> BY <1>2, <1>3, <1>6 DEF FreeInv
<1>7. ASSUME NEW x \in todo, pc' = pc, todo' = todo \ {x}, pc = "wait" => WaitRunning(x)
      PROVE  FreeInv'
  <2>1. \A p \in ScenarioPods(snap) : pc = "wait" /\ p.id = x => Free(p) BY <1>1, <1>7, WaitedIsFree
  <2>2. QED BY <1>2, <1>3, <1>7, <2>1 DEF FreeInv
<1>8. QED BY <1>4, <1>5, <1>6, <1>7, TodoStep

\* Whoever is asked and answers is, but for its probe container, a pod of the
\* snapshot that may answer.
LEMMA AskedMayAnswer ==
  ASSUME PodsInv, PairInv, UpInv, FreeInv, pc = "baseline", NEW q \in Asked
  PROVE  \E p \in ScenarioPods(snap) : Same(q, p) /\ Answers(p)
<1>1. snap \in Filtered /\ tgt \in BuildTargets(snap) BY DEF PodsInv, PairInv
<1>2. CASE IsService(tgt)
  <2>1. q \in Serving(Endpoints(live, ShadowTarget(tgt), FALSE), identityPort)
    BY <1>2 DEF Asked, IsService
  <2>2. q \in Endpoints(live, ShadowTarget(tgt), FALSE) /\ (q.up \/ q.old # {}) BY <2>1 DEF Serving
  <2>3. q \in live BY <2>2 DEF Endpoints
  <2>4. PICK p \in ScenarioPods(snap) : Same(q, p) BY <2>2, <2>3, UpIsOfSnapshot
  <2> DEFINE svc == CHOOSE v \in Range(snap.services) : <<v.ns, v.name>> = ShadowTarget(tgt).service
  <2>5. /\ q.ns = svc.ns /\ q.app = svc.app /\ q.running
        /\ (ShadowTarget(tgt).local /\ src.kind = "external") => q.node = ShadowTarget(tgt).node
    BY <2>2 DEF Endpoints
  <2> HIDE DEF svc
  <2>6. /\ p.ns = svc.ns /\ p.app = svc.app /\ p.running
        /\ (ShadowTarget(tgt).local /\ src.kind = "external") => p.node = ShadowTarget(tgt).node
    BY <2>4, <2>5, SameFields
  <2>7. p \in Range(snap.pods) BY DEF ScenarioPods
  <2>8. p \in Endpoints(Range(snap.pods), ShadowTarget(tgt), FALSE) BY <2>6, <2>7 DEF Endpoints, svc
  <2>9. QED BY <1>2, <2>4, <2>8 DEF Answers
<1>3. CASE ~IsService(tgt)
  <2>1. PICK owner \in ScenarioPods(snap) : IsOf(tgt, owner) BY <1>1, <1>3, PodShape
  <2>2. CASE tgt.kind = "pod-ip"
    <3>1. q \in live /\ q.ip = tgt.addr[1] /\ ~q.hostNetwork /\ (q.up \/ q.old # {})
      BY <2>2 DEF Asked, Serving, IsService
    <3>2. PICK p \in ScenarioPods(snap) : Same(q, p) BY <3>1, UpIsOfSnapshot
    <3>3. QED BY <2>2, <3>1, <3>2, SameFields DEF Answers
  <2>3. CASE tgt.kind = "hostnetwork"
    <3>1. q \in live /\ q.node = tgt.addr[1] /\ q.hostNetwork /\ q \in Serving(live, ports[tgt.owner])
      BY <2>3 DEF Asked, Serving, IsService
    <3>2. PICK p \in ScenarioPods(snap) : Same(q, p)
      <4>1. q.up \/ q.old # {} BY <3>1 DEF Serving
      <4>2. QED BY <3>1, <4>1, UpIsOfSnapshot
    <3>3. owner.hostNetwork /\ owner.node = tgt.addr[1] /\ tgt.owner = owner.id
      BY <1>1, <2>1, <2>3, AddressesAssumption DEF IsOf
    <3>4. Free(owner) BY DEF FreeInv
    <3>5. q.id = owner.id BY <3>1, <3>3, <3>4, UpAlone
    <3>6. p.hostNetwork /\ p.id = q.id BY <3>1, <3>2, SameFields
    <3>7. QED BY <2>3, <3>2, <3>3, <3>5, <3>6 DEF Answers
  <2>4. CASE tgt.kind = "hostport" BY <2>4 DEF Asked, IsService
  <2>5. QED BY <2>1, <2>2, <2>3, <2>4 DEF IsOf
<1>4. QED BY <1>2, <1>3

LEMMA AnswersStep == IInv /\ PairInv /\ UpInv /\ FreeInv /\ AnswersInv /\ [Next]_vars => AnswersInv'
<1> SUFFICES ASSUME IInv, PairInv, UpInv, FreeInv, AnswersInv, [Next]_vars PROVE AnswersInv' OBVIOUS
<1>1. Answering' = Answering BY PairStays, SnapshotStays
<1>2. CASE UNCHANGED answers BY <1>1, <1>2 DEF AnswersInv
<1>3. CASE Ask
  <2>1. PICK q \in Asked : answers' = answers \union {Arrived(ShadowTarget(tgt), q)} BY <1>3 DEF Ask
  <2>0. pc = "baseline" BY <1>3 DEF Ask, Probing
  <2>2. PICK p \in ScenarioPods(snap) : Same(q, p) /\ Answers(p) BY <2>0, AskedMayAnswer DEF IInv
  <2>3. Arrived(ShadowTarget(tgt), q) = Arrived(ShadowTarget(tgt), p) BY <2>2, SameArrives
  <2>4. Arrived(ShadowTarget(tgt), q) \in Answering BY <2>2, <2>3 DEF Answering
  <2>5. QED BY <1>1, <2>1, <2>4 DEF AnswersInv
<1>4. UNCHANGED answers \/ Ask
  <2>1. ASSUME NEW x \in todo, InjectRefused(x) \/ InjectNew(x) \/ WaitRunning(x)
                               \/ WaitRefused(x) \/ EndExec(x) \/ CreateShadow(x)
        PROVE  UNCHANGED answers
    BY <2>1 DEF InjectRefused, InjectNew, WaitRunning, WaitRefused, EndExec, CreateShadow,
                Refuse, Handled
  <2>2. CASE Connect \/ ConnectBaseline \/ EndLoop \/ Finish \/ CallFails
    BY <2>2 DEF Connect, ConnectBaseline, EndLoop, Finish, CallFails, Refuse
  <2>3. ASSUME NEW p \in live, Replace(p) PROVE UNCHANGED answers BY <2>3 DEF Replace
  <2>4. CASE UNCHANGED vars BY <2>4 DEF vars
  <2>5. QED BY <2>1, <2>2, <2>3, <2>4 DEF Next
<1>5. QED BY <1>2, <1>3, <1>4

\* The pod under a name of the snapshot is there, and while it runs its probe
\* container, something can be executed in it.
LEMMA CalmNamed ==
  ASSUME PodsInv, NEW id \in InjectedPods(snap), NEW q \in live, q.id = id
  PROVE  q \in Named(id) /\ IsScenarioPod(q)
<1> DEFINE old == CHOOSE p \in Range(snap.pods) : p.id = id
<1>1. PICK o \in ScenarioPods(snap) : o.id = id BY DEF InjectedPods
<1>2. o \in Range(snap.pods) /\ IsScenarioPod(o) BY <1>1 DEF ScenarioPods
<1>3. old \in Range(snap.pods) /\ old.id = id BY <1>1, <1>2
<1>4. q.id \in SnapIds BY <1>1, <1>2 DEF SnapIds
<1>5. PICK p \in Range(snap.pods) : Same(q, p) BY <1>4 DEF PodsInv
<1> HIDE DEF old
<1>6. p = old /\ p = o BY <1>1, <1>2, <1>3, <1>5, SameFields, PodsOfSnapshot DEF PodsInv
<1>7. q.ns = old.ns /\ q.name = old.name /\ IsScenarioPod(q) BY <1>2, <1>5, <1>6, SameFields DEF IsScenarioPod
<1>8. QED BY <1>7 DEF Named, old

LEMMA CalmCanExec ==
  ASSUME PodsInv, CalmPods, CalmWork, pc # "inject", NEW id
  PROVE  CanExec(id)
<1> SUFFICES ASSUME id \in InjectedPods(snap) PROVE \E q \in Named(id) : q.probe # 0 /\ q.up BY DEF CanExec
<1>1. PICK q \in live : q.id = id /\ q.probe # 0 BY DEF CalmWork, Probed
<1>2. q \in Named(id) /\ IsScenarioPod(q) BY <1>1, CalmNamed
<1>3. QED BY <1>1, <1>2 DEF CalmPods

\* Nothing calms down again.
LEMMA CalmBefore ==
  ASSUME TypeOK, [Next]_vars, Calm'
  PROVE  /\ Calm /\ ~\E p \in live : Replace(p)
         /\ ~CallFails
<1>1. (PortTaken' <=> PortTaken) /\ (OwnShadowNames' <=> OwnShadowNames)
  BY PairStays, SnapshotStays
<1>2. replaced \in Nat /\ replaced' = 0 BY DEF TypeOK, Calm
<1>3. replaced = 0 /\ ~fault /\ (~\E p \in live : Replace(p)) /\ ~CallFails
  <2>1. ASSUME NEW x \in todo, InjectRefused(x) \/ InjectNew(x) \/ WaitRunning(x)
                               \/ WaitRefused(x) \/ CreateShadow(x)
        PROVE  UNCHANGED <<replaced, fault>>
    BY <2>1 DEF InjectRefused, InjectNew, WaitRunning, WaitRefused, CreateShadow, Refuse, Handled
  <2>2. ASSUME NEW x \in todo, EndExec(x) PROVE replaced' = replaced /\ (fault => fault')
    BY <2>2 DEF EndExec
  <2>3. ASSUME Connect \/ ConnectBaseline \/ Ask \/ EndLoop \/ Finish
        PROVE  UNCHANGED <<replaced, fault>>
    BY <2>3 DEF Connect, ConnectBaseline, Ask, EndLoop, Finish
  <2>4. CallFails => fault' BY DEF CallFails
  <2>5. ASSUME NEW p \in live PROVE ~Replace(p)
    <3>1. Replace(p) => replaced' = replaced + 1 BY DEF Replace
    <3>2. QED BY <1>2, <3>1
  <2>6. ASSUME UNCHANGED vars PROVE UNCHANGED <<replaced, fault>> BY <2>6 DEF vars
  <2>7. ~fault' BY DEF Calm
  <2>8. UNCHANGED replaced /\ (fault => fault')
    BY <2>1, <2>2, <2>3, <2>4, <2>5, <2>6, <2>7 DEF Next
  <2>9. QED BY <1>2, <2>4, <2>5, <2>7, <2>8
<1>4. QED BY <1>1, <1>3 DEF Calm

LEMMA CalmPodsStep ==
  ASSUME IInv, TurnInv, UpInv, CalmPods, CalmWork, Calm, Calm', [Next]_vars
  PROVE  CalmPods'
<1>1. UNCHANGED <<snap, src, tgt, nat>> /\ ~(\E p \in live : Replace(p)) BY PairStays, CalmBefore DEF IInv
<1>2. SnapIds' = SnapIds /\ Range(snap.pods)' = Range(snap.pods) BY <1>1, SnapshotStays
<1>3. PodsInv BY DEF IInv
<1>4. CASE UNCHANGED live BY <1>2, <1>4 DEF CalmPods, Same
<1>5. ASSUME NEW x \in todo, InjectNew(x) PROVE CalmPods'
  <2>1. PICK q, new :
            /\ q \in Named(x) /\ q \in live /\ q.id \in DOMAIN ports
            /\ live' = (live \ {q}) \union {new} /\ Same(new, q) /\ new.probe = ports[q.id]
            /\ (new.up <=> Serving(Beside(q), ports[q.id]) = {})
    BY <1>3, <1>5, Injected
  <2>2. PICK o \in ScenarioPods(snap) : Same(q, o) BY <1>3, <2>1, PodWithPort
  <2>3. q.id \in SnapIds /\ new.id = q.id BY <1>3, <2>1, PodWithPort, SameFields
  <2>4. \A p \in Range(snap.pods) : \E r \in live' : Same(r, p)
    <3> SUFFICES ASSUME NEW p \in Range(snap.pods) PROVE \E r \in live' : Same(r, p) OBVIOUS
    <3>1. PICK r \in live : Same(r, p) BY DEF CalmPods
    <3>2. CASE r = q
      <4>1. Same(new, p) BY <2>1, <3>1, <3>2 DEF Same
      <4>2. QED BY <2>1, <4>1
    <3>3. QED BY <2>1, <3>1, <3>2
  <2>5. \A r \in live' : r.id \in SnapIds BY <2>1, <2>3 DEF CalmPods
  <2>6. new.up
    <3> SUFFICES ASSUME NEW p \in Serving(Beside(q), ports[q.id]) PROVE FALSE BY <2>1
    <3>1. /\ p \in live /\ (p.id = q.id \/ (q.hostNetwork /\ p.hostNetwork /\ p.node = q.node))
          /\ ports[q.id] \in p.old \/ (p.up /\ p.probe = ports[q.id])
      BY DEF Serving, Beside
    <3>2. PICK r \in ScenarioPods(snap) : Same(p, r)
      <4>1. p.up \/ p.old # {} BY <3>1
      <4>2. QED BY <1>3, <3>1, <4>1, UpIsOfSnapshot
    <3>3. /\ o.id = q.id /\ o.hostNetwork = q.hostNetwork /\ o.node = q.node
          /\ r.id = p.id /\ r.hostNetwork = p.hostNetwork /\ r.node = p.node /\ r.old = p.old
      BY <2>2, <3>2, SameFields
    <3>4. o = r \/ (o.hostNetwork /\ r.hostNetwork /\ o.node = r.node)
      BY <1>3, <3>1, <3>3, PodsOfSnapshot DEF PodsInv, ScenarioPods
    <3>5. ports[q.id] \notin p.old
      <4>1. ~PortTaken BY DEF Calm
      <4>2. QED BY <3>3, <3>4, <4>1 DEF PortTaken
    <3>6. p.up /\ ports[r.id] = ports[o.id] BY <3>1, <3>3, <3>5 DEF UpInv
    <3>7. o = r BY <1>3, <3>4, <3>6, PortsDiffer DEF PodsInv
    <3>8. p = q BY <1>3, <2>1, <2>3, <3>1, <3>3, <3>7 DEF PodsInv
    <3>9. pc = "inject" BY <1>5 DEF InjectNew
    <3>10. q.id = x BY <1>3, <2>1, <2>3, <3>9, TurnIs
    <3>11. QED BY <2>1, <3>6, <3>8, <3>9, <3>10 DEF UpInv
  <2>7. \A r \in live' : IsScenarioPod(r) /\ r.probe # 0 => r.up BY <2>1, <2>6 DEF CalmPods
  <2>8. QED BY <1>2, <2>4, <2>5, <2>7 DEF CalmPods, Same
<1>6. QED BY <1>1, <1>4, <1>5, LiveStep

\* A pod's turn in the first loop leaves it with a container.
LEMMA ProbedStay ==
  ASSUME PodsInv, NEW x, InjectNew(x), NEW id, Probed(id)
  PROVE  Probed(id)'
<1>1. PICK q, new :
          /\ q \in live /\ q.id \in DOMAIN ports
          /\ live' = (live \ {q}) \union {new} /\ Same(new, q) /\ new.probe = ports[q.id]
  BY Injected
<1>2. PICK o \in ScenarioPods(snap) : Same(q, o) BY <1>1, PodWithPort
<1>3. ports[q.id] # 0 BY <1>2, OwnPort, SameFields DEF PodsInv
<1>4. new.id = q.id BY <1>1, SameFields
<1>5. QED BY <1>1, <1>3, <1>4 DEF Probed

LEMMA CalmTurn ==
  ASSUME PodsInv, CalmPods, CalmWork, NEW x \in todo, pc = "inject"
  PROVE  /\ ~InjectRefused(x)
         /\ InjectNew(x) => Probed(x)'
<1>1. x \in InjectedPods(snap) BY DEF CalmWork
<1>2. PICK o \in ScenarioPods(snap) : o.id = x BY <1>1 DEF InjectedPods
<1>3. PICK r \in live : Same(r, o) BY <1>2 DEF CalmPods, ScenarioPods
<1>4. r.id = x /\ r \in Named(x) BY <1>1, <1>2, <1>3, SameFields, CalmNamed
<1>5. ~InjectRefused(x) BY <1>1, <1>4 DEF InjectRefused, ports, identityPorts
<1>6. ASSUME NEW q \in Named(x) PROVE q.id = x BY <1>1, NamedIsOld DEF CalmPods, Named
<1>8. ASSUME InjectNew(x) PROVE Probed(x)'
  <2>1. PICK q, new :
            q \in Named(x) /\ live' = (live \ {q}) \union {new} /\ Same(new, q) /\ new.probe = ports[q.id]
    BY <1>8, Injected
  <2>2. new.id = x /\ new.probe = ports[x] BY <1>6, <2>1, SameFields
  <2>3. ports[x] \in Nat \ {0} BY <1>2, OwnPort DEF PodsInv
  <2>4. QED BY <2>1, <2>2, <2>3 DEF Probed
<1>9. QED BY <1>5, <1>8

LEMMA CalmWorkStep ==
  ASSUME IInv, UpInv, ~failed, result # "refused", CalmPods, CalmWork, Calm, Calm', [Next]_vars
  PROVE  ~failed' /\ result' # "refused" /\ CalmWork'
<1>1. UNCHANGED <<snap, src, tgt, nat>> /\ ~(\E p \in live : Replace(p)) /\ ~CallFails
  BY PairStays, CalmBefore DEF IInv
<1>2. InjectedPods(snap)' = InjectedPods(snap) /\ Targeted(snap)' = Targeted(snap) BY <1>1
<1>3. PodsInv BY DEF IInv
<1>4. UNCHANGED live => \A id : Probed(id)' <=> Probed(id) BY DEF Probed
<1> DEFINE Goal == ~failed' /\ result' # "refused" /\ CalmWork'
<1>5. ASSUME NEW x \in todo, InjectRefused(x) PROVE Goal
  BY <1>3, <1>5, CalmTurn DEF InjectRefused
<1>7. ASSUME NEW x \in todo, InjectNew(x) PROVE Goal
  <2>1. pc = "inject" /\ todo' = todo \ {x} /\ UNCHANGED <<pc, created, failed, result>>
    BY <1>7 DEF InjectNew, Handled
  <2>2. Probed(x)' BY <1>3, <1>7, <2>1, CalmTurn
  <2>3. \A id : Probed(id) => Probed(id)' BY <1>3, <1>7, ProbedStay
  <2>4. CalmWork' BY <1>2, <2>1, <2>2, <2>3 DEF CalmWork
  <2>5. QED BY <2>1, <2>4
<1>8. ASSUME NEW x \in todo, WaitRunning(x) PROVE Goal
  <2>1. pc = "wait" /\ todo' = todo \ {x} /\ UNCHANGED <<pc, live, created, failed, result>>
    BY <1>8 DEF WaitRunning, Handled
  <2>2. CalmWork' BY <1>2, <1>4, <2>1 DEF CalmWork
  <2>3. QED BY <2>1, <2>2
<1>9. ASSUME NEW x \in todo, WaitRefused(x) PROVE Goal BY <1>3, <1>9, CalmCanExec DEF WaitRefused
<1>10. ASSUME NEW x \in todo, EndExec(x) PROVE Goal
  <2>1. pc \in Rounds /\ todo' = todo \ {x} /\ UNCHANGED <<pc, live, created, result>>
    BY <1>10 DEF EndExec
  <2>2. CanExec(x) BY <1>3, <2>1, CalmCanExec DEF Rounds
  <2>3. ~failed'
    <3>1. PICK broken \in {FALSE, CanExec(x)} :
             /\ failed' = (failed \/ broken \/ ~CanExec(x))
             /\ fault' = (fault \/ broken)
      BY <1>10 DEF EndExec
    <3>2. ~fault' BY DEF Calm
    <3>3. QED BY Zenon, <2>2, <3>1, <3>2
  <2>4. pc \in {"effective", "baseline"} BY <2>1 DEF Rounds
  <2>5. CalmWork' BY <1>2, <1>4, <2>1, <2>4 DEF CalmWork
  <2>6. QED BY <2>1, <2>3, <2>5
<1>11. ASSUME NEW x \in todo, CreateShadow(x) PROVE Goal
  <2>1. pc = "shadows" BY <1>11 DEF CreateShadow
  <2>2. x \in Targeted(snap) \ created /\ created \subseteq Targeted(snap) BY <2>1 DEF CalmWork
  <2>3. Shadow(x) \notin ServiceNames(snap) \union {Shadow(c) : c \in created}
    <3>1. \A c \in created : Shadow(x) # Shadow(c) BY <2>2 DEF Calm, OwnShadowNames
    <3>2. QED BY <2>2, <3>1 DEF Calm, OwnShadowNames
  <2>4. created' = created \union {x} /\ todo' = todo \ {x} /\ UNCHANGED <<pc, live, failed, result>>
    BY <1>11, <2>3 DEF CreateShadow, Handled
  <2>5. CalmWork' BY <1>2, <1>4, <2>1, <2>2, <2>4 DEF CalmWork
  <2>6. QED BY <2>4, <2>5
<1>12. ASSUME Connect \/ ConnectBaseline \/ Ask \/ UNCHANGED vars PROVE Goal
  <2>1. UNCHANGED <<pc, live, todo, created, failed, result>>
    BY <1>12 DEF Connect, ConnectBaseline, Ask, vars
  <2>2. CalmWork' BY <1>2, <1>4, <2>1 DEF CalmWork
  <2>3. QED BY <2>1, <2>2
<1>13. ASSUME EndLoop PROVE Goal
  <2>1. /\ UNCHANGED <<live, failed, result>> /\ pc \in Loops /\ todo = {}
        /\ pc' = CASE pc = "inject" -> "wait" [] pc = "wait" -> "effective"
                   [] pc = "effective" -> "shadows" [] pc = "shadows" -> "baseline"
                   [] OTHER -> "finish"
        /\ todo' = IF pc' = "finish" THEN {} ELSE Work(pc')
        /\ created' = IF pc = "baseline" THEN {} ELSE created
    BY <1>13 DEF EndLoop
  <2>2. \/ pc = "inject" /\ pc' = "wait"
        \/ pc = "wait" /\ pc' = "effective"
        \/ pc = "effective" /\ pc' = "shadows"
        \/ pc = "shadows" /\ pc' = "baseline"
        \/ pc = "baseline" /\ pc' = "finish"
    BY <2>1 DEF Loops
  <2>3. pc' = "wait" => todo' = InjectedPods(snap) BY <1>1, <2>1 DEF Work, Rounds
  <2>4. pc' = "shadows" => todo' = Targeted(snap) /\ created' = {} BY <1>1, <2>1, <2>2 DEF Work, Rounds, CalmWork
  <2>5. created' \subseteq created BY <2>1
  <2>6. \A id \in InjectedPods(snap) : Probed(id)' BY <1>4, <2>1 DEF CalmWork
  <2>7. pc' \in {"wait", "effective"} => created' = {} BY <2>1, <2>2 DEF CalmWork
  <2>8. CalmWork' BY <1>2, <2>2, <2>3, <2>4, <2>5, <2>6, <2>7 DEF CalmWork
  <2>9. QED BY <2>1, <2>8
<1>14. ASSUME Finish PROVE Goal
  <2>1. pc = "finish" /\ pc' = "done" /\ result' = "written" /\ UNCHANGED <<live, todo, created, failed>>
    BY <1>14 DEF Finish
  <2>2. CalmWork' BY <1>2, <1>4, <2>1 DEF CalmWork
  <2>3. QED BY <2>1, <2>2
<1>15. QED
  BY <1>1, <1>5, <1>7, <1>8, <1>9, <1>10, <1>11, <1>12, <1>13, <1>14 DEF Next

LEMMA InitJInv == Init => JInv
<1> SUFFICES ASSUME Init PROVE JInv OBVIOUS
<1>1. IInv BY InitInv
<1>2. live = Range(snap.pods) /\ snap \in Filtered BY DEF Init, Filtered
<1>3. PairInv BY DEF Init, PairInv
<1>4. TurnInv /\ UpInv /\ FreeInv
  <2>1. \A q \in live : q.probe = 0 /\ ~q.up BY <1>2, ContainersAssumption
  <2>2. pc = "inject" /\ todo = InjectedPods(snap) BY DEF Init
  <2>3. QED BY <2>1, <2>2 DEF TurnInv, UpInv, FreeInv
<1>5. AnswersInv BY DEF Init, AnswersInv
<1>6. Calm => CalmPods
  <2>1. \A p \in Range(snap.pods) : \E q \in live : Same(q, p) BY <1>2 DEF Same
  <2>2. \A q \in live : q.id \in SnapIds BY <1>2 DEF SnapIds
  <2>3. \A q \in live : q.probe = 0 BY <1>2, ContainersAssumption
  <2>4. QED BY <2>1, <2>2, <2>3 DEF CalmPods
<1>7. CalmWork /\ ~failed /\ result = "none" BY DEF Init, CalmWork
<1>8. QED BY <1>1, <1>3, <1>4, <1>5, <1>6, <1>7 DEF JInv, CalmInv

LEMMA NextJInv == JInv /\ [Next]_vars => JInv'
<1> SUFFICES ASSUME JInv, [Next]_vars PROVE JInv' OBVIOUS
<1>1. IInv' BY NextInv DEF JInv
<1>2. PairInv' BY PairStays DEF JInv, PairInv
<1>3. TurnInv' /\ UpInv' /\ FreeInv' BY TurnStep, UpStep, FreeStep DEF JInv
<1>4. AnswersInv' BY AnswersStep DEF JInv
<1>5. CalmInv'
  <2> SUFFICES ASSUME Calm' PROVE ~failed' /\ result' # "refused" /\ CalmPods' /\ CalmWork' BY DEF CalmInv
  <2>1. Calm BY CalmBefore DEF JInv, IInv
  <2>2. ~failed /\ result # "refused" /\ CalmPods /\ CalmWork BY <2>1 DEF JInv, CalmInv
  <2>3. QED BY <2>1, <2>2, CalmPodsStep, CalmWorkStep DEF JInv
<1>6. QED BY <1>1, <1>2, <1>3, <1>4, <1>5 DEF JInv

\* The second invariant holds of every run.
THEOREM SecondInvariant == Spec => []JInv
<1>1. QED BY InitJInv, NextJInv, PTL DEF Spec

-----------------------------------------------------------------------------
(* What is written.                                                           *)

\* Type correctness of a measurement.
THEOREM TypeCorrect == Spec => []TypeOK
<1>1. IInv => TypeOK BY DEF IInv
<1>2. QED BY <1>1, Invariant, PTL

\* In results that are written every connect of the effective round ended at a
\* pod that the snapshot has, and that the target leads to there, on that pod's
\* node and from the address that this takes, although pods may be replaced at
\* any time, under their names and addresses, unless a pod is gone in which
\* nothing was ever executed (injectProbes, kube.go:200-257; prober failures,
\* main.go:190-194; sources without jobs, prober.go:47-50).
MetIsOfSnapshot ==
  result = "written" => \A m \in met : m \in Arrivals \/ (m.pod \notin SnapIds /\ QuietLoss)

\* No connect of a written effective round ended outside the snapshot, but where
\* a pod without jobs was lost.
THEOREM WrittenOfSnapshot == Spec => []MetIsOfSnapshot
<1>1. IInv => MetIsOfSnapshot
  <2> SUFFICES ASSUME IInv, result = "written" PROVE LossIsSeen => QuietLoss
    BY DEF IInv, MetInv, MetIsOfSnapshot
  <2>1. pc = "done" /\ ~failed BY DEF IInv, TypeOK, ResultInv
  <2>2. QED BY <2>1 DEF LossIsSeen
<1>2. QED BY <1>1, Invariant, PTL

-----------------------------------------------------------------------------
(* What the target leads to in the snapshot.                                  *)

\* The fields of a target, of which its shadow's differ in one.
LEMMA TargetFields ==
  ASSUME NEW s, NEW t \in BuildTargets(s)
  PROVE  /\ {"kind", "addr", "owner", "backends", "service", "port", "node", "local"} \subseteq DOMAIN t
         /\ ShadowTarget(t).kind = t.kind /\ ShadowTarget(t).service = t.service
         /\ ShadowTarget(t).port = t.port /\ ShadowTarget(t).node = t.node /\ ShadowTarget(t).addr = t.addr
         /\ ShadowTarget(t).local = IF t.kind = "nodeport" THEN t.local ELSE FALSE
<1>1. {"kind", "addr", "owner", "backends", "service", "port", "node", "local"} \subseteq DOMAIN t
  <2>1. CASE \E p, n : t = PodTarget(p, n) BY <2>1 DEF PodTarget
  <2>2. CASE \E p, c : t = HostPortTarget(p, c) BY <2>2 DEF HostPortTarget, PodTarget
  <2>3. CASE \E svc, sp, b : t = ServiceTarget(svc, sp, b) BY <2>3 DEF ServiceTarget
  <2>4. CASE \E svc, sp, b, n : t = NodePortTarget(svc, sp, b, n) BY <2>4 DEF NodePortTarget, ServiceTarget
  <2>5. IsCall(s, t) BY TargetsAreCalls
  <2>6. CASE \E p \in ScenarioPods(s) : OfThePod(p, t) BY <2>1, <2>2, <2>6 DEF OfThePod
  <2>7. CASE \E svc \in ScenarioServices(s) : \E sp \in TCPServicePorts(svc) : OfTheServicePort(s, svc, sp, t)
    BY <2>1, <2>3, <2>4, <2>7 DEF OfTheServicePort
  <2>8. QED BY <2>5, <2>6, <2>7 DEF IsCall
<1>2. QED BY <1>1 DEF ShadowTarget

\* The port of a pod that a Service leads to makes the pod its backend.
LEMMA HasBackend ==
  ASSUME NEW svc, NEW sp, NEW p, p.ns = svc.ns, p.app = svc.app, IsScenarioPod(p), TargetNumbers(sp, p) # {}
  PROVE  \E b \in Backend(svc, sp, p) : b.pod = p
<1>1. P!ResolveTargetPort(p, sp) # {}
  <2>1. CASE sp.target.name = "" BY <2>1 DEF P!ResolveTargetPort
  <2>2. CASE sp.target.name # ""
    <3>1. PICK c \in TCPPorts(p) : c.name = sp.target.name BY <2>2 DEF TargetNumbers
    <3>2. PICK i \in DOMAIN p.ports : p.ports[i].name = sp.target.name BY <3>1 DEF TCPPorts, Range
    <3>3. QED BY <2>2, <3>2 DEF P!ResolveTargetPort
  <2>3. QED BY <2>1, <2>2
<1>2. PICK r : r \in P!ResolveTargetPort(p, sp) BY <1>1
<1>3. [pod |-> p, port |-> r.num] \in Backend(svc, sp, p) BY <1>2 DEF Backend
<1>4. QED BY <1>3

\* A pod of the snapshot at which a connect to a Service, or to its shadow, ends
\* is a backend of it.
LEMMA ServiceReaches ==
  ASSUME JInv, IsService(tgt), NEW p \in Range(snap.pods), NEW t \in {tgt, ShadowTarget(tgt)},
         NEW needed \in BOOLEAN, p \in Endpoints(Range(snap.pods), t, needed), needed \/ PortOnEveryPod
  PROVE  \E b \in tgt.backends : b.pod = p
<1>1. snap \in Filtered /\ tgt \in BuildTargets(snap) BY DEF JInv, IInv, PodsInv, PairInv
<1>2. PICK svc \in ScenarioServices(snap) : \E sp \in TCPServicePorts(svc) :
            /\ svc = CHOOSE v \in Range(snap.services) : <<v.ns, v.name>> = tgt.service
            /\ sp = CHOOSE c \in Range(svc.ports) : c.tcp /\ c.port = tgt.port
            /\ tgt.backends = Backends(snap, svc, sp)
  BY <1>1, ServiceShape
<1>3. PICK sp \in TCPServicePorts(svc) :
            /\ svc = CHOOSE v \in Range(snap.services) : <<v.ns, v.name>> = tgt.service
            /\ sp = CHOOSE c \in Range(svc.ports) : c.tcp /\ c.port = tgt.port
            /\ tgt.backends = Backends(snap, svc, sp)
  BY <1>2
<1>4. t.service = tgt.service /\ t.port = tgt.port BY <1>1, TargetFields
<1>5. p.ns = svc.ns /\ p.app = svc.app /\ p.running /\ (needed => TargetNumbers(sp, p) # {})
  BY <1>3, <1>4 DEF Endpoints
<1>6. IsScenarioPod(p) BY <1>5 DEF IsScenarioPod, ScenarioServices
<1>7. TargetNumbers(sp, p) # {}
  <2>1. p \in Selected(snap, svc) BY <1>5, <1>6 DEF Selected, ScenarioPods
  <2>2. QED BY <1>5, <2>1 DEF PortOnEveryPod
<1>8. PICK b \in Backend(svc, sp, p) : b.pod = p BY <1>5, <1>6, <1>7, HasBackend
<1>9. QED BY <1>3, <1>8 DEF Backends

\* On a node a port is one running pod's, and no pod declares what another one
\* of the host network is a target for.
HostPortsAreOwn ==
  /\ \A p, q \in Range(snap.pods) : \A c \in TCPPorts(p), d \in TCPPorts(q) :
        /\ p.running /\ q.running /\ ~p.hostNetwork /\ ~q.hostNetwork /\ p.node = q.node
        /\ c.hostPort > 0 /\ c.hostPort = d.hostPort
        => p = q
  /\ \A t \in BuildTargets(snap) : \A q \in Range(snap.pods) :
        /\ t.kind = "hostnetwork" /\ q.running /\ q.hostNetwork /\ q.node = t.addr[1]
        /\ \E c \in TCPPorts(q) : c.num = t.addr[2]
        => q.id = t.owner

\* A target leads to its backends.
LEMMA ReachesBackends ==
  ASSUME JInv, NEW p \in Reached(Range(snap.pods), tgt), tgt.kind \in {"hostnetwork", "hostport"} => HostPortsAreOwn
  PROVE  \E b \in tgt.backends : b.pod.id = p.id
<1>1. snap \in Filtered /\ tgt \in BuildTargets(snap) BY DEF JInv, IInv, PodsInv, PairInv
<1>2. CASE IsService(tgt)
  <2>1. p \in Endpoints(Range(snap.pods), tgt, TRUE) BY <1>2 DEF Reached
  <2>2. p \in Range(snap.pods) BY <2>1 DEF Endpoints
  <2>3. QED BY <1>2, <2>1, <2>2, ServiceReaches
<1>3. CASE ~IsService(tgt)
  <2>1. PICK o \in ScenarioPods(snap) : IsOf(tgt, o) BY <1>1, <1>3, PodShape
  <2>2. \E b \in tgt.backends : b.pod = o BY <2>1 DEF IsOf
  <2>3. o \in Range(snap.pods) /\ o.running BY DEF ScenarioPods, IsScenarioPod
  <2>4. p \in Range(snap.pods) /\ p.running BY <1>3 DEF Reached
  <2>5. CASE tgt.kind = "pod-ip"
    <3>1. p.ip = o.ip /\ ~o.hostNetwork BY <1>3, <2>1, <2>5 DEF Reached, IsOf
    <3>2. p = o BY <1>1, <2>3, <2>4, <3>1, AddressesAssumption
    <3>3. QED BY <2>2, <3>2
  <2>6. CASE tgt.kind = "hostnetwork"
    <3>1. p.hostNetwork /\ p.node = tgt.addr[1] /\ \E c \in TCPPorts(p) : c.num = tgt.addr[2]
      BY <1>3, <2>6 DEF Reached
    <3>2. p.id = tgt.owner BY <1>1, <2>4, <2>6, <3>1 DEF HostPortsAreOwn
    <3>3. QED BY <2>1, <2>2, <3>2 DEF IsOf
  <2>7. CASE tgt.kind = "hostport"
    <3>1. p.node = tgt.addr[1] /\ ~p.hostNetwork /\ \E c \in TCPPorts(p) : c.hostPort = tgt.addr[2]
      BY <1>3, <2>7 DEF Reached
    <3>2. p = o BY <2>1, <2>3, <2>4, <2>7, <3>1 DEF HostPortsAreOwn, IsOf
    <3>3. QED BY <2>2, <3>2
  <2>8. QED BY <2>1, <2>5, <2>6, <2>7 DEF IsOf
<1>4. QED BY <1>2, <1>3

\* A pod without jobs is behind the target that is followed, as behind all others.
LEMMA JoblessIsBehind ==
  ASSUME snap \in Filtered, PairInv, NEW id \in InjectedPods(snap), ~HasJobs(id)
  PROVE  id \in BackendIds
<1>1. PICK o \in ScenarioPods(snap) : o.id = id BY DEF InjectedPods
<1> DEFINE own == Source(IF o.hostNetwork THEN "hostnetwork" ELSE "pod", o, TRUE)
<1>2. own \in BuildSources(snap) BY DEF BuildSources, ScenarioPods
<1>3. own.pod = id /\ own.kind # "external" BY <1>1 DEF Source
<1>4. ~Applicable(own, tgt) BY <1>2, <1>3 DEF HasJobs, PairInv
<1> HIDE DEF own
<1>5. id = tgt.owner \/ \E b \in tgt.backends : b.pod.id = id BY <1>3, <1>4 DEF Applicable
<1>6. CASE id = tgt.owner
  <2>1. id # None BY <1>1, PodsOfSnapshot DEF ScenarioPods
  <2>2. ~IsService(tgt) BY <1>6, <2>1, ServiceShape DEF PairInv
  <2>3. PICK p \in ScenarioPods(snap) : IsOf(tgt, p) BY <2>2, PodShape DEF PairInv
  <2>4. \E b \in tgt.backends : b.pod.id = id BY <1>6, <2>3 DEF IsOf
  <2>5. QED BY <2>4 DEF BackendIds
<1>7. QED BY <1>5, <1>6 DEF BackendIds

\* Where a node's ports are one pod's each, what is written says of the target's
\* backends what was measured with policies in place, but where one of them is
\* behind every target and has nothing executed in it (injectProbes,
\* kube.go:200-257; sources without jobs, prober.go:47-50; prober failures,
\* main.go:190-194).
THEOREM MeasuredSafe == Spec => [](HostPortsAreOwn => MeasuredOnTheSnapshot)
<1>1. JInv /\ MetIsOfSnapshot => (HostPortsAreOwn => MeasuredOnTheSnapshot)
  <2> SUFFICES ASSUME JInv, MetIsOfSnapshot, HostPortsAreOwn, result = "written", NEW m \in met
               PROVE  m.pod \in BackendIds \/ \E id \in BackendIds : ~HasJobs(id)
    BY DEF MeasuredOnTheSnapshot
  <2>1. CASE m \in Arrivals
    <3>1. PICK p \in Reached(Range(snap.pods), tgt) : m = Arrived(tgt, p) BY <2>1 DEF Arrivals
    <3>2. PICK b \in tgt.backends : b.pod.id = p.id BY ReachesBackends
    <3>3. m.pod = p.id BY <3>1 DEF Arrived
    <3>4. QED BY <3>2, <3>3 DEF BackendIds
  <2>2. CASE QuietLoss
    <3>1. PICK id \in InjectedPods(snap) \ Executed : Lost(id) BY <2>2 DEF QuietLoss
    <3>2. id \in InjectedPods(snap) /\ ~HasJobs(id) BY <3>1 DEF Executed
    <3>3. QED BY <3>2, JoblessIsBehind DEF JInv, IInv, PodsInv
  <2>3. QED BY <2>1, <2>2 DEF MetIsOfSnapshot
<1>2. QED BY <1>1, WrittenOfSnapshot, SecondInvariant, PTL

\* A run is refused only where pods were replaced, a call failed, a container of
\* an earlier run serves a port that is needed, or names are in the way: the
\* hostNetwork pods of a node do not get in each other's way, and no pod is
\* waited for in vain (identity.go:43-66, 109-113, kube.go:33-36, 208-252).
THEOREM RefusedOnlyForCause == Spec => []RefusedForCause
<1>1. JInv => RefusedForCause
  <2>1. JInv => replaced = 0 \/ replaced > 0 BY DEF JInv, IInv, TypeOK
  <2>2. QED BY <2>1 DEF JInv, CalmInv, Calm, RefusedForCause
<1>2. QED BY <1>1, SecondInvariant, PTL

\* What answers /clientip is a backend of the target, however pods come and go
\* (identity.go:43-66, 151-174, kube.go:200-231).
LEMMA AnswersAreBackends == JInv => AnsweredByTheTarget
<1> SUFFICES ASSUME JInv, PortOnEveryPod, NEW a \in answers
             PROVE  a.pod \in BackendIds
  BY DEF AnsweredByTheTarget
<1>1. snap \in Filtered /\ tgt \in BuildTargets(snap) BY DEF JInv, IInv, PodsInv, PairInv
<1>2. PICK p \in ScenarioPods(snap) : Answers(p) /\ a = Arrived(ShadowTarget(tgt), p)
  BY DEF JInv, AnswersInv, Answering
<1>3. a.pod = p.id /\ a.node = p.node BY <1>2 DEF Arrived
<1>4. p \in Range(snap.pods) /\ p.running BY DEF ScenarioPods, IsScenarioPod
<1>5. CASE IsService(tgt)
  <2>1. p \in Endpoints(Range(snap.pods), ShadowTarget(tgt), FALSE) BY <1>2, <1>5 DEF Answers, IsService
  <2>2. \E b \in tgt.backends : b.pod = p BY <1>4, <1>5, <2>1, ServiceReaches
  <2>3. QED BY <1>3, <2>2 DEF BackendIds
<1>6. CASE ~IsService(tgt)
  <2>1. PICK o \in ScenarioPods(snap) : IsOf(tgt, o) BY <1>1, <1>6, PodShape
  <2>2. o.id \in BackendIds
    <3>1. \E b \in tgt.backends : b.pod = o BY <2>1 DEF IsOf
    <3>2. QED BY <3>1 DEF BackendIds
  <2>3. CASE tgt.kind = "pod-ip"
    <3>1. ~o.hostNetwork /\ p.ip = o.ip BY <1>2, <2>1, <2>3 DEF Answers, IsService, IsOf
    <3>2. o \in Range(snap.pods) /\ o.running BY DEF ScenarioPods, IsScenarioPod
    <3>3. p = o BY <1>1, <1>4, <3>1, <3>2, AddressesAssumption
    <3>4. QED BY <1>3, <2>2, <3>3
  <2>4. CASE tgt.kind = "hostnetwork" BY <1>2, <1>3, <2>1, <2>2, <2>4 DEF Answers, IsService, IsOf
  <2>5. CASE tgt.kind = "hostport" BY <1>2, <2>5 DEF Answers, IsService
  <2>6. QED BY <2>1, <2>3, <2>4, <2>5 DEF IsOf
<1>7. QED BY <1>5, <1>6

\* What answers /clientip is a backend of the target, for any snapshots,
\* replacements and containers of earlier runs: one that serves a port of this
\* run is in the pod that is asked, or the run does not get as far
\* (identity.go:43-66, 151-174, kube.go:200-250).
THEOREM OnlyTheTargetAnswers == Spec => []AnsweredByTheTarget
<1>1. QED BY AnswersAreBackends, SecondInvariant, PTL

-----------------------------------------------------------------------------
(* What a basis says.                                                         *)

\* Backends are pods of the snapshot.
LEMMA BackendsOfSnapshot ==
  ASSUME snap \in Filtered, PairInv
  PROVE  (\A b \in tgt.backends : b.pod \in Range(snap.pods)) /\ BackendIds \subseteq SnapIds
<1>1. \A b \in tgt.backends : b.pod \in Range(snap.pods)
  <2>1. CASE IsService(tgt)
    <3>1. \E svc, sp : tgt.backends = Backends(snap, svc, sp) BY <2>1, ServiceShape DEF PairInv
    <3>2. QED BY <3>1 DEF Backends, Backend
  <2>2. CASE ~IsService(tgt) BY <2>2, PodShape DEF PairInv, IsOf, ScenarioPods
  <2>3. QED BY <2>1, <2>2
<1>2. QED BY <1>1 DEF BackendIds, SnapIds

LEMMA FewBackends ==
  ASSUME snap \in Filtered, PairInv
  PROVE  IsFiniteSet(BackendIds)
<1>1. IsFiniteSet(DOMAIN snap.pods)
  <2>1. DOMAIN snap.pods = 1 .. Len(snap.pods) /\ Len(snap.pods) \in Nat BY PodsAssumption
  <2>2. IsFiniteSet(1 .. Len(snap.pods)) BY <2>1, FS_Interval
  <2>3. QED BY <2>1, <2>2
<1> DEFINE f == [i \in DOMAIN snap.pods |-> snap.pods[i].id]
<1>2. f \in Surjection(DOMAIN snap.pods, SnapIds) BY DEF Surjection, SnapIds, Range
<1>3. IsFiniteSet(SnapIds) BY <1>1, <1>2, FS_Surjection
<1>4. QED BY <1>3, BackendsOfSnapshot, FS_Subset

\* A source that shares a node's network namespace has the node's address.
LEMMA NodeishSource ==
  ASSUME snap \in Filtered, PairInv, Nodeish(src)
  PROVE  src.ip = src.node /\ Address = src.ip
<1>1. ASSUME \E n \in Range(snap.nodes) : src = Source("node", Agent(n), FALSE) PROVE src.ip = src.node
  BY <1>1 DEF Source, Agent
<1>2. ASSUME \E p \in ScenarioPods(snap) : p.hostNetwork /\ src = Source("hostnetwork", p, TRUE)
      PROVE  src.ip = src.node
  <2>1. PICK p \in ScenarioPods(snap) : p.hostNetwork /\ src = Source("hostnetwork", p, TRUE) BY <1>2
  <2>2. p.ip = p.node BY <2>1, AddressesAssumption
  <2>3. QED BY <2>1, <2>2 DEF Source
<1>3. \/ \E n \in Range(snap.nodes) : src = Source("node", Agent(n), FALSE)
      \/ \E p \in ScenarioPods(snap) : p.hostNetwork /\ src = Source("hostnetwork", p, TRUE)
  <2>1. \A p, i : Source("pod", p, i).kind = "pod" /\ Source("outsider", p, i).kind = "outsider"
                  /\ Source("external", p, i).kind = "external"
    BY DEF Source
  <2>2. src.kind \in {"node", "hostnetwork"} BY DEF Nodeish
  <2>3. src \in BuildSources(snap) BY DEF PairInv
  <2>4. QED BY <2>1, <2>2, <2>3 DEF BuildSources, ScenarioPods
<1>4. Address = src.ip BY DEF Address, Nodeish
<1>5. QED BY <1>1, <1>2, <1>3, <1>4

\* Two pods of one node take the same address to a target, and to its shadow.
LEMMA ShadowFrom ==
  ASSUME PairInv, snap \in Filtered, NEW p, NEW q, p.node = q.node
  PROVE  From(ShadowTarget(tgt), p) = From(tgt, q)
<1>1. tgt \in BuildTargets(snap) BY DEF PairInv
<1>2. ShadowTarget(tgt).kind = tgt.kind /\ ShadowTarget(tgt).addr = tgt.addr BY <1>1, TargetFields
<1>3. ShadowTarget(tgt).local = IF tgt.kind = "nodeport" THEN tgt.local ELSE FALSE BY <1>1, TargetFields
<1>4. tgt.kind # "nodeport" => tgt.local = FALSE BY <1>1, PodShape, ServiceShape DEF IsOf
<1>5. ShadowTarget(tgt).local = tgt.local BY <1>3, <1>4
<1>6. QED BY <1>2, <1>5 DEF From

\* Under spec-exception the target's backends are on the source's node.
LEMMA ExceptionIsLocal ==
  ASSUME JInv, Basis = "spec-exception", NEW m \in Arrivals
  PROVE  m.node = src.node /\ m.from \in {src.node, Tunnels[src.node]}
<1>1. snap \in Filtered /\ tgt \in BuildTargets(snap) /\ PairInv BY DEF JInv, IInv, PodsInv, PairInv
<1> DEFINE near == BackendsOn(tgt, src.node)
<1> DEFINE observed == ObservedSources
<1> DEFINE bases == {IF ip = src.ip THEN "policy" ELSE "undefined-snat" : ip \in observed}
<1>2. /\ tgt.kind # "hostnetwork" /\ Nodeish(src) /\ (tgt.kind # "nodeport" \/ tgt.node = src.node)
      /\ near = tgt.backends
  <2>1. basisFor(observed) = "spec-exception" BY DEF Basis
  <2>2. observed # {} => bases # {} /\ bases \subseteq {"policy", "undefined-snat"} BY DEF bases
  <2>3. observed # {} => (CHOOSE b \in bases : TRUE) # "spec-exception"
    <3>1. bases # {} => (CHOOSE b \in bases : TRUE) \in bases OBVIOUS
    <3>2. QED BY <2>2, <3>1
  <2>4. QED BY <2>1, <2>3 DEF basisFor
<1>3. PICK p \in Reached(Range(snap.pods), tgt) : m = Arrived(tgt, p) BY DEF Arrivals
<1>4. m.node = p.node /\ m.from = From(tgt, p) BY <1>3 DEF Arrived
<1>5. p.node = src.node
  <2>1. CASE tgt.kind # "hostport"
    <3>1. PICK b \in tgt.backends : b.pod.id = p.id BY <1>2, <2>1, ReachesBackends
    <3>2. b.pod.node = src.node BY <1>2, <3>1 DEF BackendsOn
    <3>3. p \in Range(snap.pods) BY DEF Reached, Endpoints
    <3>4. b.pod \in Range(snap.pods) BY <1>1, <3>1, BackendsOfSnapshot
    <3>5. p = b.pod BY <1>1, <3>1, <3>3, <3>4, PodsOfSnapshot
    <3>6. QED BY <3>2, <3>5
  <2>2. CASE tgt.kind = "hostport"
    <3>1. ~IsService(tgt) BY <2>2 DEF IsService
    <3>2. PICK o \in ScenarioPods(snap) : IsOf(tgt, o) BY <1>1, <3>1, PodShape
    <3>3. \E b \in tgt.backends : b.pod = o BY <3>2 DEF IsOf
    <3>4. o.node = src.node BY <1>2, <3>3 DEF BackendsOn
    <3>5. p.node = tgt.addr[1] BY <2>2, <3>1 DEF Reached
    <3>6. tgt.addr[1] = o.node BY <2>2, <3>2 DEF IsOf
    <3>7. QED BY <3>4, <3>5, <3>6
  <2>3. QED BY <2>1, <2>2
<1>6. Address = src.node /\ src.kind # "external" BY <1>1, <1>2, NodeishSource DEF Nodeish
<1>7. From(tgt, p) \in {src.node, Tunnels[src.node]}
  <2>1. tgt.kind = "nodeport" => tgt.addr[1] = tgt.node BY <1>1, ServiceShape DEF IsService
  <2>2. QED BY <1>2, <1>6, <2>1 DEF From
<1>8. QED BY <1>4, <1>5, <1>7

\* With one backend the answers came as the connects did, of sources that have
\* an address.
LEMMA AnswersStandForConnects ==
  ASSUME JInv, PortOnEveryPod, Cardinality(BackendIds) = 1, answers # {}, Basis \in {"policy", "undefined-snat"},
         NEW m \in Arrivals, src.kind # "external"
  PROVE  Basis = "policy" <=> m.from = Address
<1>1. snap \in Filtered /\ tgt \in BuildTargets(snap) /\ PairInv BY DEF JInv, IInv, PodsInv, PairInv
<1>2. PICK p \in Reached(Range(snap.pods), tgt) : m = Arrived(tgt, p) BY DEF Arrivals
<1>3. p \in Range(snap.pods) BY DEF Reached, Endpoints
<1> DEFINE observed == ObservedSources
<1> DEFINE bases == {IF ip = src.ip THEN "policy" ELSE "undefined-snat" : ip \in observed}
<1>4. observed # {} BY DEF ObservedSources
<1>5. tgt.kind # "hostnetwork" /\ Basis = CHOOSE b \in bases : TRUE
  <2>1. Basis = basisFor(observed) BY DEF Basis
  <2>2. QED BY <1>4, <2>1 DEF basisFor
<1>6. tgt.kind # "hostport"
  <2>1. tgt.kind = "hostport" => Answering = {} BY DEF Answering, Answers, IsService
  <2>2. QED BY <2>1 DEF JInv, AnswersInv
<1>7. p.id \in BackendIds
  <2>1. \E b \in tgt.backends : b.pod.id = p.id BY <1>5, <1>6, ReachesBackends
  <2>2. QED BY <2>1 DEF BackendIds
<1>8. \A x, y \in BackendIds : x = y BY <1>1, FewBackends, FS_Singleton
<1>9. \A a \in answers : a.from = From(tgt, p)
  <2> SUFFICES ASSUME NEW a \in answers PROVE a.from = From(tgt, p) OBVIOUS
  <2>1. PICK q \in ScenarioPods(snap) : a = Arrived(ShadowTarget(tgt), q) BY DEF JInv, AnswersInv, Answering
  <2>2. a.pod = q.id /\ a.from = From(ShadowTarget(tgt), q) BY <2>1 DEF Arrived
  <2>3. a.pod \in BackendIds BY <1>5, AnswersAreBackends DEF AnsweredByTheTarget
  <2>4. q \in Range(snap.pods) /\ q.id = p.id BY <1>7, <1>8, <2>2, <2>3 DEF ScenarioPods
  <2>5. q = p BY <1>1, <1>3, <2>4, PodsOfSnapshot
  <2>6. QED BY <1>1, <2>2, <2>5, ShadowFrom
<1>10. observed = {From(tgt, p)} BY <1>9 DEF ObservedSources
<1>11. bases = {IF From(tgt, p) = src.ip THEN "policy" ELSE "undefined-snat"} BY <1>10
<1> HIDE DEF bases
<1>12. Basis = IF From(tgt, p) = src.ip THEN "policy" ELSE "undefined-snat" BY <1>5, <1>11
<1>13. m.from = From(tgt, p) /\ Address = src.ip BY <1>2 DEF Arrived, Address
<1>14. QED BY <1>12, <1>13

\* The external source has no address of its own: whatever was observed of it
\* is another one.
LEMMA ExternalIsRewritten ==
  ASSUME JInv, src.kind = "external", answers # {}
  PROVE  Basis # "policy"
<1>1. snap \in Filtered /\ tgt \in BuildTargets(snap) /\ PairInv BY DEF JInv, IInv, PodsInv, PairInv
<1> DEFINE observed == ObservedSources
<1> DEFINE bases == {IF ip = src.ip THEN "policy" ELSE "undefined-snat" : ip \in observed}
<1>2. src.ip = ""
  <2>1. \A p, i : /\ Source("pod", p, i).kind = "pod" /\ Source("hostnetwork", p, i).kind = "hostnetwork"
                  /\ Source("node", p, i).kind = "node" /\ Source("outsider", p, i).kind = "outsider"
    BY DEF Source
  <2>2. src = Source("external", External, FALSE) BY <1>1, <2>1 DEF PairInv, BuildSources
  <2>3. QED BY <2>2 DEF Source, External
<1>3. tgt.kind # "hostport"
  <2>1. tgt.kind = "hostport" => Answering = {} BY DEF Answering, Answers, IsService
  <2>2. QED BY <2>1 DEF JInv, AnswersInv
<1>4. CASE tgt.kind = "hostnetwork" BY <1>4 DEF Basis, basisFor
<1>5. CASE tgt.kind = "nodeport"
  <2>1. tgt.addr[1] \in Range(snap.nodes) BY <1>1, <1>5, ServiceShape DEF IsService
  <2>2. tgt.addr[1] # "" /\ ExternalIP # "" BY <1>1, <2>1, AddressesAssumption
  <2>3. ASSUME NEW a \in answers PROVE a.from # ""
    <3>1. PICK q \in ScenarioPods(snap) : a = Arrived(ShadowTarget(tgt), q) BY DEF JInv, AnswersInv, Answering
    <3>2. a.from = From(tgt, q) BY <1>1, <3>1, ShadowFrom DEF Arrived
    <3>3. From(tgt, q) \in {ExternalIP, tgt.addr[1]} BY DEF From, Address
    <3>4. QED BY <2>2, <3>2, <3>3
  <2>4. observed # {} /\ \A ip \in observed : ip # src.ip BY <1>2, <2>3 DEF ObservedSources
  <2>5. bases # {} /\ bases \subseteq {"undefined-snat"} BY <2>4
  <2>6. (CHOOSE b \in bases : TRUE) = "undefined-snat" BY <2>5
  <2>7. observed # {} /\ ~Nodeish(src) BY <2>4 DEF Nodeish
  <2>8. basisFor(observed) # "policy" BY <2>6, <2>7 DEF basisFor
  <2>9. QED BY <2>8 DEF Basis
<1>6. tgt.kind \in {"nodeport", "hostport", "hostnetwork"} BY <1>1 DEF PairInv, Applicable
<1>7. QED BY <1>3, <1>4, <1>5, <1>6

\* A basis that is written says how the connects to the target's backends came
\* in, and policy is never said of an external source that was observed (basisFor,
\* declared.go:150-199; its address, model.go:162).
THEOREM BasisSafe == Spec => []BasisIsJustified
<1>1. JInv /\ MetIsOfSnapshot => BasisIsJustified
  <2> SUFFICES ASSUME JInv, MetIsOfSnapshot, result = "written" PROVE BasisIsJustified
    BY DEF BasisIsJustified
  <2>1. BackendIds \subseteq SnapIds BY BackendsOfSnapshot DEF JInv, IInv, PodsInv
  <2>2. \A m \in met : m.pod \in BackendIds => m \in Arrivals BY <2>1 DEF MetIsOfSnapshot
  <2>3. QED BY <2>2, ExceptionIsLocal, AnswersStandForConnects, ExternalIsRewritten DEF BasisIsJustified
<1>2. QED BY <1>1, WrittenOfSnapshot, SecondInvariant, PTL

-----------------------------------------------------------------------------
(* Every door is found, once.  What is added first for an address exists, as  *)
(* the times of the calls are well-founded; ports are resolved as the API     *)
(* says; and two calls are not made at one time.                              *)

LEMMA Least ==
  ASSUME NEW T, T \subseteq Nat, T # {}
  PROVE  \E m \in T : \A k \in T : m <= k
<1> DEFINE R == OpToRel(<, Nat)
<1>1. \E m \in T : \A k \in T : <<k, m>> \notin R
  <2>1. IsWellFoundedOn(R, Nat) BY NatLessThanWellFounded
  <2> HIDE DEF R
  <2>2. QED BY <2>1, WFMin
<1>2. \A k, m \in Nat : k < m => <<k, m>> \in R BY DEF OpToRel
<1> HIDE DEF R
<1>3. PICK m \in T : \A k \in T : <<k, m>> \notin R BY <1>1
<1>4. \A k \in T : ~(k < m) BY <1>2, <1>3, Zenon
<1>5. QED BY <1>4, SMT

LEMMA Greatest ==
  ASSUME NEW n \in Nat, NEW T, T \subseteq 1 .. n, T # {}
  PROVE  \E m \in T : \A k \in T : k <= m
<1> DEFINE U == {n - k : k \in T}
<1>1. U \subseteq Nat /\ U # {}
  <2>1. \A k \in T : k \in 1 .. n /\ n - k \in Nat OBVIOUS
  <2>2. PICK k \in T : TRUE OBVIOUS
  <2>3. n - k \in U BY <2>2
  <2>4. QED BY <2>1, <2>3
<1>2. PICK u \in U : \A v \in U : u <= v
  <2> HIDE DEF U
  <2>1. QED BY <1>1, Least
<1>3. PICK m \in T : u = n - m OBVIOUS
<1>4. \A k \in T : n - m <= n - k BY <1>2, <1>3
<1>5. QED BY <1>4

LEMMA LeastAt ==
  ASSUME NEW T, T # {}, NEW n, \A c \in T : c.at[n] \in Nat
  PROVE  \E c \in T : \A d \in T : c.at[n] <= d.at[n]
<1>1. PICK m \in {c.at[n] : c \in T} : \A k \in {c.at[n] : c \in T} : m <= k BY Least
<1>2. QED BY <1>1

LEMMA FirstExists ==
  ASSUME NEW T, T # {}, \A c \in T : \A n \in 1 .. 4 : c.at[n] \in Nat
  PROVE  \E c \in T : \A d \in T : ~Before(d, c)
<1> DEFINE T1 == {c \in T : \A d \in T : c.at[1] <= d.at[1]}
<1> DEFINE T2 == {c \in T1 : \A d \in T1 : c.at[2] <= d.at[2]}
<1> DEFINE T3 == {c \in T2 : \A d \in T2 : c.at[3] <= d.at[3]}
<1> DEFINE T4 == {c \in T3 : \A d \in T3 : c.at[4] <= d.at[4]}
<1>0. T1 \subseteq T /\ T2 \subseteq T1 /\ T3 \subseteq T2 /\ T4 \subseteq T3 OBVIOUS
<1>1. T1 # {}
  <2>1. \A c \in T : c.at[1] \in Nat OBVIOUS
  <2>2. \E c \in T : \A d \in T : c.at[1] <= d.at[1] BY <2>1, LeastAt
  <2>3. QED BY <2>2
<1>2. T2 # {}
  <2> HIDE DEF T1
  <2>1. \A c \in T1 : c.at[2] \in Nat BY <1>0, <1>1
  <2>2. \E c \in T1 : \A d \in T1 : c.at[2] <= d.at[2] BY <1>0, <1>1, <2>1, LeastAt
  <2>3. QED BY <2>2
<1>3. T3 # {}
  <2> HIDE DEF T1, T2
  <2>1. \A c \in T2 : c.at[3] \in Nat BY <1>0, <1>2
  <2>2. \E c \in T2 : \A d \in T2 : c.at[3] <= d.at[3] BY <1>0, <1>2, <2>1, LeastAt
  <2>3. QED BY <2>2
<1>4. PICK c \in T3 : \A d \in T3 : c.at[4] <= d.at[4]
  <2> HIDE DEF T1, T2, T3
  <2>1. \A d \in T3 : d.at[4] \in Nat BY <1>0
  <2>2. QED BY <1>3, <2>1, LeastAt
<1>5. c \in T /\ c \in T1 /\ c \in T2 OBVIOUS
<1>6. ASSUME NEW d \in T, Before(d, c) PROVE FALSE
  <2>1. PICK n \in 1 .. 4 : d.at[n] < c.at[n] /\ \A m \in 1 .. n - 1 : d.at[m] = c.at[m] BY <1>6 DEF Before
  <2>2. \A m \in 1 .. 4 : d.at[m] \in Nat /\ c.at[m] \in Nat BY <1>5
  <2>3. c.at[1] <= d.at[1] BY <1>5
  <2>4. n # 1 BY <2>1, <2>2, <2>3
  <2>5. d.at[1] = c.at[1] BY <2>1, <2>4
  <2>6. d \in T1 BY <1>5, <2>5
  <2>7. c.at[2] <= d.at[2] BY <1>5, <2>6
  <2>8. n # 2 BY <2>1, <2>2, <2>7
  <2>9. d.at[2] = c.at[2] BY <2>1, <2>4, <2>8
  <2>10. d \in T2 BY <1>5, <2>6, <2>9
  <2>11. c.at[3] <= d.at[3] BY <2>10
  <2>12. n # 3 BY <2>1, <2>2, <2>11
  <2>13. n = 4 /\ d.at[3] = c.at[3] BY <2>1, <2>4, <2>8, <2>12
  <2>14. d \in T3 BY <2>10, <2>13
  <2>15. c.at[4] <= d.at[4] BY <1>4, <2>14
  <2>16. QED BY <2>1, <2>2, <2>13, <2>15
<1>7. QED BY <1>5, <1>6

\* When a call is made, and what for.
Made(c, a, i, j, k, t) == c.at = <<a, i, j, k>> /\ c.target = t

LEMMA MadeAt ==
  ASSUME NEW c, NEW a, NEW i, NEW j, NEW k, NEW t, Made(c, a, i, j, k, t)
  PROVE  /\ c.at[1] = a /\ c.at[2] = i /\ c.at[3] = j /\ c.at[4] = k
         /\ c.at = <<c.at[1], c.at[2], c.at[3], c.at[4]>> /\ c.target = t
<1>1. c.at = <<a, i, j, k>> BY DEF Made
<1>2. c.at[1] = a /\ c.at[2] = i /\ c.at[3] = j /\ c.at[4] = k BY <1>1
<1>3. QED BY <1>1, <1>2 DEF Made

LEMMA CallIsMade ==
  ASSUME NEW a, NEW i, NEW j, NEW k, NEW t
  PROVE  Made(Call(<<a, i, j, k>>, t), a, i, j, k, t)
BY DEF Call, Made

AtPod(s, c) ==
  \E i \in DOMAIN s.pods : \E j \in DOMAIN s.pods[i].ports :
    \/ Made(c, 1, i, j, 1, PodTarget(s.pods[i], s.pods[i].ports[j].num))
    \/ Made(c, 1, i, j, 2, HostPortTarget(s.pods[i], s.pods[i].ports[j]))

AtBackend(s, i, j, svc, sp, c) ==
  \E k \in DOMAIN s.pods : \E b \in Backend(svc, sp, s.pods[k]) : Made(c, 2, i, j, k, PodTarget(b.pod, b.port))

AtClusterIP(s, i, j, svc, sp, c) ==
  Made(c, 2, i, j, Len(s.pods) + 1, ServiceTarget(svc, sp, Backends(s, svc, sp)))

AtNodePort(s, i, j, svc, sp, c) ==
  \E k \in DOMAIN s.nodes :
    Made(c, 2, i, j, Len(s.pods) + 1 + k, NodePortTarget(svc, sp, Backends(s, svc, sp), s.nodes[k]))

AtServicePort(s, i, j, svc, sp, c) ==
  AtBackend(s, i, j, svc, sp, c) \/ AtClusterIP(s, i, j, svc, sp, c) \/ AtNodePort(s, i, j, svc, sp, c)

AtService(s, c) ==
  \E i \in DOMAIN s.services : \E j \in DOMAIN s.services[i].ports :
    AtServicePort(s, i, j, s.services[i], s.services[i].ports[j], c)

LEMMA CallsAt ==
  ASSUME NEW s, NEW c \in Calls(s)
  PROVE  AtPod(s, c) \/ AtService(s, c)
<1>1. CASE \E i \in DOMAIN s.pods : c \in OfPod(i, s.pods[i])
  <2>1. PICK i \in DOMAIN s.pods : c \in OfPod(i, s.pods[i]) BY <1>1
  <2>2. PICK j \in DOMAIN s.pods[i].ports : c \in OfPort(i, j, s.pods[i], s.pods[i].ports[j]) BY <2>1 DEF OfPod
  <2>3. \/ c = Call(<<1, i, j, 1>>, PodTarget(s.pods[i], s.pods[i].ports[j].num))
        \/ c = Call(<<1, i, j, 2>>, HostPortTarget(s.pods[i], s.pods[i].ports[j]))
    BY <2>2 DEF OfPort
  <2>4. QED BY <2>3, CallIsMade DEF AtPod
<1>2. CASE \E i \in DOMAIN s.services : c \in OfService(s, i, s.services[i])
  <2>1. PICK i \in DOMAIN s.services : c \in OfService(s, i, s.services[i]) BY <1>2
  <2> DEFINE svc == s.services[i]
  <2>2. PICK j \in DOMAIN svc.ports : c \in OfServicePort(s, i, j, svc, svc.ports[j]) BY <2>1 DEF OfService
  <2> DEFINE sp == svc.ports[j]
  <2>3. \/ \E k \in DOMAIN s.pods : \E b \in Backend(svc, sp, s.pods[k]) : c = Call(<<2, i, j, k>>, PodTarget(b.pod, b.port))
        \/ c = Call(<<2, i, j, Len(s.pods) + 1>>, ServiceTarget(svc, sp, Backends(s, svc, sp)))
        \/ \E k \in DOMAIN s.nodes :
              c = Call(<<2, i, j, Len(s.pods) + 1 + k>>, NodePortTarget(svc, sp, Backends(s, svc, sp), s.nodes[k]))
    <3> HIDE DEF sp
    <3>1. QED BY <2>2 DEF OfServicePort, sp
  <2>4. AtServicePort(s, i, j, svc, sp, c)
    <3> HIDE DEF svc, sp
    <3>1. QED BY <2>3, CallIsMade DEF AtServicePort, AtBackend, AtClusterIP, AtNodePort
  <2>5. QED BY <2>4 DEF AtService
<1>3. QED BY <1>1, <1>2 DEF Calls

LEMMA SequencesOf ==
  ASSUME NEW s \in Filtered
  PROVE  /\ Len(s.pods) \in Nat /\ DOMAIN s.pods = 1 .. Len(s.pods)
         /\ DOMAIN s.services \subseteq Nat /\ DOMAIN s.nodes \subseteq Nat \ {0}
         /\ \A i \in DOMAIN s.pods : DOMAIN s.pods[i].ports \subseteq Nat
         /\ \A i \in DOMAIN s.services : DOMAIN s.services[i].ports \subseteq Nat
<1>1. s.pods \in Seq(Range(s.pods)) BY PodsAssumption
<1>2. s.services \in Seq(Range(s.services)) /\ s.nodes \in Seq(Range(s.nodes)) BY ServicesAssumption
<1>3. \A i \in DOMAIN s.pods : s.pods[i].ports \in Seq(Range(s.pods[i].ports)) BY PodsAssumption DEF Range
<1>4. \A i \in DOMAIN s.services : s.services[i].ports \in Seq(Range(s.services[i].ports))
  <2>1. \A v \in Range(s.services) : v.ports \in Seq(Range(v.ports)) BY ServicesAssumption
  <2>2. \A i \in DOMAIN s.services : s.services[i] \in Range(s.services) BY DEF Range
  <2>3. QED BY <2>1, <2>2
<1>5. QED BY <1>1, <1>2, <1>3, <1>4

LEMMA CallTimes ==
  ASSUME NEW s \in Filtered, NEW c \in Calls(s)
  PROVE  /\ \A n \in 1 .. 4 : c.at[n] \in Nat
         /\ c.at = <<c.at[1], c.at[2], c.at[3], c.at[4]>>
<1>1. \E a, i, j, k \in Nat : \E t : Made(c, a, i, j, k, t)
  <2>1. CASE AtPod(s, c)
    <3>1. PICK i \in DOMAIN s.pods : \E j \in DOMAIN s.pods[i].ports : \E k \in 1 .. 2 : \E t : Made(c, 1, i, j, k, t)
      BY <2>1 DEF AtPod
    <3>2. PICK j \in DOMAIN s.pods[i].ports : \E k \in 1 .. 2 : \E t : Made(c, 1, i, j, k, t) BY <3>1
    <3>3. i \in Nat /\ j \in Nat BY SequencesOf
    <3>4. QED BY <3>2, <3>3
  <2>2. CASE AtService(s, c)
    <3>1. PICK i \in DOMAIN s.services : \E j \in DOMAIN s.services[i].ports :
             AtServicePort(s, i, j, s.services[i], s.services[i].ports[j], c)
      BY <2>2 DEF AtService
    <3>2. PICK j \in DOMAIN s.services[i].ports : AtServicePort(s, i, j, s.services[i], s.services[i].ports[j], c)
      BY <3>1
    <3> DEFINE svc == s.services[i]
    <3> DEFINE sp == svc.ports[j]
    <3>3. i \in Nat /\ j \in Nat BY SequencesOf
    <3>4. AtServicePort(s, i, j, svc, sp, c) BY <3>2
    <3> HIDE DEF svc, sp
    <3>5. \E k \in Nat : \E t : Made(c, 2, i, j, k, t)
      <4>1. CASE AtBackend(s, i, j, svc, sp, c)
        <5>1. DOMAIN s.pods \subseteq Nat BY SequencesOf
        <5>2. QED BY <4>1, <5>1 DEF AtBackend
      <4>2. CASE AtClusterIP(s, i, j, svc, sp, c)
        <5>1. Len(s.pods) + 1 \in Nat BY SequencesOf
        <5>2. QED BY <4>2, <5>1 DEF AtClusterIP
      <4>3. CASE AtNodePort(s, i, j, svc, sp, c)
        <5>1. \A k \in DOMAIN s.nodes : Len(s.pods) + 1 + k \in Nat BY SequencesOf
        <5>2. QED BY <4>3, <5>1 DEF AtNodePort
      <4>4. QED BY <3>4, <4>1, <4>2, <4>3 DEF AtServicePort
    <3>6. QED BY <3>3, <3>5
  <2>3. QED BY <2>1, <2>2, CallsAt
<1>2. PICK a, i, j, k \in Nat : \E t : Made(c, a, i, j, k, t) BY <1>1
<1>3. PICK t : Made(c, a, i, j, k, t) BY <1>2
<1>4. QED BY <1>3, MadeAt

LEMMA OneBackend ==
  ASSUME NEW svc, NEW sp, NEW p, NEW b \in Backend(svc, sp, p), NEW c \in Backend(svc, sp, p)
  PROVE  b = c
<1>1. \A r, q \in P!ResolveTargetPort(p, sp) : r = q
  <2> DEFINE fits == {i \in DOMAIN p.ports : IF sp.target.name # "" THEN p.ports[i].name = sp.target.name
                                             ELSE p.ports[i].num = sp.target.num}
  <2> DEFINE port == p.ports[CHOOSE i \in fits : \A j \in fits : i <= j]
  <2>1. \/ P!ResolveTargetPort(p, sp) = {[num |-> port.num, name |-> port.name]}
        \/ P!ResolveTargetPort(p, sp) = {}
        \/ \E n : P!ResolveTargetPort(p, sp) = {[num |-> n, name |-> ""]}
    BY DEF P!ResolveTargetPort
  <2>2. QED BY <2>1
<1>2. PICK r \in P!ResolveTargetPort(p, sp) : b = [pod |-> p, port |-> r.num] BY DEF Backend
<1>3. PICK q \in P!ResolveTargetPort(p, sp) : c = [pod |-> p, port |-> q.num] BY DEF Backend
<1>4. QED BY <1>1, <1>2, <1>3

\* Of two calls one is the first.
LEMMA OneAtATime ==
  ASSUME NEW s \in Filtered, NEW c \in Calls(s), NEW d \in Calls(s), c.at = d.at
  PROVE  c.target = d.target
<1>1. (AtPod(s, c) \/ AtService(s, c)) /\ (AtPod(s, d) \/ AtService(s, d)) BY CallsAt
<1>2. \A e : AtPod(s, e) => e.at[1] = 1 BY MadeAt DEF AtPod
<1>3. \A e : AtService(s, e) => e.at[1] = 2
  BY MadeAt DEF AtService, AtServicePort, AtBackend, AtClusterIP, AtNodePort
<1>4. CASE AtPod(s, c) /\ AtPod(s, d)
  <2>1. PICK i, j :
           \/ Made(c, 1, i, j, 1, PodTarget(s.pods[i], s.pods[i].ports[j].num))
           \/ Made(c, 1, i, j, 2, HostPortTarget(s.pods[i], s.pods[i].ports[j]))
    BY <1>4 DEF AtPod
  <2>2. PICK k, l :
           \/ Made(d, 1, k, l, 1, PodTarget(s.pods[k], s.pods[k].ports[l].num))
           \/ Made(d, 1, k, l, 2, HostPortTarget(s.pods[k], s.pods[k].ports[l]))
    BY <1>4 DEF AtPod
  <2>3. i = k /\ j = l BY <2>1, <2>2, MadeAt
  <2>4. QED BY <2>1, <2>2, <2>3, MadeAt
<1>5. CASE AtService(s, c) /\ AtService(s, d)
  <2>1. PICK i, j : AtServicePort(s, i, j, s.services[i], s.services[i].ports[j], c) BY <1>5 DEF AtService
  <2>2. PICK k, l : AtServicePort(s, k, l, s.services[k], s.services[k].ports[l], d) BY <1>5 DEF AtService
  <2>3. c.at[2] = i /\ c.at[3] = j
    <3> DEFINE svc == s.services[i]
    <3> DEFINE sp == svc.ports[j]
    <3>1. AtServicePort(s, i, j, svc, sp, c) BY <2>1
    <3> HIDE DEF svc, sp
    <3>2. QED BY <3>1, MadeAt DEF AtServicePort, AtBackend, AtClusterIP, AtNodePort
  <2>4. d.at[2] = k /\ d.at[3] = l
    <3> DEFINE svc == s.services[k]
    <3> DEFINE sp == svc.ports[l]
    <3>1. AtServicePort(s, k, l, svc, sp, d) BY <2>2
    <3> HIDE DEF svc, sp
    <3>2. QED BY <3>1, MadeAt DEF AtServicePort, AtBackend, AtClusterIP, AtNodePort
  <2>5. i = k /\ j = l BY <2>3, <2>4
  <2> DEFINE svc == s.services[i]
  <2> DEFINE sp == svc.ports[j]
  <2> DEFINE last == Len(s.pods)
  <2>6. AtServicePort(s, i, j, svc, sp, c) /\ AtServicePort(s, i, j, svc, sp, d) BY <2>1, <2>2, <2>5
  <2>7. last \in Nat /\ DOMAIN s.pods = 1 .. last /\ DOMAIN s.nodes \subseteq Nat \ {0} BY SequencesOf
  <2> HIDE DEF svc, sp, last
  <2>8. \A e : /\ AtBackend(s, i, j, svc, sp, e) => e.at[4] \in 1 .. last
               /\ AtClusterIP(s, i, j, svc, sp, e) => e.at[4] = last + 1
               /\ AtNodePort(s, i, j, svc, sp, e) => e.at[4] - (last + 1) \in DOMAIN s.nodes
                                                     /\ e.at[4] > last + 1
    <3> TAKE e
    <3>1. AtBackend(s, i, j, svc, sp, e) => e.at[4] \in 1 .. last BY <2>7, MadeAt DEF AtBackend
    <3>2. AtClusterIP(s, i, j, svc, sp, e) => e.at[4] = last + 1 BY MadeAt DEF AtClusterIP, last
    <3>3. ASSUME AtNodePort(s, i, j, svc, sp, e)
          PROVE  e.at[4] - (last + 1) \in DOMAIN s.nodes /\ e.at[4] > last + 1
      <4>1. PICK m \in DOMAIN s.nodes : e.at[4] = last + 1 + m BY <3>3, MadeAt DEF AtNodePort, last
      <4>2. m \in Nat /\ m > 0 BY <2>7
      <4>3. QED BY <2>7, <4>1, <4>2
    <3>4. QED BY <3>1, <3>2, <3>3
  <2>9. CASE AtBackend(s, i, j, svc, sp, c) /\ AtBackend(s, i, j, svc, sp, d)
    <3>1. PICK m \in DOMAIN s.pods : \E b \in Backend(svc, sp, s.pods[m]) : Made(c, 2, i, j, m, PodTarget(b.pod, b.port))
      BY <2>9 DEF AtBackend
    <3>2. PICK n \in DOMAIN s.pods : \E b \in Backend(svc, sp, s.pods[n]) : Made(d, 2, i, j, n, PodTarget(b.pod, b.port))
      BY <2>9 DEF AtBackend
    <3>3. PICK b \in Backend(svc, sp, s.pods[m]) : Made(c, 2, i, j, m, PodTarget(b.pod, b.port)) BY <3>1
    <3>4. PICK e \in Backend(svc, sp, s.pods[n]) : Made(d, 2, i, j, n, PodTarget(e.pod, e.port)) BY <3>2
    <3>5. m = n BY <3>3, <3>4, MadeAt
    <3>6. b = e BY <3>5, OneBackend
    <3>7. QED BY <3>3, <3>4, <3>6, MadeAt
  <2>10. CASE AtClusterIP(s, i, j, svc, sp, c) /\ AtClusterIP(s, i, j, svc, sp, d)
    BY <2>10, MadeAt DEF AtClusterIP
  <2>11. CASE AtNodePort(s, i, j, svc, sp, c) /\ AtNodePort(s, i, j, svc, sp, d)
    <3>1. PICK m \in DOMAIN s.nodes :
             Made(c, 2, i, j, last + 1 + m, NodePortTarget(svc, sp, Backends(s, svc, sp), s.nodes[m]))
      BY <2>11 DEF AtNodePort, last
    <3>2. PICK n \in DOMAIN s.nodes :
             Made(d, 2, i, j, last + 1 + n, NodePortTarget(svc, sp, Backends(s, svc, sp), s.nodes[n]))
      BY <2>11 DEF AtNodePort, last
    <3>3. last + 1 + m = last + 1 + n BY <3>1, <3>2, MadeAt
    <3>4. m = n BY <2>7, <3>3
    <3>5. QED BY <3>1, <3>2, <3>4, MadeAt
  <2>12. QED
    <3>1. c.at[4] = d.at[4] OBVIOUS
    <3>2. QED BY <2>6, <2>7, <2>8, <2>9, <2>10, <2>11, <3>1 DEF AtServicePort
<1>6. QED
  <2>1. c.at[1] = d.at[1] OBVIOUS
  <2>2. QED BY <1>1, <1>2, <1>3, <1>4, <1>5, <2>1

\* add: for an address that is called for there is one target.
LEMMA AddedOnce ==
  ASSUME NEW s \in Filtered
  PROVE  /\ \A t, u \in BuildTargets(s) : t.addr = u.addr => t = u
         /\ \A t : IsCall(s, t) => \E u \in BuildTargets(s) : u.addr = t.addr
<1>1. ASSUME NEW t \in BuildTargets(s), NEW u \in BuildTargets(s), t.addr = u.addr PROVE t = u
  <2>1. PICK c \in Calls(s) : First(c, Calls(s)) /\ t = c.target BY DEF BuildTargets
  <2>2. PICK d \in Calls(s) : First(d, Calls(s)) /\ u = d.target BY DEF BuildTargets
  <2>3. ~Before(c, d) /\ ~Before(d, c) BY <1>1, <2>1, <2>2 DEF First
  <2>4. \A n \in 1 .. 4 : c.at[n] \in Nat /\ d.at[n] \in Nat BY CallTimes
  <2>5. c.at[1] = d.at[1] BY <2>3, <2>4 DEF Before
  <2>6. c.at[2] = d.at[2] BY <2>3, <2>4, <2>5 DEF Before
  <2>7. c.at[3] = d.at[3] BY <2>3, <2>4, <2>5, <2>6 DEF Before
  <2>8. c.at[4] = d.at[4] BY <2>3, <2>4, <2>5, <2>6, <2>7 DEF Before
  <2>9. c.at = d.at BY <2>5, <2>6, <2>7, <2>8, CallTimes
  <2>10. QED BY <2>1, <2>2, <2>9, OneAtATime
<1>2. ASSUME NEW t, IsCall(s, t) PROVE \E u \in BuildTargets(s) : u.addr = t.addr
  <2> DEFINE T == {c \in Calls(s) : c.target.addr = t.addr}
  <2>1. T # {} BY <1>2, CallsAre DEF Called
  <2>2. \A c \in T : \A n \in 1 .. 4 : c.at[n] \in Nat BY CallTimes
  <2>3. PICK c \in T : \A d \in T : ~Before(d, c)
    <3> HIDE DEF T
    <3>1. QED BY <2>1, <2>2, FirstExists
  <2>4. First(c, Calls(s)) BY <2>3 DEF First
  <2>5. c.target \in BuildTargets(s) BY <2>4 DEF BuildTargets
  <2>6. QED BY <2>5
<1>3. QED BY <1>1, <1>2

LEMMA NumberOf ==
  ASSUME NEW n, NEW name
  PROVE  {r.num : r \in {[num |-> n, name |-> name]}} = {n}
OBVIOUS

\* A Service's port is resolved to the port of the pod that the API means.
LEMMA ResolvedAsMeant ==
  ASSUME NEW s \in Filtered, OwnNames(s), NEW svc \in ScenarioServices(s), NEW sp \in TCPServicePorts(svc),
         NEW p \in Selected(s, svc)
  PROVE  {r.num : r \in P!ResolveTargetPort(p, sp)} = TargetNumbers(sp, p)
<1>0. DOMAIN p.ports \subseteq Nat
  <2>1. p \in Range(s.pods) BY DEF Selected, ScenarioPods
  <2>2. p.ports \in Seq(Range(p.ports)) BY <2>1, PodsAssumption
  <2>3. QED BY <2>2
<1> DEFINE fits == {i \in DOMAIN p.ports : IF sp.target.name # "" THEN p.ports[i].name = sp.target.name
                                           ELSE p.ports[i].num = sp.target.num}
<1> DEFINE first == CHOOSE i \in fits : \A j \in fits : i <= j
<1>1. p \in Range(s.pods) /\ p.ports \in Seq(Range(p.ports)) /\ \A c \in Range(p.ports) : c.num \in Nat \ {0}
  BY PodsAssumption DEF Selected, ScenarioPods
<1>2. fits # {} => first \in fits
  <2> SUFFICES ASSUME fits # {} PROVE first \in fits OBVIOUS
  <2>1. fits \subseteq Nat
    <3>1. fits \subseteq DOMAIN p.ports OBVIOUS
    <3> HIDE DEF fits
    <3>2. QED BY <1>0, <3>1
  <2> HIDE DEF fits
  <2>2. \E i \in fits : \A j \in fits : i <= j BY <2>1, Least
  <2>3. QED BY <2>2
<1>3. CASE sp.target.name = ""
  <2>1. CASE fits # {}
    <3>1. p.ports[first] \in Range(p.ports) /\ p.ports[first].num = sp.target.num BY <1>2, <1>3, <2>1 DEF Range
    <3>2. sp.target.num # 0 BY <1>1, <3>1
    <3>3. P!ResolveTargetPort(p, sp) = {[num |-> p.ports[first].num, name |-> p.ports[first].name]}
      BY <2>1 DEF P!ResolveTargetPort
    <3>4. {r.num : r \in P!ResolveTargetPort(p, sp)} = {sp.target.num}
      <4> HIDE DEF first, fits
      <4>1. QED BY <3>1, <3>3
    <3>5. QED BY <1>3, <3>2, <3>4 DEF TargetNumbers
  <2>2. CASE fits = {}
    <3>1. P!ResolveTargetPort(p, sp) = {[num |-> IF sp.target.num = 0 THEN sp.port ELSE sp.target.num, name |-> ""]}
      BY <1>3, <2>2 DEF P!ResolveTargetPort
    <3> DEFINE number == IF sp.target.num = 0 THEN sp.port ELSE sp.target.num
    <3>2. {r.num : r \in {[num |-> number, name |-> ""]}} = {number} BY NumberOf
    <3>3. QED BY <1>3, <3>1, <3>2 DEF TargetNumbers
  <2>3. QED BY <2>1, <2>2
<1>4. CASE sp.target.name # ""
  <2>1. fits = {i \in DOMAIN p.ports : p.ports[i].name = sp.target.name} BY <1>4
  <2>2. \A i, j \in fits : i = j BY <1>1, <1>4, <2>1 DEF OwnNames
  <2>3. \A i \in fits : p.ports[i].tcp
    <3>1. svc \in Range(s.services) BY DEF ScenarioServices
    <3>2. \A c \in Range(p.ports) : sp.target.name = c.name => c.tcp BY <1>4, <3>1 DEF OwnNames
    <3>3. \A i \in fits : p.ports[i] \in Range(p.ports) BY DEF Range
    <3>4. QED BY <2>1, <3>2, <3>3
  <2>4. TargetNumbers(sp, p) = {p.ports[i].num : i \in fits}
    <3>1. {d \in TCPPorts(p) : d.name = sp.target.name} = {p.ports[i] : i \in fits}
      BY <2>1, <2>3 DEF TCPPorts, Range
    <3> HIDE DEF fits
    <3>2. TargetNumbers(sp, p) = {c.num : c \in {d \in TCPPorts(p) : d.name = sp.target.name}}
      BY <1>4 DEF TargetNumbers
    <3>3. QED BY <3>1, <3>2
  <2>5. CASE fits # {}
    <3>1. P!ResolveTargetPort(p, sp) = {[num |-> p.ports[first].num, name |-> p.ports[first].name]}
      BY <2>5 DEF P!ResolveTargetPort
    <3>2. \A i \in fits : i = first BY <1>2, <2>2, <2>5
    <3>3. first \in fits BY <1>2, <2>5
    <3> HIDE DEF first, fits
    <3>4. TargetNumbers(sp, p) = {p.ports[first].num} BY <2>4, <3>2, <3>3
    <3>5. QED BY <3>1, <3>4
  <2>6. CASE fits = {}
    <3>1. P!ResolveTargetPort(p, sp) = {} BY <1>4, <2>6 DEF P!ResolveTargetPort
    <3> HIDE DEF fits
    <3>2. TargetNumbers(sp, p) = {} BY <2>4, <2>6
    <3>3. QED BY <3>1, <3>2
  <2>7. QED BY <2>5, <2>6
<1>5. QED BY <1>3, <1>4

\* The door that a target stands for.
PairsOf(backends) == {<<b.pod.id, b.port>> : b \in backends}
FoundDoor(t) == Door(t.addr, PairsOf(t.backends))

LEMMA FoundPodDoors ==
  ASSUME NEW p, NEW n
  PROVE  FoundDoor(PodTarget(p, n)) = Door(<<p.ip, n>>, {<<p.id, n>>})
<1>1. PairsOf({[pod |-> p, port |-> n]}) = {<<p.id, n>>} BY DEF PairsOf
<1>2. PodTarget(p, n).addr = <<p.ip, n>> /\ PodTarget(p, n).backends = {[pod |-> p, port |-> n]} BY DEF PodTarget
<1>3. QED BY <1>1, <1>2 DEF FoundDoor

LEMMA FoundHostPortDoors ==
  ASSUME NEW p, NEW c
  PROVE  FoundDoor(HostPortTarget(p, c)) = Door(<<p.node, c.hostPort>>, {<<p.id, c.num>>})
<1>1. PairsOf({[pod |-> p, port |-> c.num]}) = {<<p.id, c.num>>} BY DEF PairsOf
<1>2. /\ HostPortTarget(p, c).addr = <<p.node, c.hostPort>>
      /\ HostPortTarget(p, c).backends = {[pod |-> p, port |-> c.num]}
  BY DEF HostPortTarget, PodTarget
<1>3. QED BY <1>1, <1>2 DEF FoundDoor

LEMMA FoundServiceDoors ==
  ASSUME NEW svc, NEW sp, NEW backends
  PROVE  FoundDoor(ServiceTarget(svc, sp, backends)) = Door(<<svc.clusterIP, sp.port>>, PairsOf(backends))
BY DEF FoundDoor, ServiceTarget

LEMMA FoundNodePortDoors ==
  ASSUME NEW svc, NEW sp, NEW backends, NEW node
  PROVE  FoundDoor(NodePortTarget(svc, sp, backends, node)) = Door(<<node, sp.nodePort>>, PairsOf(backends))
<1>1. /\ NodePortTarget(svc, sp, backends, node).addr = <<node, sp.nodePort>>
      /\ NodePortTarget(svc, sp, backends, node).backends = backends
  BY DEF NodePortTarget, ServiceTarget
<1>2. QED BY <1>1 DEF FoundDoor

LEMMA PodDoorsAreFound ==
  ASSUME NEW p, NEW d
  PROVE  d \in PodDoors(p) <=> \E t : OfThePod(p, t) /\ d = FoundDoor(t)
<1>1. d \in PodDoors(p) <=>
         \E c \in TCPPorts(p) :
            \/ d = Door(<<p.ip, c.num>>, {<<p.id, c.num>>})
            \/ c.hostPort > 0 /\ ~p.hostNetwork /\ d = Door(<<p.node, c.hostPort>>, {<<p.id, c.num>>})
  BY DEF PodDoors
<1>2. @ <=> \E c \in TCPPorts(p) :
              \/ d = FoundDoor(PodTarget(p, c.num))
              \/ c.hostPort > 0 /\ ~p.hostNetwork /\ d = FoundDoor(HostPortTarget(p, c))
  BY FoundPodDoors, FoundHostPortDoors
<1>3. QED BY <1>1, <1>2 DEF OfThePod

LEMMA ServiceDoorsAreFound ==
  ASSUME NEW s \in Filtered, OwnNames(s), NEW svc \in ScenarioServices(s), NEW sp \in TCPServicePorts(svc), NEW d
  PROVE  d \in ServiceDoors(s, svc, sp) <=> \E t : OfTheServicePort(s, svc, sp, t) /\ d = FoundDoor(t)
<1> DEFINE B == Backends(s, svc, sp)
<1>1. \A p \in Range(s.pods) : p \notin Selected(s, svc) => Backend(svc, sp, p) = {}
  BY DEF Selected, ScenarioPods, Backend
<1>2. \A p \in Selected(s, svc) : Backend(svc, sp, p) = {[pod |-> p, port |-> n] : n \in TargetNumbers(sp, p)}
  <2> TAKE p \in Selected(s, svc)
  <2>1. Backend(svc, sp, p) = {[pod |-> p, port |-> r.num] : r \in P!ResolveTargetPort(p, sp)}
    BY DEF Backend, Selected, ScenarioPods
  <2>2. {r.num : r \in P!ResolveTargetPort(p, sp)} = TargetNumbers(sp, p) BY ResolvedAsMeant
  <2>3. QED BY <2>1, <2>2
<1>3. Selected(s, svc) \subseteq Range(s.pods) BY DEF Selected, ScenarioPods
<1>4. \A b : b \in B <=> \E p \in Selected(s, svc) : \E n \in TargetNumbers(sp, p) : b = [pod |-> p, port |-> n]
  BY <1>1, <1>2, <1>3 DEF Backends
<1>5. PairsOf(B) = Behind(s, svc, sp)
  <2> HIDE DEF B
  <2>1. \A x : x \in PairsOf(B) <=> \E b \in B : x = <<b.pod.id, b.port>> BY DEF PairsOf
  <2>2. \A x : x \in Behind(s, svc, sp) <=> \E p \in Selected(s, svc) : \E n \in TargetNumbers(sp, p) : x = <<p.id, n>>
    BY DEF Behind
  <2>3. \A x : (\E b \in B : x = <<b.pod.id, b.port>>) <=>
                 \E p \in Selected(s, svc) : \E n \in TargetNumbers(sp, p) : x = <<p.id, n>>
    <3> TAKE x
    <3>1. ASSUME NEW b \in B, x = <<b.pod.id, b.port>>
          PROVE  \E p \in Selected(s, svc) : \E n \in TargetNumbers(sp, p) : x = <<p.id, n>>
      <4>1. PICK p \in Selected(s, svc) : \E n \in TargetNumbers(sp, p) : b = [pod |-> p, port |-> n] BY <1>4
      <4>2. PICK n \in TargetNumbers(sp, p) : b = [pod |-> p, port |-> n] BY <4>1
      <4>3. x = <<p.id, n>> BY <3>1, <4>2
      <4>4. QED BY <4>3
    <3>2. ASSUME NEW p \in Selected(s, svc), NEW n \in TargetNumbers(sp, p), x = <<p.id, n>>
          PROVE  \E b \in B : x = <<b.pod.id, b.port>>
      <4>1. [pod |-> p, port |-> n] \in B BY <1>4
      <4>2. QED BY <3>2, <4>1
    <3>3. QED BY <3>1, <3>2
  <2>4. QED BY <2>1, <2>2, <2>3
<1>6. d \in ServiceDoors(s, svc, sp) <=>
         \/ \E p \in Selected(s, svc) : \E n \in TargetNumbers(sp, p) : d = Door(<<p.ip, n>>, {<<p.id, n>>})
         \/ svc.clusterIP \notin {"", "None"} /\ d = Door(<<svc.clusterIP, sp.port>>, Behind(s, svc, sp))
         \/ \E n \in Range(s.nodes) : sp.nodePort > 0 /\ d = Door(<<n, sp.nodePort>>, Behind(s, svc, sp))
  <2> DEFINE D1 == UNION {{Door(<<p.ip, n>>, {<<p.id, n>>}) : n \in TargetNumbers(sp, p)} : p \in Selected(s, svc)}
  <2> DEFINE D2 == {Door(<<host, sp.port>>, Behind(s, svc, sp)) : host \in {svc.clusterIP} \ {"", "None"}}
  <2> DEFINE D3 == {Door(<<n, sp.nodePort>>, Behind(s, svc, sp)) : n \in {m \in Range(s.nodes) : sp.nodePort > 0}}
  <2>1. d \in D1 <=> \E p \in Selected(s, svc) : \E n \in TargetNumbers(sp, p) : d = Door(<<p.ip, n>>, {<<p.id, n>>})
    <3>1. d \in D1 <=> \E p \in Selected(s, svc) : d \in {Door(<<p.ip, n>>, {<<p.id, n>>}) : n \in TargetNumbers(sp, p)}
      OBVIOUS
    <3>2. \A p : d \in {Door(<<p.ip, n>>, {<<p.id, n>>}) : n \in TargetNumbers(sp, p)} <=>
                   \E n \in TargetNumbers(sp, p) : d = Door(<<p.ip, n>>, {<<p.id, n>>})
      OBVIOUS
    <3> HIDE DEF D1
    <3>3. QED BY <3>1, <3>2
  <2>2. d \in D2 <=> svc.clusterIP \notin {"", "None"} /\ d = Door(<<svc.clusterIP, sp.port>>, Behind(s, svc, sp))
    <3>1. d \in D2 <=> \E host \in {svc.clusterIP} \ {"", "None"} : d = Door(<<host, sp.port>>, Behind(s, svc, sp))
      BY Zenon
    <3> HIDE DEF D2
    <3>2. QED BY <3>1
  <2>3. d \in D3 <=> \E n \in Range(s.nodes) : sp.nodePort > 0 /\ d = Door(<<n, sp.nodePort>>, Behind(s, svc, sp))
    OBVIOUS
  <2>4. d \in ServiceDoors(s, svc, sp) <=> (d \in D1 \/ d \in D2 \/ d \in D3) BY Zenon DEF ServiceDoors
  <2> HIDE DEF D1, D2, D3
  <2>5. QED BY <2>1, <2>2, <2>3, <2>4
<1>7. (\E p \in Selected(s, svc) : \E n \in TargetNumbers(sp, p) : d = Door(<<p.ip, n>>, {<<p.id, n>>}))
      <=> \E p \in Range(s.pods) : \E b \in Backend(svc, sp, p) : d = FoundDoor(PodTarget(b.pod, b.port))
  <2>1. (\E p \in Range(s.pods) : \E b \in Backend(svc, sp, p) : d = FoundDoor(PodTarget(b.pod, b.port)))
        <=> \E p \in Selected(s, svc) : \E n \in TargetNumbers(sp, p) : d = FoundDoor(PodTarget(p, n))
    <3>1. ASSUME NEW p \in Range(s.pods), NEW b \in Backend(svc, sp, p), d = FoundDoor(PodTarget(b.pod, b.port))
          PROVE  \E q \in Selected(s, svc) : \E n \in TargetNumbers(sp, q) : d = FoundDoor(PodTarget(q, n))
      <4>1. p \in Selected(s, svc) BY <1>1
      <4>2. PICK n \in TargetNumbers(sp, p) : b = [pod |-> p, port |-> n] BY <1>2, <4>1
      <4>3. b.pod = p /\ b.port = n BY <4>2
      <4>4. QED BY <3>1, <4>1, <4>3
    <3>2. ASSUME NEW q \in Selected(s, svc), NEW n \in TargetNumbers(sp, q), d = FoundDoor(PodTarget(q, n))
          PROVE  \E p \in Range(s.pods) : \E b \in Backend(svc, sp, p) : d = FoundDoor(PodTarget(b.pod, b.port))
      <4> DEFINE b == [pod |-> q, port |-> n]
      <4>1. b \in Backend(svc, sp, q) BY <1>2
      <4>2. b.pod = q /\ b.port = n OBVIOUS
      <4> HIDE DEF b
      <4>3. QED BY <1>3, <3>2, <4>1, <4>2
    <3>3. QED BY <3>1, <3>2
  <2>2. \A p, n : FoundDoor(PodTarget(p, n)) = Door(<<p.ip, n>>, {<<p.id, n>>}) BY FoundPodDoors
  <2>3. QED BY <2>1, <2>2
<1>8. (\E t : OfTheServicePort(s, svc, sp, t) /\ d = FoundDoor(t)) <=>
         \/ \E p \in Range(s.pods) : \E b \in Backend(svc, sp, p) : d = FoundDoor(PodTarget(b.pod, b.port))
         \/ svc.clusterIP \notin {"", "None"} /\ d = FoundDoor(ServiceTarget(svc, sp, B))
         \/ \E n \in Range(s.nodes) : sp.nodePort > 0 /\ d = FoundDoor(NodePortTarget(svc, sp, B, n))
  BY DEF OfTheServicePort
<1> HIDE DEF B
<1>9. /\ FoundDoor(ServiceTarget(svc, sp, B)) = Door(<<svc.clusterIP, sp.port>>, Behind(s, svc, sp))
      /\ \A n : FoundDoor(NodePortTarget(svc, sp, B, n)) = Door(<<n, sp.nodePort>>, Behind(s, svc, sp))
  <2>1. FoundDoor(ServiceTarget(svc, sp, B)) = Door(<<svc.clusterIP, sp.port>>, PairsOf(B)) BY FoundServiceDoors
  <2>2. \A n : FoundDoor(NodePortTarget(svc, sp, B, n)) = Door(<<n, sp.nodePort>>, PairsOf(B)) BY FoundNodePortDoors
  <2>3. QED BY <1>5, <2>1, <2>2
<1>10. QED BY <1>6, <1>7, <1>8, <1>9

LEMMA DoorsAreFound ==
  ASSUME NEW s \in Filtered, OwnNames(s), NEW d
  PROVE  d \in Doors(s) <=> \E t : IsCall(s, t) /\ d = FoundDoor(t)
<1>1. d \in Doors(s) <=>
         \/ \E p \in ScenarioPods(s) : d \in PodDoors(p)
         \/ \E svc \in ScenarioServices(s) : \E sp \in TCPServicePorts(svc) : d \in ServiceDoors(s, svc, sp)
  BY DEF Doors
<1>2. @ <=> \/ \E p \in ScenarioPods(s) : \E t : OfThePod(p, t) /\ d = FoundDoor(t)
            \/ \E svc \in ScenarioServices(s) : \E sp \in TCPServicePorts(svc) :
                  \E t : OfTheServicePort(s, svc, sp, t) /\ d = FoundDoor(t)
  BY PodDoorsAreFound, ServiceDoorsAreFound
<1>3. QED BY <1>1, <1>2 DEF IsCall

\* The oracle probes every address that the API exposes, once, and with what is
\* behind it (buildTargets, model.go:166-253).
THEOREM EveryDoorIsProbed == Spec => []DoorsAreProbed
<1>1. JInv => DoorsAreProbed
  <2> SUFFICES ASSUME snap \in Filtered, OnePurpose(snap), OwnNames(snap)
               PROVE  /\ {FoundDoor(t) : t \in BuildTargets(snap)} = Doors(snap)
                      /\ \A t, u \in BuildTargets(snap) : t.addr = u.addr => t = u
    BY DEF JInv, IInv, PodsInv, DoorsAreProbed, FoundDoor, PairsOf
  <2>1. \A t \in BuildTargets(snap) : FoundDoor(t) \in Doors(snap) BY TargetsAreCalls, DoorsAreFound
  <2>2. ASSUME NEW d \in Doors(snap) PROVE \E u \in BuildTargets(snap) : d = FoundDoor(u)
    <3>1. PICK t : IsCall(snap, t) /\ d = FoundDoor(t) BY DoorsAreFound
    <3>2. PICK u \in BuildTargets(snap) : u.addr = t.addr BY <3>1, AddedOnce
    <3>3. FoundDoor(u).addr = d.addr BY <3>1, <3>2 DEF FoundDoor, Door
    <3>4. FoundDoor(u) = d BY <2>1, <3>3 DEF OnePurpose
    <3>5. QED BY <3>4
  <2>3. QED BY <2>1, <2>2, AddedOnce
<1>2. QED BY <1>1, SecondInvariant, PTL

-----------------------------------------------------------------------------
(* The identity that policies see.                                            *)

LEMMA EntriesAre ==
  ASSUME snap \in Filtered
  PROVE  \E n \in Nat :
            /\ DOMAIN Entries = 1 .. n
            /\ \A i \in DOMAIN Entries : Entries[i] \in Range(snap.pods) \union {Outsider}
            /\ \A p \in Range(snap.pods) \union {Outsider} : \E i \in DOMAIN Entries : Entries[i] = p
<1> DEFINE n == Len(snap.pods)
<1>1. snap.pods \in Seq(Range(snap.pods)) BY PodsAssumption
<1>2. n \in Nat /\ DOMAIN snap.pods = 1 .. n BY <1>1
<1>3. DOMAIN Entries = 1 .. n + 1 /\ Entries[n + 1] = Outsider /\ \A i \in 1 .. n : Entries[i] = snap.pods[i]
  BY <1>1 DEF Entries
<1> HIDE DEF n
<1>4. \A i \in 1 .. n + 1 : i \in 1 .. n \/ i = n + 1 BY <1>2
<1>5. \A i \in DOMAIN Entries : Entries[i] \in Range(snap.pods) \union {Outsider}
  BY <1>2, <1>3, <1>4 DEF Range
<1>6. \A p \in Range(snap.pods) \union {Outsider} : \E i \in DOMAIN Entries : Entries[i] = p
  <2>1. n + 1 \in 1 .. n + 1 /\ 1 .. n \subseteq 1 .. n + 1 BY <1>2
  <2>2. ASSUME NEW p \in Range(snap.pods) PROVE \E i \in DOMAIN Entries : Entries[i] = p
    <3>1. PICK i \in 1 .. n : snap.pods[i] = p BY <1>2 DEF Range
    <3>2. QED BY <1>3, <2>1, <3>1
  <2>3. QED BY <1>3, <2>1, <2>2
<1>7. n + 1 \in Nat BY <1>2
<1>8. QED BY <1>3, <1>5, <1>6, <1>7

\* An address of the pod network stands for its pod.
LEMMA PodIsObserved ==
  ASSUME snap \in Filtered, OwnAddresses, NEW p \in Range(snap.pods) \union {Outsider}, ~p.hostNetwork
  PROVE  observedPeer(p.ip) = Peer(p, p.ip)
<1> DEFINE at == CHOOSE i \in podsByIP(p.ip) : \A j \in podsByIP(p.ip) : j <= i
<1>1. PICK n \in Nat :
         /\ DOMAIN Entries = 1 .. n
         /\ \A i \in DOMAIN Entries : Entries[i] \in Range(snap.pods) \union {Outsider}
         /\ \A q \in Range(snap.pods) \union {Outsider} : \E i \in DOMAIN Entries : Entries[i] = q
  BY EntriesAre
<1>2. podsByIP(p.ip) \subseteq 1 .. n BY <1>1 DEF podsByIP
<1>3. podsByIP(p.ip) # {} BY <1>1 DEF podsByIP
<1>4. at \in podsByIP(p.ip)
  <2>1. \E i \in podsByIP(p.ip) : \A j \in podsByIP(p.ip) : j <= i BY <1>2, <1>3, Greatest
  <2>2. QED BY <2>1
<1> HIDE DEF at
<1>5. Entries[at] \in Range(snap.pods) \union {Outsider} /\ ~Entries[at].hostNetwork /\ Entries[at].ip = p.ip
  BY <1>1, <1>4 DEF podsByIP
<1>6. Entries[at] = p BY <1>5 DEF OwnAddresses
<1>7. QED BY <1>3, <1>6 DEF observedPeer, at

\* An address that is a node's, or from outside, stands for no pod.
LEMMA HostIsObserved ==
  ASSUME snap \in Filtered, NEW ip \in Range(snap.nodes) \union {ExternalIP}
  PROVE  observedPeer(ip) = AddressPeer(ip)
<1>1. \A i \in DOMAIN Entries : Entries[i] \in Range(snap.pods) \union {Outsider} BY EntriesAre
<1>2. \A i \in DOMAIN Entries : ~Entries[i].hostNetwork => Entries[i].ip # ip BY <1>1, AddressesAssumption
<1>3. podsByIP(ip) = {} BY <1>2 DEF podsByIP
<1>4. QED BY <1>3 DEF observedPeer

LEMMA SourceIsObserved ==
  ASSUME snap \in Filtered, PairInv, OwnAddresses
  PROVE  observedPeer(Address) = intendedPeer
<1>1. \/ \E p \in ScenarioPods(snap) : src = Source(IF p.hostNetwork THEN "hostnetwork" ELSE "pod", p, TRUE)
      \/ \E n \in Range(snap.nodes) : src = Source("node", Agent(n), FALSE)
      \/ src = Source("outsider", Outsider, FALSE)
      \/ src = Source("external", External, FALSE)
  BY DEF PairInv, BuildSources, ScenarioPods
<1>2. ASSUME NEW p \in ScenarioPods(snap), src = Source(IF p.hostNetwork THEN "hostnetwork" ELSE "pod", p, TRUE)
      PROVE  observedPeer(Address) = intendedPeer
  <2>1. src.ip = p.ip /\ src.pod = p.id /\ src.kind = IF p.hostNetwork THEN "hostnetwork" ELSE "pod"
    BY <1>2 DEF Source
  <2>2. p \in Range(snap.pods) /\ Address = src.ip BY <2>1 DEF ScenarioPods, Address
  <2>3. CASE p.hostNetwork
    <3>1. intendedPeer = AddressPeer(src.ip) BY <2>1, <2>2, <2>3 DEF intendedPeer
    <3>2. src.ip \in Range(snap.nodes) BY <2>1, <2>3, AddressesAssumption
    <3>3. QED BY <2>2, <3>1, <3>2, HostIsObserved
  <2>4. CASE ~p.hostNetwork
    <3>1. (CHOOSE q \in Range(snap.pods) : q.id = src.pod) = p BY <2>1, <2>2, PodsOfSnapshot
    <3>2. intendedPeer = Peer(p, src.ip) BY <2>1, <2>4, <3>1 DEF intendedPeer
    <3>3. QED BY <2>1, <2>2, <2>4, <3>2, PodIsObserved
  <2>5. QED BY <2>3, <2>4
<1>3. ASSUME NEW n \in Range(snap.nodes), src = Source("node", Agent(n), FALSE)
      PROVE  observedPeer(Address) = intendedPeer
  <2>1. src.ip = n /\ src.kind = "node" BY <1>3 DEF Source, Agent
  <2>2. Address = n BY <2>1 DEF Address
  <2>3. QED BY <2>1, <2>2, HostIsObserved DEF intendedPeer
<1>4. CASE src = Source("outsider", Outsider, FALSE)
  <2>1. src.ip = Outsider.ip /\ src.kind = "outsider" BY <1>4 DEF Source
  <2>2. Address = Outsider.ip BY <2>1 DEF Address
  <2>3. QED BY <2>1, <2>2, PodIsObserved, AddressesAssumption DEF intendedPeer
<1>5. CASE src = Source("external", External, FALSE)
  <2>1. src.kind = "external" BY <1>5 DEF Source
  <2>2. Address = ExternalIP BY <2>1 DEF Address
  <2>3. QED BY <2>1, <2>2, HostIsObserved DEF intendedPeer
<1>6. QED BY <1>1, <1>2, <1>3, <1>4, <1>5

\* A source that arrives unchanged is, for the policies, the one that was meant:
\* the two declared verdicts differ only where an address was rewritten
\* (reachability.go:152-154).
THEOREM ArrivedAsIntended == Spec => []UnchangedIsAsIntended
<1>1. JInv => UnchangedIsAsIntended
  BY SourceIsObserved DEF JInv, IInv, PodsInv, UnchangedIsAsIntended
<1>2. QED BY <1>1, SecondInvariant, PTL

=============================================================================
