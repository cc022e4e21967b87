------------------------------ MODULE Identity ------------------------------
(* The measurement of source addresses: hack/oracle/identity.go, injectProbes *)
(* in kube.go and basisFor in declared.go, composed with the two rounds of    *)
(* probes of run (main.go).  One pair of a source and a target is followed;   *)
(* of the other sources it matters that each that has something to probe has  *)
(* its script executed in its own pod.  Pods may be replaced at any time, and *)
(* the probe containers of earlier runs may still serve in them.              *)
EXTENDS Targets

CONSTANTS
    Snapshots,    \* the snapshots
    ScenarioNamespaces, \* the namespaces of the scenario's manifests
    ExternalIP,   \* the address that external connects come from
    Tunnels,      \* the address of each node's tunnel device
    Truncated,    \* the shadow's name for each Service's name, cut to 63 bytes
    SpareIPs,     \* the addresses that new pods get, besides those set free
    Paths,        \* sets of paths [kind, local, near] that rewrite the source
    Fresh         \* bound: a run sees no more pods replaced than it has ids here

Filtered == {FilterSnapshot(s, ScenarioNamespaces) : s \in Snapshots}
PodFields == {"id", "ns", "name", "running", "hostNetwork", "node", "ip", "app", "ports", "old", "probe", "up"}

\* The API server gives every pod an id of its own, and a name of its own in its
\* namespace; the ports that it declares have numbers.
ASSUME PodsAssumption ==
    \A s \in Filtered :
        /\ s.pods \in Seq(Range(s.pods))
        /\ \A p \in Range(s.pods) : PodFields \subseteq DOMAIN p /\ p.id # None
        /\ \A p, q \in Range(s.pods) : p.id = q.id \/ (p.ns = q.ns /\ p.name = q.name) => p = q
        /\ \A p \in Range(s.pods) :
              p.ports \in Seq(Range(p.ports)) /\ \A c \in Range(p.ports) : c.num \in Nat \ {0}

\* A snapshot's pods have no container of the run to come, whose name is the
\* run's own.  Those of earlier runs that still serve are in running pods of a
\* scenario, and no port is served twice in a node's network.
ASSUME ContainersAssumption ==
    \A s \in Filtered :
        /\ \A p \in Range(s.pods) : p.probe = 0 /\ ~p.up /\ (p.old # {} => IsScenarioPod(p))
        /\ \A p, q \in Range(s.pods) :
              p.hostNetwork /\ q.hostNetwork /\ p.node = q.node /\ p.old \intersect q.old # {} => p = q

\* A Service has a name of its own in its namespace, and each of its TCP ports a
\* number of its own.
ASSUME ServicesAssumption ==
    \A s \in Filtered :
        /\ s.services \in Seq(Range(s.services)) /\ s.nodes \in Seq(Range(s.nodes))
        /\ \A u, v \in Range(s.services) : u.ns = v.ns /\ u.name = v.name => u = v
        /\ \A v \in Range(s.services) :
              /\ v.ports \in Seq(Range(v.ports))
              /\ \A c, d \in TCPServicePorts(v) : c.port = d.port => c = d

\* hostNetwork pods have the address of their node.  No other address is a
\* node's, and while a pod runs no other pod that runs has its address.
ASSUME AddressesAssumption ==
    /\ ~Outsider.hostNetwork
    /\ ExternalIP # ""
    /\ \A s \in Filtered :
        /\ "" \notin Range(s.nodes)
        /\ \A p \in ScenarioPods(s) : p.hostNetwork => p.ip = p.node /\ p.node \in Range(s.nodes)
        /\ \A p \in Range(s.pods) \union {Outsider} :
              ~p.hostNetwork => p.ip \notin Range(s.nodes) \union {ExternalIP}
        /\ \A p, q \in Range(s.pods) :
              ~p.hostNetwork /\ p.running /\ q.running /\ p.ip = q.ip => p = q

ASSUME FreshAssumption ==
    /\ Fresh \in Seq(Range(Fresh))
    /\ \A s \in Filtered : \A p \in Range(s.pods) : p.id \notin Range(Fresh)

identityPort == 39999
hostNetIdentityBase == 39000

VARIABLES
    pc,        \* "inject", "wait", "effective", "shadows", "baseline", "finish" or "done"
    snap,      \* the snapshot, filtered
    src, tgt,  \* the pair that is followed
    nat,       \* the paths on which the network rewrites source addresses
    live,      \* the pods there are: those of snap and their replacements, each
               \* with old, the ports that containers of earlier runs serve,
               \* probe, the port of this run's container or 0, and up
    todo,      \* what the current loop has still to do
    created,   \* the Services that have a shadow of this run
    met,       \* where connects ended with policies in place: [pod, from, node]
    base,      \* whether a connect of the baseline got through
    answers,   \* what answered at /clientip: [pod, from, node]
    failed,    \* an exec failed
    replaced,  \* how many pods were replaced, each by one with a new id
    fault,     \* a call to the API failed
    result     \* "none", "refused" or "written"

vars == <<pc, snap, src, tgt, nat, live, todo, created, met, base, answers, failed, replaced, fault, result>>

-----------------------------------------------------------------------------
(* Helpers *)

InjectedPods(s) == {p.id : p \in ScenarioPods(s)}

\* Mutant of identityPorts: one port for all pods.
identityPortsShared(s) == [id \in InjectedPods(s) |-> identityPort]

\* The hostNetwork pods, in the order of their names, that of the list, get a
\* port each.
HostNet(s) == {i \in DOMAIN s.pods : IsScenarioPod(s.pods[i]) /\ s.pods[i].hostNetwork}

PortOf(s, i) ==
    IF i \in HostNet(s) THEN hostNetIdentityBase + Cardinality({j \in HostNet(s) : j < i})
    ELSE identityPort

identityPorts(s) ==
    [id \in InjectedPods(s) |-> PortOf(s, CHOOSE i \in DOMAIN s.pods : s.pods[i].id = id)]

ports == identityPorts(snap)

\* Get by name: pods of the snapshot are looked up under the name they had.
Named(id) ==
    LET old == CHOOSE p \in Range(snap.pods) : p.id = id
    IN  {p \in live : p.ns = old.ns /\ p.name = old.name}

Targeted(s) == {t.service : t \in {u \in BuildTargets(s) : IsService(u)}}
Shadow(svc) == <<svc[1], Truncated[svc[2]]>>
ServiceNames(s) == {<<svc.ns, svc.name>> : svc \in Range(s.services)}

-----------------------------------------------------------------------------
(* The network, which is not part of the source.                              *)

\* The address that the source's connects start from.
Address == IF src.kind = "external" THEN ExternalIP ELSE src.ip

\* A path is rewritten by what it is, by the Service's traffic policy, and by
\* whether it leaves the source's node.
From(t, q) ==
    IF [kind |-> t.kind, local |-> t.local, near |-> q.node = src.node] \notin nat THEN Address
    ELSE IF t.kind = "nodeport" \/ src.kind = "external" THEN t.addr[1]
    ELSE IF Nodeish(src) THEN Tunnels[src.node]
    ELSE src.node

Arrived(t, q) == [pod |-> q.id, from |-> From(t, q), node |-> q.node]

\* Of some pods those that a Service's label selects and that have its port; at a
\* node address traffic from outside may have to stay on the node.
Endpoints(pods, t, needsPort) ==
    LET svc == CHOOSE v \in Range(snap.services) : <<v.ns, v.name>> = t.service
        sp == CHOOSE p \in Range(svc.ports) : p.tcp /\ p.port = t.port
    IN  {q \in pods :
            /\ q.ns = svc.ns /\ q.app = svc.app /\ q.running
            /\ needsPort => TargetNumbers(sp, q) # {}
            /\ t.local /\ src.kind = "external" => q.node = t.node}

\* Of some pods those at which a connect to the target may end.
Reached(pods, t) ==
    IF IsService(t) THEN Endpoints(pods, t, TRUE)
    ELSE IF t.kind = "hostport"
    THEN {q \in pods : q.running /\ q.node = t.addr[1] /\ ~q.hostNetwork
                       /\ \E c \in TCPPorts(q) : c.hostPort = t.addr[2]}
    ELSE IF t.kind = "hostnetwork"
    THEN {q \in pods : q.running /\ q.node = t.addr[1] /\ q.hostNetwork
                       /\ \E c \in TCPPorts(q) : c.num = t.addr[2]}
    ELSE {q \in pods : q.running /\ q.ip = t.addr[1]}

\* The pods one of whose probe containers serves a port, whichever run's it is.
Serving(pods, port) == {q \in pods : port \in q.old \/ (q.up /\ q.probe = port)}

\* The pods with which a pod shares its network: itself, or its node's.
Beside(q) == {p \in live : p.id = q.id \/ (q.hostNetwork /\ p.hostNetwork /\ p.node = q.node)}

\* Mutant of ShadowTarget: externalTrafficPolicy is not copied.
ShadowTargetOfCluster(t) == [t EXCEPT !.local = FALSE]

\* The shadow of a target: type, selector and externalTrafficPolicy are copied,
\* and only the port that it sends to is another.
ShadowTarget(t) == [t EXCEPT !.local = IF t.kind = "nodeport" THEN @ ELSE FALSE]

-----------------------------------------------------------------------------
(* The run *)

Loops == {"inject", "wait", "effective", "shadows", "baseline"}
Rounds == {"effective", "baseline"}

\* A pod has something to probe, in the one round as in the other.
HasJobs(id) ==
    \E s \in BuildSources(snap), t \in BuildTargets(snap) : s.pod = id /\ Applicable(s, t)

Executed == {id \in InjectedPods(snap) : HasJobs(id)}

\* What each loop goes over; nothing is executed where there is nothing to probe.
Work(loop) ==
    IF loop \in Rounds THEN Executed \union {src.pod}
    ELSE IF loop = "shadows" THEN Targeted(snap)
    ELSE InjectedPods(snap)

Init ==
    /\ \E s \in Snapshots : snap = FilterSnapshot(s, ScenarioNamespaces)
    /\ src \in BuildSources(snap) /\ tgt \in BuildTargets(snap) /\ Applicable(src, tgt)
    /\ \E paths \in Paths : nat = {p \in paths : p.kind = tgt.kind}
    /\ live = Range(snap.pods)
    /\ pc = "inject" /\ todo = InjectedPods(snap)
    /\ created = {} /\ met = {} /\ base = FALSE /\ answers = {}
    /\ failed = FALSE /\ replaced = 0 /\ fault = FALSE /\ result = "none"

Refuse ==
    /\ pc' = "done" /\ result' = "refused" /\ created' = {}
    /\ UNCHANGED <<snap, src, tgt, nat, live, todo, met, base, answers, failed, replaced>>

\* The turn of a pod in a loop that takes the sources one by one.
Turn(id) ==
    LET At(x) == CHOOSE i \in DOMAIN snap.pods : snap.pods[i].id = x
    IN  id \in todo /\ \A x \in todo : At(id) <= At(x)

Handled(x) ==
    /\ todo' = todo \ {x}
    /\ UNCHANGED <<pc, snap, src, tgt, nat, met, base, answers, replaced, fault, result>>

\* The pod of that name is gone, or it is another one, without a port.
InjectRefused(id) ==
    /\ pc = "inject" /\ Turn(id)
    /\ \A q \in Named(id) : q.id \notin DOMAIN ports
    /\ Refuse /\ UNCHANGED fault

\* Mutant of InjectNew: the port is looked up by the id in the snapshot.
InjectNewForTheOld(id) ==
    /\ pc = "inject" /\ Turn(id)
    /\ \E q \in Named(id) :
          live' = (live \ {q}) \union
                    {[q EXCEPT !.probe = ports[id], !.up = Serving(Beside(q), ports[id]) = {}]}
    /\ Handled(id) /\ UNCHANGED <<created, failed>>

\* The container is added, under a name that no earlier run's has.  It stays up
\* unless one of the pod's, or of the node's, serves its port already; then it is
\* dead by the time the wait looks at it.
InjectNew(id) ==
    /\ pc = "inject" /\ Turn(id)
    /\ \E q \in Named(id) :
          /\ q.id \in DOMAIN ports
          /\ live' = (live \ {q}) \union
                    {[q EXCEPT !.probe = ports[q.id], !.up = Serving(Beside(q), ports[q.id]) = {}]}
    /\ Handled(id) /\ UNCHANGED <<created, failed>>

\* An exec by name, in the probe container of a pod or in the oracle's own.
CanExec(id) == id \in InjectedPods(snap) => \E q \in Named(id) : q.probe # 0 /\ q.up

WaitRunning(id) ==
    /\ pc = "wait" /\ Turn(id)
    /\ CanExec(id)
    /\ Handled(id) /\ UNCHANGED <<live, created, failed>>

WaitRefused(id) ==
    /\ pc = "wait" /\ Turn(id)
    /\ ~CanExec(id)
    /\ Refuse /\ UNCHANGED fault

\* The source's script goes on: nothing is written of a run with a failed exec,
\* and its connects are left out from there.
Probing(round) == pc = round /\ src.pod \in todo /\ CanExec(src.pod) /\ ~failed

\* Connects, and in the baseline /clientip requests; a target that is no Service
\* gets one of each.
Connect ==
    /\ Probing("effective")
    /\ IsService(tgt) \/ met = {}
    /\ \E q \in Reached(live, tgt) : met' = met \union {Arrived(tgt, q)}
    /\ UNCHANGED <<pc, snap, src, tgt, nat, live, todo, created, base, answers, failed, replaced, fault, result>>

ConnectBaseline ==
    /\ Probing("baseline")
    /\ Reached(live, tgt) # {} /\ base' = TRUE
    /\ UNCHANGED <<pc, snap, src, tgt, nat, live, todo, created, met, answers, failed, replaced, fault, result>>

\* identityAddress: the pods that serve where a source asks.
Asked ==
    CASE tgt.kind = "pod-ip" ->
            Serving({q \in live : q.ip = tgt.addr[1] /\ ~q.hostNetwork}, ports[tgt.owner])
      [] tgt.kind = "hostnetwork" ->
            Serving({q \in live : q.node = tgt.addr[1] /\ q.hostNetwork}, ports[tgt.owner])
      [] tgt.kind = "hostport" -> {}
      [] IsService(tgt) /\ tgt.service \in created -> Serving(Endpoints(live, ShadowTarget(tgt), FALSE), identityPort)
      [] OTHER -> {}

Ask ==
    /\ Probing("baseline")
    /\ IsService(tgt) \/ answers = {}
    /\ \E q \in Asked : answers' = answers \union {Arrived(ShadowTarget(tgt), q)}
    /\ UNCHANGED <<pc, snap, src, tgt, nat, live, todo, created, met, base, failed, replaced, fault, result>>

\* The exec of a source ends; it failed if it broke off, or if there was nothing
\* to execute it in.
EndExec(id) ==
    /\ pc \in Rounds /\ id \in todo
    /\ \E broken \in {FALSE, CanExec(id)} :
          /\ failed' = (failed \/ broken \/ ~CanExec(id))
          /\ fault' = (fault \/ broken)
    /\ todo' = todo \ {id}
    /\ UNCHANGED <<pc, snap, src, tgt, nat, live, created, met, base, answers, replaced, result>>

\* createShadows: a name that is taken makes it take back what it has created.
CreateShadow(svc) ==
    /\ pc = "shadows" /\ svc \in todo
    /\ IF Shadow(svc) \in ServiceNames(snap) \union {Shadow(c) : c \in created}
       THEN Refuse /\ UNCHANGED fault
       ELSE /\ created' = created \union {svc}
            /\ Handled(svc) /\ UNCHANGED <<live, failed>>

EndLoop ==
    /\ pc \in Loops /\ todo = {}
    /\ pc' = CASE pc = "inject" -> "wait" [] pc = "wait" -> "effective"
               [] pc = "effective" -> "shadows" [] pc = "shadows" -> "baseline"
               [] OTHER -> "finish"
    /\ todo' = IF pc' = "finish" THEN {} ELSE Work(pc')
    /\ created' = IF pc = "baseline" THEN {} ELSE created
    /\ UNCHANGED <<snap, src, tgt, nat, live, met, base, answers, failed, replaced, fault, result>>

\* Mutant of Finish: results are written whatever failed.
FinishAnyway ==
    /\ pc = "finish"
    /\ pc' = "done" /\ result' = "written"
    /\ UNCHANGED <<snap, src, tgt, nat, live, todo, created, met, base, answers, failed, replaced, fault>>

Finish ==
    /\ pc = "finish"
    /\ pc' = "done" /\ result' = IF failed THEN "refused" ELSE "written"
    /\ UNCHANGED <<snap, src, tgt, nat, live, todo, created, met, base, answers, failed, replaced, fault>>

\* A call to the API fails.
CallFails ==
    /\ pc \in {"inject", "wait", "shadows"} /\ Refuse /\ fault' = TRUE

\* Another pod takes the place of one: under its name (StatefulSet) or not, at
\* its address or not, anywhere, and without probe containers.
Replace(p) ==
    /\ pc # "done" /\ ~failed /\ replaced < Len(Fresh) /\ IsScenarioPod(p)
    /\ \E name \in {p.name, Fresh[replaced + 1]}, node \in Range(snap.nodes), ip \in {p.ip} \union SpareIPs :
          /\ \A q \in live \ {p} : q.running => q.ip # ip \/ p.hostNetwork
          /\ live' = (live \ {p}) \union
                {[p EXCEPT !.id = Fresh[replaced + 1], !.name = name, !.node = node, !.old = {},
                           !.probe = 0, !.up = FALSE, !.ip = IF p.hostNetwork THEN node ELSE ip]}
    /\ replaced' = replaced + 1
    /\ UNCHANGED <<pc, snap, src, tgt, nat, todo, created, met, base, answers, failed, fault, result>>

Next ==
    \/ \E x \in todo :
          \/ InjectRefused(x) \/ InjectNew(x)
          \/ WaitRunning(x) \/ WaitRefused(x) \/ EndExec(x) \/ CreateShadow(x)
    \/ Connect \/ ConnectBaseline \/ Ask \/ EndLoop \/ Finish \/ CallFails
    \/ \E p \in live : Replace(p)

Spec == Init /\ [][Next]_vars

-----------------------------------------------------------------------------
(* What is written of the pair *)

ObservedSources == {a.from : a \in answers}

\* Mutant of basisFor: a NodePort of another node is as near as its backends.
basisForAnyNode(observed) ==
    LET near == BackendsOn(tgt, src.node)
        bases == {IF ip = src.ip THEN "policy" ELSE "undefined-snat" : ip \in observed}
    IN  IF tgt.kind = "hostnetwork" THEN "undefined-hostnetwork"
        ELSE IF Nodeish(src) /\ near # {}
        THEN IF near = tgt.backends THEN "spec-exception" ELSE "mixed-path"
        ELSE IF observed = {} THEN "policy"
        ELSE IF Cardinality(bases) = 1 THEN CHOOSE b \in bases : TRUE
        ELSE "mixed-path"

basisFor(observed) ==
    LET near == BackendsOn(tgt, src.node)
        bases == {IF ip = src.ip THEN "policy" ELSE "undefined-snat" : ip \in observed}
    IN  IF tgt.kind = "hostnetwork" THEN "undefined-hostnetwork"
        ELSE IF Nodeish(src) /\ (tgt.kind # "nodeport" \/ tgt.node = src.node) /\ near # {}
        THEN IF near = tgt.backends THEN "spec-exception" ELSE "mixed-path"
        ELSE IF observed = {} THEN "policy"
        ELSE IF Cardinality(bases) = 1 THEN CHOOSE b \in bases : TRUE
        ELSE "mixed-path"

\* The basis as run writes it: nothing gets through to a node without a backend.
Basis ==
    IF tgt.local /\ ~base /\ BackendsOn(tgt, tgt.node) = {}
    THEN "etp-local" ELSE basisFor(ObservedSources)

\* The identity that a policy can match: a pod's labels and an address, or the
\* address alone.
Peer(p, ip) == [ns |-> p.ns, app |-> p.app, ip |-> ip]
AddressPeer(ip) == [ns |-> None, app |-> None, ip |-> ip]

intendedPeer ==
    IF src.kind = "pod" THEN Peer(CHOOSE p \in Range(snap.pods) : p.id = src.pod, src.ip)
    ELSE IF src.kind = "outsider" THEN Peer(Outsider, src.ip)
    ELSE AddressPeer(Address)

\* The pods that are entered by their addresses.
Entries == Append(snap.pods, Outsider)

\* Mutant of podsByIP: hostNetwork pods are entered under their node's address.
podsByIPOfAll(ip) == {i \in DOMAIN Entries : Entries[i].ip = ip}

\* Where a pod is entered under an address; the last one stays.
podsByIP(ip) == {i \in DOMAIN Entries : ~Entries[i].hostNetwork /\ Entries[i].ip = ip}

observedPeer(ip) ==
    IF podsByIP(ip) = {} THEN AddressPeer(ip)
    ELSE Peer(Entries[CHOOSE i \in podsByIP(ip) : \A j \in podsByIP(ip) : j <= i], ip)

-----------------------------------------------------------------------------
(* Properties *)

TypeOK ==
    /\ pc \in Loops \union {"finish", "done"}
    /\ result \in {"none", "refused", "written"}
    /\ pc = "done" <=> result # "none"
    /\ replaced \in 0 .. Len(Fresh)
    /\ {base, failed, fault} \subseteq BOOLEAN

BackendIds == {b.pod.id : b \in tgt.backends}

\* Every pod that a Service selects has the port the Service leads to.
PortOnEveryPod ==
    \A svc \in ScenarioServices(snap) : \A sp \in TCPServicePorts(svc) :
        \A p \in Selected(snap, svc) : TargetNumbers(sp, p) # {}

\* A container of an earlier run serves the port that one of this run needs, in
\* the same pod or in another one of the node's network.
PortTaken ==
    \E p, q \in ScenarioPods(snap) :
        /\ ports[p.id] \in q.old
        /\ p = q \/ (p.hostNetwork /\ q.hostNetwork /\ p.node = q.node)

\* No two shadows, and no shadow and Service, have one name.
OwnShadowNames ==
    \A svc \in Targeted(snap) :
        /\ Shadow(svc) \notin ServiceNames(snap)
        /\ \A other \in Targeted(snap) : Shadow(svc) = Shadow(other) => svc = other

\* No pod that has ended holds the address of another one.
OwnAddresses ==
    LET pods == Range(snap.pods) \union {Outsider}
    IN  \A p, q \in pods : ~p.hostNetwork /\ ~q.hostNetwork /\ p.ip = q.ip => p = q

\* The targets are the addresses that the API exposes, each once, and with the
\* pods and ports that the API puts behind it: whatever is a target twice over,
\* as a port of a pod and of a Service, and whatever runs, has ended, speaks UDP
\* or is the cluster's own (buildTargets, model.go:166-249).
DoorsAreProbed ==
    pc = "inject" /\ todo = InjectedPods(snap) /\ OnePurpose(snap) /\ OwnNames(snap) =>
        LET targets == BuildTargets(snap)
            Found(t) == Door(t.addr, {<<b.pod.id, b.port>> : b \in t.backends})
        IN  /\ {Found(t) : t \in targets} = Doors(snap)
            /\ \A t, u \in targets : t.addr = u.addr => t = u

\* What answers /clientip is a backend of the target, although pods come and go,
\* shadows send to one port of whatever a Service selects, hostNetwork pods share
\* their nodes' ports, and containers of earlier runs still answer at theirs
\* (identity.go:43-66, 151-174, kube.go:200-250).
AnsweredByTheTarget == PortOnEveryPod => \A a \in answers : a.pod \in BackendIds

\* Results that are written say of their snapshot's pods what was measured with
\* policies in place: a pod that was replaced by then, at whatever time and under
\* whatever name and address, makes an exec fail.  Only a pod that is behind
\* every target has nothing executed in it, and its replacement goes unnoticed
\* (injectProbes, kube.go:200-257; prober.go:47-50; main.go:129-142, 190-194).
MeasuredOnTheSnapshot ==
    result = "written" =>
        \A m \in met : m.pod \in BackendIds \/ \E id \in BackendIds : ~HasJobs(id)

\* A basis says how the connects to the backends came in.  Under spec-exception
\* all of them ended on the source's node and came from an address of it.  With
\* one backend, the answers of one round stand for the connects of the other:
\* policy if the source arrived unchanged, undefined-snat if it did not.  Of the
\* external source, whose own address is left empty, undefined-snat says nothing,
\* and policy is never said once it was observed (basisFor, declared.go:150-199).
BasisIsJustified ==
    result = "written" =>
        /\ Basis = "spec-exception" =>
              \A m \in met : m.pod \in BackendIds =>
                  m.node = src.node /\ m.from \in {src.node, Tunnels[src.node]}
        /\ PortOnEveryPod /\ Cardinality(BackendIds) = 1 /\ answers # {}
           /\ Basis \in {"policy", "undefined-snat"} /\ src.kind # "external" =>
              \A m \in met : m.pod \in BackendIds => (Basis = "policy" <=> m.from = Address)
        /\ src.kind = "external" /\ answers # {} => Basis # "policy"

\* A run is refused for a cause: a pod was replaced, a call failed, a container
\* of an earlier run serves a port that is needed, or names are in the way.
\* hostNetwork pods of one node do not get in each other's way (identity.go:43-66,
\* 109-113, kube.go:33-36, 208-211).
RefusedForCause ==
    result = "refused" => replaced > 0 \/ fault \/ PortTaken \/ ~OwnShadowNames

\* A source that arrives unchanged is for the policies the one that was meant, so
\* that the two declared verdicts differ only where addresses were rewritten
\* (reachability.go:152-154; podsByIP, intendedPeer and observedPeer).
UnchangedIsAsIntended ==
    OwnAddresses => \A a \in answers : a.from = Address => observedPeer(a.from) = intendedPeer
=============================================================================
