------------------------------- MODULE Audit -------------------------------
(* `failopen audit` (internal/cli/audit.go) over the three detectors of       *)
(* internal/detector: one snapshot is loaded, every detector reads it, and    *)
(* the findings decide the exit code.  Run sorts the findings for the reader; *)
(* nothing after it depends on their order, so they are a set here.           *)
(*                                                                            *)
(* A snapshot is [pods, services, policies, nodes, cni].  pods is a sequence  *)
(* of [id, ns, hostNetwork, workload, ports], ports a sequence of [num, name, *)
(* tcp, hostPort]; services has an entry [ns, name, external, selects, tcp,   *)
(* port, target, nodePort] for each port of each Service; nodes is the set of *)
(* InternalIPs; cni is [name, enforces, podCIDRs].                            *)
EXTENDS Policies

CONSTANT Snapshots   \* the snapshots an audit may load

PortNumbers == Nat \ {0}
ContainerPorts == [num : PortNumbers, name : STRING, tcp : BOOLEAN, hostPort : Nat]
ServicePort(svc) == svc.target.num \in PortNumbers \/ svc.target.name # ""

\* What the API server sees to: lists are lists, a pod's id is its own, and a
\* Service port has a target; and the pools are CIDRs.
Served(s) ==
    /\ DOMAIN s = {"pods", "services", "policies", "nodes", "cni"}
    /\ DOMAIN s.cni = {"name", "enforces", "podCIDRs"}
    /\ \A list \in {s.pods, s.services, s.policies} : list \in Seq(Range(list))
    /\ \A p \in Range(s.pods) : p.ports \in Seq(ContainerPorts)
    /\ \A p, q \in Range(s.pods) : p.id = q.id => p = q
    /\ \A svc \in Range(s.services) : ServicePort(svc)
    /\ \A np \in Range(s.policies) : np.rules \in Seq(Range(np.rules))
    /\ \A np \in Range(s.policies) : \A r \in Range(np.rules) : r.from \in Seq(Range(r.from))
    /\ s.cni.podCIDRs \subseteq CIDRs

ASSUME SnapshotsAssumption == \A s \in Snapshots : Served(s)

VARIABLES
    pc,        \* "load", "detect", "report" or "done"
    snap,      \* the snapshot that was loaded
    ran,       \* how many detectors of All() ran
    findings,  \* what they found
    exit       \* the exit code, Running before the end

vars == <<pc, snap, ran, findings, exit>>

\* The zero Snapshot.
NoSnapshot ==
    [pods |-> <<>>, services |-> <<>>, policies |-> <<>>, nodes |-> {},
     cni |-> [name |-> "", enforces |-> FALSE, podCIDRs |-> {}]]
Running == 3

-----------------------------------------------------------------------------
(* CNIEnforcement *)

Finding(detector, subject, severity, pod, port) ==
    [detector |-> detector, subject |-> subject, severity |-> severity,
     pod |-> pod, port |-> port]

UserPolicies(s) == {np \in Range(s.policies) : np.ns \notin SystemNamespaces}

CNIFindings(s) ==
    LET found(severity) == {Finding("cni", <<"cluster">>, severity, "none", 0)}
    IN  IF UserPolicies(s) = {} THEN {}
        ELSE IF s.cni.name = "unknown" THEN found("warning")
        ELSE IF ~s.cni.enforces THEN found("critical")
        ELSE {}

\* Mutant of Unenforced: a CNI that is not recognised is taken for one that
\* enforces nothing.
UnenforcedOrUnknown(s) == ~s.cni.enforces

\* No policy is enforced, and the cni detector says so.
Unenforced(s) == ~s.cni.enforces /\ s.cni.name # "unknown"

-----------------------------------------------------------------------------
(* IPBlockNodeIPs *)

\* The Service port i leads from a node address to the pod j, ...
BehindNodePort(s, i, j) ==
    LET svc == s.services[i]
        p == s.pods[j]
    IN  /\ svc.ns \notin SystemNamespaces /\ svc.external
        /\ svc.nodePort # 0 /\ svc.tcp
        /\ p.ns = svc.ns /\ ~p.hostNetwork /\ p.id \in svc.selects

NodePort(s, i, j, target) ==
    [at |-> <<1, i, j>>, pod |-> s.pods[j], port |-> target.num, name |-> target.name,
     subject |-> <<s.services[i].ns, "svc", s.services[i].name, s.services[i].nodePort>>]

\* ... or the port i of the pod j is bound there itself.
HasHostPort(s, j, i) ==
    /\ s.pods[j].ns \notin SystemNamespaces /\ ~s.pods[j].hostNetwork
    /\ s.pods[j].ports[i].hostPort # 0 /\ s.pods[j].ports[i].tcp

HostPort(s, j, i) ==
    [at |-> <<2, j, i>>, pod |-> s.pods[j], port |-> s.pods[j].ports[i].num,
     name |-> s.pods[j].ports[i].name,
     subject |-> <<s.pods[j].ns, s.pods[j].workload, s.pods[j].ports[i].hostPort>>]

NodePorts(s, i, j) ==
    {NodePort(s, i, j, t) :
        t \in IF BehindNodePort(s, i, j) THEN ResolveTargetPort(s.pods[j], s.services[i]) ELSE {}}

HostPorts(s, j) == {HostPort(s, j, i) : i \in {k \in DOMAIN s.pods[j].ports : HasHostPort(s, j, k)}}

\* The pods at the node addresses; at orders them as they are looked at.
Exposures(s) ==
    (UNION {NodePorts(s, i, j) : i \in DOMAIN s.services, j \in DOMAIN s.pods})
    \union (UNION {HostPorts(s, j) : j \in DOMAIN s.pods})

Before(x, y) ==
    \/ x[1] < y[1]
    \/ x[1] = y[1] /\ x[2] < y[2]
    \/ x[1] = y[1] /\ x[2] = y[2] /\ x[3] < y[3]

\* Mutant of PodsAdmitted: selectors are skipped, the one of all pods too.
PodsAdmittedByBlock(rules, podCIDRs) ==
    \E r \in rules :
        \/ r.from = <<>>
        \/ \E peer \in Range(r.from) :
              /\ peer.kind = "block"
              /\ \/ OpenToAll(peer.block)
                 \/ podCIDRs # {} /\ AdmitsAll(peer.block, podCIDRs)

\* A rule lets every pod in on purpose.
PodsAdmitted(rules, podCIDRs) ==
    \E r \in rules :
        \/ r.from = <<>>
        \/ \E peer \in Range(r.from) :
              \/ peer.kind = "allPods"
              \/ /\ peer.kind = "block"
                 /\ \/ OpenToAll(peer.block)
                    \/ podCIDRs # {} /\ AdmitsAll(peer.block, podCIDRs)

\* Where an ipBlock that admits node addresses is: policy, rule, peer.
Hits(s, e) ==
    LET peers == UNION {UNION {{<<i, k, m>> : m \in DOMAIN s.policies[i].rules[k].from} :
                                  k \in DOMAIN s.policies[i].rules} : i \in DOMAIN s.policies}
    IN  {h \in peers :
            LET r == s.policies[h[1]].rules[h[2]]
            IN  /\ s.policies[h[1]] \in IngressPoliciesFor(s, e.pod)
                /\ PortMatches(r.ports, e.port, e.name)
                /\ r.from[h[3]].kind = "block" /\ AdmitsAny(r.from[h[3]].block, s.nodes)}

\* The first ipBlock through which node addresses are admitted, if pods are not.
AdmittingBlock(s, e) ==
    LET hits == Hits(s, e)
    IN  IF hits = {} \/ PodsAdmitted(RulesFor(s, e.pod, e.port, e.name), s.cni.podCIDRs) THEN {}
        ELSE LET h == CHOOSE h \in hits : \A g \in hits : ~Before(g, h)
             IN  {s.policies[h[1]].rules[h[2]].from[h[3]].block}

BlockSeverity(s, b) ==
    IF s.cni.name = "unknown" \/ s.cni.podCIDRs = {} \/ InternetWide(b)
    THEN "warning" ELSE "critical"

\* Mutant of IPBlockFindings: a subject counts as seen before it has a block.
IPBlockFindingsOfFirst(s) ==
    LET firsts == {e \in Exposures(s) :
            \A g \in Exposures(s) : g.subject = e.subject => ~Before(g.at, e.at)}
    IN  IF s.cni.name = "cilium" \/ Unenforced(s) \/ s.nodes = {} THEN {}
        ELSE UNION {{Finding("ipblock-node-ips", e.subject, BlockSeverity(s, b), e.pod.id, e.port) :
                        b \in AdmittingBlock(s, e)} : e \in firsts}

\* One finding for each subject, about the first exposure that has a block.
IPBlockFindings(s) ==
    LET hit == {e \in Exposures(s) : AdmittingBlock(s, e) # {}}
        firsts == {e \in hit : \A g \in hit : g.subject = e.subject => ~Before(g.at, e.at)}
    IN  IF s.cni.name = "cilium" \/ Unenforced(s) \/ s.nodes = {} THEN {}
        ELSE UNION {{Finding("ipblock-node-ips", e.subject, BlockSeverity(s, b), e.pod.id, e.port) :
                        b \in AdmittingBlock(s, e)} : e \in firsts}

-----------------------------------------------------------------------------
(* HostNetworkUnderPolicy *)

\* Mutant of OpenToEveryone: the selector of all pods is taken for everyone.
OpenToEveryoneOrPods(s, p, port, name) ==
    \E r \in RulesFor(s, p, port, name) :
        \/ r.from = <<>>
        \/ \E peer \in Range(r.from) :
              peer.kind = "allPods" \/ (peer.kind = "block" /\ OpenToAll(peer.block))

\* Some rule opens the port to nodes, external clients and pods.
OpenToEveryone(s, p, port, name) ==
    \E r \in RulesFor(s, p, port, name) :
        \/ r.from = <<>>
        \/ \E peer \in Range(r.from) : peer.kind = "block" /\ OpenToAll(peer.block)

TCPPorts(p) == {c \in Range(p.ports) : c.tcp}

\* Some TCP port is not open to everyone; port 0 when the pod declares none.
Restricted(s, p) ==
    IF TCPPorts(p) # {}
    THEN \E c \in TCPPorts(p) : ~OpenToEveryone(s, p, c.num, c.name)
    ELSE ~OpenToEveryone(s, p, 0, "")

HostSubject(p) == <<p.ns, p.workload>>

\* One finding for each workload, about its first restricted pod.
HostFindings(s) ==
    LET found == {j \in DOMAIN s.pods :
            LET p == s.pods[j]
            IN  /\ p.hostNetwork /\ p.ns \notin SystemNamespaces
                /\ IngressPoliciesFor(s, p) # {} /\ Restricted(s, p)}
        firsts == {j \in found : \A i \in found :
                      HostSubject(s.pods[i]) = HostSubject(s.pods[j]) => j <= i}
        severity == IF s.cni.name = "unknown" THEN "warning" ELSE "critical"
    IN  IF Unenforced(s) THEN {}
        ELSE {Finding("hostnetwork-under-policy", HostSubject(s.pods[j]), severity,
                      s.pods[j].id, 0) : j \in firsts}

-----------------------------------------------------------------------------
(* hack/experiments/exp4 audits a snapshot again with less knowledge in it.   *)
(* Its third transform flips externalTrafficPolicy, which no detector reads.  *)

WithoutPodCIDRs(s) == [s EXCEPT !.cni.podCIDRs = {}]
WithoutCNI(s) == [s EXCEPT !.cni.name = "unknown", !.cni.enforces = FALSE]

\* index: the severity under each detector and subject.
Index(found) ==
    [k \in {<<f.detector, f.subject>> : f \in found} |->
        (CHOOSE f \in found : <<f.detector, f.subject>> = k).severity]

\* What the comparison counts, from the indices before and after.
Dropped(before, after) == DOMAIN before \ DOMAIN after
Raised(before, after) ==
    {k \in DOMAIN before \intersect DOMAIN after :
        before[k] = "warning" /\ after[k] = "critical"}
AddedCritical(before, after) == {k \in DOMAIN after \ DOMAIN before : after[k] = "critical"}

-----------------------------------------------------------------------------
Detect(i, s) == IF i = 1 THEN CNIFindings(s)
                ELSE IF i = 2 THEN IPBlockFindings(s) ELSE HostFindings(s)

Init ==
    /\ pc = "load" /\ snap = NoSnapshot /\ ran = 0
    /\ findings = {} /\ exit = Running

\* loadSnapshot: a file, or what the collector returns.
Load ==
    /\ pc = "load"
    /\ \E s \in Snapshots : snap' = s
    /\ pc' = "detect"
    /\ UNCHANGED <<ran, findings, exit>>

\* A flag is wrong, the file cannot be read or a List call fails.
LoadFails ==
    /\ pc = "load"
    /\ pc' = "done" /\ exit' = 2
    /\ UNCHANGED <<snap, ran, findings>>

\* Mutant of RunDetector: the loop has one turn too many.
RunDetectorTooOften ==
    /\ pc = "detect"
    /\ ran' = ran + 1
    /\ findings' = findings \union Detect(ran + 1, snap)
    /\ pc' = IF ran' > 3 THEN "report" ELSE "detect"
    /\ UNCHANGED <<snap, exit>>

\* The loop of Run over All().
RunDetector ==
    /\ pc = "detect"
    /\ ran' = ran + 1
    /\ findings' = findings \union Detect(ran + 1, snap)
    /\ pc' = IF ran' = 3 THEN "report" ELSE "detect"
    /\ UNCHANGED <<snap, exit>>

\* Mutant of Report: the loop over the findings returns nil at a lesser one.
ReportUntilLesser ==
    /\ pc = "report"
    /\ pc' = "done"
    /\ exit' = IF findings # {} /\ \A f \in findings : f.severity = "critical" THEN 1 ELSE 0
    /\ UNCHANGED <<snap, ran, findings>>

\* The report is printed, and a critical finding is an error that main maps to 1.
Report ==
    /\ pc = "report"
    /\ pc' = "done"
    /\ exit' = IF \E f \in findings : f.severity = "critical" THEN 1 ELSE 0
    /\ UNCHANGED <<snap, ran, findings>>

Next == Load \/ LoadFails \/ RunDetector \/ Report

Spec == Init /\ [][Next]_vars

-----------------------------------------------------------------------------
(* Properties *)

DetectorNames == {"cni", "ipblock-node-ips", "hostnetwork-under-policy"}

TypeOK ==
    /\ pc \in {"load", "detect", "report", "done"}
    /\ ran \in 0 .. 3
    /\ exit \in {Running, 0, 1, 2}
    /\ \A f \in findings : f.detector \in DetectorNames /\ f.severity \in {"critical", "warning"}

Of(detector) == {f \in findings : f.detector = detector}
PodOf(f) == CHOOSE p \in Range(snap.pods) : p.id = f.pod

\* The three detectors ran, and the snapshot's policies are enforced or may be.
Audited == ran = 3
Enforced == ~Unenforced(snap)

Blocks(s) ==
    {peer.block : peer \in {q \in UNION {Range(r.from) :
        r \in UNION {Range(np.rules) : np \in Range(s.policies)}} : q.kind = "block"}}

\* The addresses of the families that the cluster's nodes have.
ClusterAddresses(s) == UNION {f \in Families : f \intersect s.nodes # {}}

\* Nodes, pods and policies use the addresses of one family.
OneFamily(s) ==
    \E f \in Families :
        /\ s.nodes \subseteq f
        /\ \A pool \in s.cni.podCIDRs : pool \subseteq f
        /\ \A b \in Blocks(s) : b.cidr \subseteq f

\* The pods have one CIDR, and no policy takes it apart.
OnePool(s) ==
    \E pool \in CIDRs :
        /\ s.cni.podCIDRs = {pool}
        /\ \A b \in Blocks(s) : \A c \in {b.cidr} \union b.except :
              pool \subseteq c \/ pool \intersect c = {}

\* Pods have TCP ports only, and no two of one number or of one name.
PlainPorts(s) ==
    \A p \in Range(s.pods) : \A i, j \in DOMAIN p.ports :
        /\ p.ports[i].tcp
        /\ i # j => /\ p.ports[i].num # p.ports[j].num
                    /\ p.ports[i].name # p.ports[j].name \/ p.ports[i].name = ""

\* A policy keeps pods out of the port and lets the nodes in, whose addresses
\* the pods may come with.
Hole(s, p, port) ==
    /\ \E a \in UNION s.cni.podCIDRs : ~Declared(s, p, port, PodAt(a))
    /\ \E n \in s.nodes : Declared(s, p, port, HostAt(n))

\* The ports of the pod behind a Service port, by the API.
TargetNumbers(svc, p) ==
    IF svc.target.name = "" THEN {IF svc.target.num = 0 THEN svc.port ELSE svc.target.num}
    ELSE {c.num : c \in {d \in TCPPorts(p) : d.name = svc.target.name}}

\* What the API says is reachable at the node addresses: [subject, pod, port].
AtNodePort(svc, p) ==
    LET bound == /\ svc.external /\ svc.tcp /\ svc.nodePort # 0
                 /\ p.ns = svc.ns /\ ~p.hostNetwork /\ p.id \in svc.selects
    IN  {[subject |-> <<svc.ns, "svc", svc.name, svc.nodePort>>, pod |-> p, port |-> n] :
            n \in IF bound THEN TargetNumbers(svc, p) ELSE {}}

AtHostPort(p) ==
    {[subject |-> <<p.ns, p.workload, c.hostPort>>, pod |-> p, port |-> c.num] :
        c \in {d \in TCPPorts(p) : d.hostPort # 0 /\ ~p.hostNetwork}}

AtNodes(s) ==
    (UNION {AtNodePort(svc, p) : svc \in Range(s.services), p \in Range(s.pods)})
    \union (UNION {AtHostPort(p) : p \in Range(s.pods)})

\* The sources that could reach a hostNetwork pod past its policies.
Sources(s) ==
    {HostAt(a) : a \in ClusterAddresses(s) \ UNION s.cni.podCIDRs}
    \union {PodAt(a) : a \in UNION s.cni.podCIDRs}

\* A finding about an ipBlock is a hole by the API: there are pods that the
\* policies keep out of the port, and nodes that they let in.  The detector
\* looks at one ipBlock at a time, through early returns and the first hit
\* (admittingBlock, ipblock.go:130-169).
HolesAreReal ==
    OnePool(snap) /\ PlainPorts(snap) =>
        \A f \in Of("ipblock-node-ips") : Hole(snap, PodOf(f), f.port)

\* Every hole behind a NodePort or a hostPort is found, unless the CNI is
\* cilium: also one that only one of a Service's pods has, and whatever other
\* policies and rules there are (Detect and exposures, ipblock.go:42-76, 171).
HolesAreFound ==
    Audited /\ Enforced /\ snap.cni.name # "cilium" /\ OneFamily(snap) /\ PlainPorts(snap) =>
        \A x \in AtNodes(snap) :
            x.pod.ns \notin SystemNamespaces /\ Hole(snap, x.pod, x.port) =>
                \E f \in Of("ipblock-node-ips") : f.subject = x.subject

\* A hostNetwork pod with a port that its policies close to somebody is found,
\* if only through another pod of its workload (hostnetwork.go:28-56).
HostHolesAreFound ==
    Audited /\ Enforced /\ OneFamily(snap) =>
        \A p \in Range(snap.pods) :
            /\ p.hostNetwork /\ p.ns \notin SystemNamespaces
            /\ \E c \in TCPPorts(p) : \E src \in Sources(snap) : ~Declared(snap, p, c.num, src)
            => \E f \in Of("hostnetwork-under-policy") : f.subject = HostSubject(p)

\* A snapshot as a server that lists in another order would have given it.
Reversed(s) ==
    LET Back(q) == [i \in DOMAIN q |-> q[Len(q) + 1 - i]]
    IN  [s EXCEPT !.policies = Back(@), !.services = Back(@), !.pods = Back(@)]

FindingsOf(s) == UNION {Detect(i, s) : i \in 1 .. 3}

\* Node addresses are let into a subject's ports by blocks of both kinds.
OfBothKinds(s, subject) ==
    LET blocks == UNION {{s.policies[h[1]].rules[h[2]].from[h[3]].block : h \in Hits(s, e)} :
                            e \in {x \in Exposures(s) : x.subject = subject}}
    IN  \E b, c \in blocks : InternetWide(b) /\ ~InternetWide(c)

\* The order in which the API lists policies, Services and pods does not decide
\* what is found, although the first block and the first pod are reported.  Nor
\* does it decide how severe a finding is, unless an internet-wide block and a
\* narrower one let the nodes in: then the first one does, and the exit code
\* with it (severity from the first block, ipblock.go:90-103, 130-169).
OrderDoesNotDecide ==
    Audited =>
        LET here  == Index(findings)
            there == Index(FindingsOf(Reversed(snap)))
        IN  /\ DOMAIN here = DOMAIN there
            /\ \A k \in DOMAIN here : here[k] = there[k] \/ OfBothKinds(snap, k[2])

\* Not to know the pods' CIDRs or the CNI loses no finding and makes none more
\* severe: what is added is a warning, and no exit code goes from 0 to 1
\* (docs/experiments/exp4/RESULTS.md; early returns of the three detectors).
LessKnowledgeIsSafe ==
    Audited =>
        \A less \in {WithoutPodCIDRs(snap), WithoutCNI(snap)} :
            LET before == Index(findings)
                after  == Index(FindingsOf(less))
            IN  Dropped(before, after) \union Raised(before, after)
                    \union AddedCritical(before, after) = {}

\* Exit code 0 tells a CI job that nothing critical is there: policies are not
\* all decoration, and no hostNetwork pod is open to a source that its policies
\* exclude (audit.go:59-64, main.go:11-15).
ExitZeroIsClean ==
    exit = 0 =>
        /\ UserPolicies(snap) # {} => Enforced
        /\ snap.cni.name # "unknown" /\ Enforced /\ OneFamily(snap) =>
              \A p \in Range(snap.pods) : \A c \in TCPPorts(p) : \A src \in Sources(snap) :
                  p.hostNetwork /\ p.ns \notin SystemNamespaces => Declared(snap, p, c.num, src)

-----------------------------------------------------------------------------
(* What comments of the code say, and the code does not keep.                 *)

\* ipblock.go:348: resolveTargetPort maps a Service port to the pod's port number
\* "and name", by which a policy may then speak of it (ipblock.go:16-18: finds
\* pods whose policy admits node IPs "while NOT admitting pods").
HolesAreFoundByName ==
    Audited /\ Enforced /\ snap.cni.name # "cilium" /\ OneFamily(snap) =>
        \A x \in AtNodes(snap) :
            x.pod.ns \notin SystemNamespaces /\ Hole(snap, x.pod, x.port) =>
                \E f \in Of("ipblock-node-ips") : f.subject = x.subject
=============================================================================
