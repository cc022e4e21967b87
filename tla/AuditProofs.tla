---------------------------- MODULE AuditProofs ----------------------------
(* What an audit finds is what the API's semantics of NetworkPolicy calls a   *)
(* hole, for every set of snapshots that the API server could serve.          *)
EXTENDS Audit, TLAPS, WellFoundedInduction

-----------------------------------------------------------------------------
(* First elements.                                                            *)

\* A set of natural numbers has a least element.
LEMMA LeastNat ==
  ASSUME NEW T \in SUBSET Nat, T # {}
  PROVE  \E x \in T : \A y \in T : x <= y
<1> DEFINE R == OpToRel(<, Nat)
<1>1. IsWellFoundedOn(R, Nat)
  BY NatLessThanWellFounded
<1>2. \E x \in T : \A y \in T : <<y, x>> \notin R
  <2> HIDE DEF R
  <2> QED BY <1>1, WFMin
<1>3. \A x, y \in Nat : y < x => <<y, x>> \in R
  BY DEF OpToRel
<1> HIDE DEF R
<1>4. PICK x \in T : \A y \in T : <<y, x>> \notin R
  BY <1>2
<1>5. \A y \in T : ~(y < x)
  BY <1>3, <1>4, Zenon
<1>6. \A y \in T : x <= y
  BY <1>5, SMT
<1> QED BY <1>6

\* A set of positions, compared lexicographically, has a first one.
LEMMA FirstPosition ==
  ASSUME NEW T \in SUBSET (Nat \X Nat \X Nat), T # {}
  PROVE  \E h \in T : \A g \in T : ~Before(g, h)
<1>1. PICK a \in {h[1] : h \in T} : \A y \in {h[1] : h \in T} : a <= y
  <2>1. {h[1] : h \in T} \in SUBSET Nat /\ {h[1] : h \in T} # {}
    OBVIOUS
  <2> QED BY <2>1, LeastNat
<1> DEFINE T2 == {h \in T : h[1] = a}
<1>2. T2 # {} /\ T2 \subseteq T
  BY <1>1
<1>3. PICK b \in {h[2] : h \in T2} : \A y \in {h[2] : h \in T2} : b <= y
  <2>1. {h[2] : h \in T2} \in SUBSET Nat /\ {h[2] : h \in T2} # {}
    BY <1>2
  <2> QED BY <2>1, LeastNat
<1> DEFINE T3 == {h \in T2 : h[2] = b}
<1>4. T3 # {} /\ T3 \subseteq T
  BY <1>2, <1>3
<1>5. PICK c \in {h[3] : h \in T3} : \A y \in {h[3] : h \in T3} : c <= y
  <2>1. {h[3] : h \in T3} \in SUBSET Nat /\ {h[3] : h \in T3} # {}
    BY <1>4
  <2> QED BY <2>1, LeastNat
<1>6. PICK h \in T3 : h[3] = c
  BY <1>5
<1>7. h \in T /\ h[1] = a /\ h[2] = b /\ h[3] = c
  BY <1>6
<1>8. ASSUME NEW g \in T PROVE ~Before(g, h)
  <2>1. a <= g[1] /\ (g[1] = a => b <= g[2]) /\ (g[1] = a /\ g[2] = b => c <= g[3])
    BY <1>1, <1>3, <1>5
  <2>2. g[1] \in Nat /\ g[2] \in Nat /\ g[3] \in Nat /\ a \in Nat /\ b \in Nat /\ c \in Nat
    BY <1>7
  <2> QED BY <1>7, <2>1, <2>2 DEF Before
<1> QED BY <1>7, <1>8

-----------------------------------------------------------------------------
(* Exposures.                                                                 *)

\* The indices of a snapshot's lists are natural numbers.
LEMMA Indices ==
  ASSUME NEW s, Served(s)
  PROVE  /\ DOMAIN s.services \subseteq Nat /\ DOMAIN s.pods \subseteq Nat
         /\ \A p \in Range(s.pods) : DOMAIN p.ports \subseteq Nat
         /\ \A p \in Range(s.pods) : \A i \in DOMAIN p.ports :
               /\ p.ports[i] \in Range(p.ports)
               /\ p.ports[i].num \in PortNumbers
<1>1. \A S, l : l \in Seq(S) => DOMAIN l \subseteq Nat /\ \A i \in DOMAIN l : l[i] \in S
  OBVIOUS
<1>2. s.services \in Seq(Range(s.services)) /\ s.pods \in Seq(Range(s.pods))
  BY DEF Served
<1>3. \A p \in Range(s.pods) : p.ports \in Seq(ContainerPorts)
  BY DEF Served
<1>4. \A c \in ContainerPorts : c.num \in PortNumbers
  BY DEF ContainerPorts
<1>5. \A l : \A i \in DOMAIN l : l[i] \in Range(l)
  BY DEF Range
<1> QED BY <1>1, <1>2, <1>3, <1>4, <1>5

\* A port of the pod that has the number has the name, and there is one if the
\* name is not empty.
Names(p, num, name) ==
    /\ \A i \in DOMAIN p.ports : p.ports[i].num = num => p.ports[i].name = name
    /\ name # "" => \E i \in DOMAIN p.ports : p.ports[i].num = num /\ p.ports[i].name = name

\* The target of a Service port is found by its name or else by its number, and
\* comes with the name of a port of the pod that has its number.
LEMMA TargetPort ==
  ASSUME NEW s, Served(s), PlainPorts(s), NEW p \in Range(s.pods),
         NEW svc \in Range(s.services), NEW t \in ResolveTargetPort(p, svc)
  PROVE  Names(p, t.num, t.name)
<1> DEFINE fits == {i \in DOMAIN p.ports :
                    IF svc.target.name # "" THEN p.ports[i].name = svc.target.name
                    ELSE p.ports[i].num = svc.target.num}
           first == CHOOSE i \in fits : \A j \in fits : i <= j
<1>1. ServicePort(svc)
  BY DEF Served
<1>2. \A i, j \in DOMAIN p.ports : i # j => p.ports[i].num # p.ports[j].num
  BY DEF PlainPorts
<1>3. CASE fits # {}
  <2>1. fits \in SUBSET Nat
    BY Indices
  <2>2. first \in fits
    <3> HIDE DEF fits
    <3>1. \E i \in fits : \A j \in fits : i <= j
      BY <1>3, <2>1, LeastNat
    <3> QED BY <3>1
  <2>3. t = [num |-> p.ports[first].num, name |-> p.ports[first].name]
    BY <1>3 DEF ResolveTargetPort
  <2> HIDE DEF first
  <2>4. first \in DOMAIN p.ports /\ t.num = p.ports[first].num /\ t.name = p.ports[first].name
    BY <2>2, <2>3
  <2> QED BY <2>4, <1>2 DEF Names
<1>4. CASE fits = {}
  <2>1. svc.target.name = "" /\ svc.target.num # 0
        /\ t = [num |-> svc.target.num, name |-> ""]
    BY <1>1, <1>4 DEF ResolveTargetPort, ServicePort, PortNumbers
  <2>2. \A i \in DOMAIN p.ports : p.ports[i].num # t.num
    BY <1>4, <2>1
  <2> QED BY <2>1, <2>2 DEF Names
<1> QED BY <1>3, <1>4

\* The port that a Service port leads to by the API is the one it is resolved to.
LEMMA ReachedTarget ==
  ASSUME NEW s, Served(s), PlainPorts(s), NEW p \in Range(s.pods),
         NEW svc \in Range(s.services),
         NEW n \in TargetNumbers(svc, p)
  PROVE  \E t \in ResolveTargetPort(p, svc) : t.num = n
<1> DEFINE fits == {i \in DOMAIN p.ports :
                    IF svc.target.name # "" THEN p.ports[i].name = svc.target.name
                    ELSE p.ports[i].num = svc.target.num}
           first == CHOOSE i \in fits : \A j \in fits : i <= j
           found == [num |-> p.ports[first].num, name |-> p.ports[first].name]
<1>1. ServicePort(svc)
  BY DEF Served
<1>2. CASE fits # {}
  <2>1. fits \in SUBSET Nat
    BY Indices
  <2>2. first \in fits
    <3> HIDE DEF fits
    <3>1. \E i \in fits : \A j \in fits : i <= j
      BY <1>2, <2>1, LeastNat
    <3> QED BY <3>1
  <2>3. ResolveTargetPort(p, svc) = {found}
    BY <1>2 DEF ResolveTargetPort
  <2> HIDE DEF first
  <2>6. found \in ResolveTargetPort(p, svc) /\ found.num = p.ports[first].num
    BY <2>3
  <2> HIDE DEF found
  <2>4. CASE svc.target.name = ""
    <3>1. n = svc.target.num
      BY <1>1, <2>4 DEF TargetNumbers, ServicePort, PortNumbers
    <3> QED BY <2>2, <2>4, <2>6, <3>1
  <2>5. CASE svc.target.name # ""
    <3>1. PICK c \in TCPPorts(p) : c.name = svc.target.name /\ n = c.num
      BY <2>5 DEF TargetNumbers
    <3>2. PICK i \in DOMAIN p.ports : c = p.ports[i]
      BY DEF TCPPorts, Range
    <3>3. p.ports[i].name = p.ports[first].name /\ p.ports[i].name # ""
      BY <2>2, <2>5, <3>1, <3>2
    <3>4. i = first
      BY <2>2, <3>2, <3>3 DEF PlainPorts
    <3> QED BY <2>6, <3>1, <3>2, <3>4
  <2> QED BY <2>4, <2>5
<1>3. CASE fits = {}
  <2>1. svc.target.name = ""
    <3> SUFFICES ASSUME svc.target.name # "" PROVE FALSE
      OBVIOUS
    <3>1. PICK c \in TCPPorts(p) : c.name = svc.target.name
      BY DEF TargetNumbers
    <3>2. PICK i \in DOMAIN p.ports : c = p.ports[i]
      BY DEF TCPPorts, Range
    <3> QED BY <1>3, <3>1, <3>2
  <2>2. n = svc.target.num /\ svc.target.num # 0
    BY <1>1, <2>1 DEF TargetNumbers, ServicePort, PortNumbers
  <2>3. ResolveTargetPort(p, svc) = {[num |-> svc.target.num, name |-> ""]}
    BY <1>3, <2>1, <2>2 DEF ResolveTargetPort
  <2>4. [num |-> svc.target.num, name |-> ""].num = n
    BY <2>2
  <2> QED BY <2>3, <2>4
<1> QED BY <1>2, <1>3

\* An exposure is a NodePort or a hostPort.
LEMMA ExposureKinds ==
  ASSUME NEW s, NEW e
  PROVE  e \in Exposures(s) <=>
           \/ \E i \in DOMAIN s.services : \E j \in DOMAIN s.pods :
                \E t \in ResolveTargetPort(s.pods[j], s.services[i]) :
                   BehindNodePort(s, i, j) /\ e = NodePort(s, i, j, t)
           \/ \E j \in DOMAIN s.pods : \E i \in DOMAIN s.pods[j].ports :
                HasHostPort(s, j, i) /\ e = HostPort(s, j, i)
<1>1. e \in Exposures(s) <=>
        \/ \E i \in DOMAIN s.services : \E j \in DOMAIN s.pods : e \in NodePorts(s, i, j)
        \/ \E j \in DOMAIN s.pods : e \in HostPorts(s, j)
  <2>1. e \in UNION {NodePorts(s, i, j) : i \in DOMAIN s.services, j \in DOMAIN s.pods}
          <=> \E i \in DOMAIN s.services : \E j \in DOMAIN s.pods : e \in NodePorts(s, i, j)
    OBVIOUS
  <2>2. e \in UNION {HostPorts(s, j) : j \in DOMAIN s.pods}
          <=> \E j \in DOMAIN s.pods : e \in HostPorts(s, j)
    OBVIOUS
  <2> QED BY <2>1, <2>2 DEF Exposures
<1>2. \A i, j : e \in NodePorts(s, i, j) <=>
        \E t \in ResolveTargetPort(s.pods[j], s.services[i]) :
           BehindNodePort(s, i, j) /\ e = NodePort(s, i, j, t)
  BY DEF NodePorts
<1>3. \A j : e \in HostPorts(s, j) <=>
        \E i \in DOMAIN s.pods[j].ports : HasHostPort(s, j, i) /\ e = HostPort(s, j, i)
  BY DEF HostPorts
<1> QED BY <1>1, <1>2, <1>3

\* An exposure is of a pod of the snapshot, and has its place.
LEMMA ExposedAt ==
  ASSUME NEW s, Served(s), NEW e \in Exposures(s)
  PROVE  e.pod \in Range(s.pods) /\ e.at \in Nat \X Nat \X Nat
<1>1. ASSUME NEW i \in DOMAIN s.services, NEW j \in DOMAIN s.pods,
             NEW t \in ResolveTargetPort(s.pods[j], s.services[i]),
             e = NodePort(s, i, j, t)
      PROVE  e.pod \in Range(s.pods) /\ e.at \in Nat \X Nat \X Nat
  <2>1. e.at = <<1, i, j>> /\ e.pod = s.pods[j]
    BY <1>1 DEF NodePort
  <2> QED BY <2>1, Indices DEF Range
<1>2. ASSUME NEW j \in DOMAIN s.pods, NEW i \in DOMAIN s.pods[j].ports,
             e = HostPort(s, j, i)
      PROVE  e.pod \in Range(s.pods) /\ e.at \in Nat \X Nat \X Nat
  <2>1. e.at = <<2, j, i>> /\ e.pod = s.pods[j]
    BY <1>2 DEF HostPort
  <2>2. e.pod \in Range(s.pods) /\ i \in DOMAIN e.pod.ports
    BY <2>1 DEF Range
  <2> QED BY <2>1, <2>2, Indices
<1> QED BY <1>1, <1>2, ExposureKinds

\* What an exposure says of its port.
LEMMA ExposedPort ==
  ASSUME NEW s, Served(s), PlainPorts(s), NEW e \in Exposures(s)
  PROVE  e.pod \in Range(s.pods) /\ Names(e.pod, e.port, e.name)
<1>1. e.pod \in Range(s.pods)
  BY ExposedAt
<1>2. ASSUME NEW i \in DOMAIN s.services, NEW j \in DOMAIN s.pods,
             NEW t \in ResolveTargetPort(s.pods[j], s.services[i]),
             e = NodePort(s, i, j, t)
      PROVE  Names(e.pod, e.port, e.name)
  <2>1. e.pod = s.pods[j] /\ e.port = t.num /\ e.name = t.name
    BY <1>2 DEF NodePort
  <2>2. s.services[i] \in Range(s.services) /\ t \in ResolveTargetPort(e.pod, s.services[i])
    BY <2>1 DEF Range
  <2>3. Names(e.pod, t.num, t.name)
    BY <1>1, <2>2, TargetPort, Zenon
  <2> QED BY <2>1, <2>3
<1>3. ASSUME NEW j \in DOMAIN s.pods, NEW i \in DOMAIN s.pods[j].ports,
             e = HostPort(s, j, i)
      PROVE  Names(e.pod, e.port, e.name)
  <2>1. e.pod = s.pods[j] /\ e.port = e.pod.ports[i].num /\ e.name = e.pod.ports[i].name
    BY <1>3 DEF HostPort
  <2>2. \A k, l \in DOMAIN e.pod.ports : k # l => e.pod.ports[k].num # e.pod.ports[l].num
    BY <1>1 DEF PlainPorts
  <2> QED BY <2>1, <2>2 DEF Names
<1> QED BY <1>1, <1>2, <1>3, ExposureKinds

\* The detector takes a rule to be about a port when the rule opens it.
LEMMA RulesAgree ==
  ASSUME NEW s, Served(s), PlainPorts(s), NEW e \in Exposures(s), NEW r
  PROVE  RuleOpens(r, e.pod, e.port) <=> PortMatches(r.ports, e.port, e.name)
<1>1. \A c : c \in Range(e.pod.ports) <=> \E i \in DOMAIN e.pod.ports : c = e.pod.ports[i]
  BY DEF Range
<1>2. /\ e.pod \in Range(s.pods)
      /\ Names(e.pod, e.port, e.name)
  BY ExposedPort
<1>4. \A i \in DOMAIN e.pod.ports : e.pod.ports[i].tcp
  BY <1>2 DEF PlainPorts
<1>3. ASSUME NEW n, n # ""
      PROVE  (\E c \in Range(e.pod.ports) : c.tcp /\ c.name = n /\ c.num = e.port) <=> e.name = n
  <2>1. CASE e.name = n
    <3>1. PICK i \in DOMAIN e.pod.ports : e.pod.ports[i].num = e.port /\ e.pod.ports[i].name = e.name
      BY <1>2, <1>3, <2>1 DEF Names
    <3> QED BY <1>1, <1>4, <2>1, <3>1
  <2>2. ASSUME NEW c \in Range(e.pod.ports), c.name = n, c.num = e.port
        PROVE  e.name = n
    <3>1. PICK i \in DOMAIN e.pod.ports : c = e.pod.ports[i]
      BY <1>1
    <3> QED BY <1>2, <2>2, <3>1 DEF Names
  <2> QED BY <2>1, <2>2
<1> QED BY <1>3 DEF RuleOpens, PortMatches
-----------------------------------------------------------------------------
(* Rules.                                                                     *)

\* The peers of a rule admit a source.
Admits(r, src) == r.from = <<>> \/ \E peer \in Range(r.from) : PeerAdmits(peer, src)

\* What is declared, by the rules: those of the policies that select the pod.
LEMMA DeclaredByRule ==
  ASSUME NEW s, NEW p, NEW port, NEW src
  PROVE  Declared(s, p, port, src) <=>
           \/ IngressPoliciesFor(s, p) = {}
           \/ \E np \in IngressPoliciesFor(s, p) : \E r \in Range(np.rules) :
                 RuleOpens(r, p, port) /\ Admits(r, src)
BY DEF Declared, IngressPoliciesFor, Admits

\* The rules about a port are rules of the policies that select the pod.
LEMMA RulesForIs ==
  ASSUME NEW s, NEW p, NEW port, NEW name, NEW r
  PROVE  r \in RulesFor(s, p, port, name) <=>
           \E np \in IngressPoliciesFor(s, p) : r \in Range(np.rules) /\ PortMatches(r.ports, port, name)
BY DEF RulesFor

\* The block of a rule's peer is one of the snapshot's blocks.
LEMMA BlockOfRule ==
  ASSUME NEW s, NEW p, NEW np \in IngressPoliciesFor(s, p), NEW r \in Range(np.rules),
         NEW peer \in Range(r.from), peer.kind = "block"
  PROVE  peer.block \in Blocks(s)
<1>1. np \in Range(s.policies)
  BY DEF IngressPoliciesFor
<1>2. r \in UNION {Range(q.rules) : q \in Range(s.policies)}
  BY <1>1
<1>3. peer \in UNION {Range(q.from) : q \in UNION {Range(q.rules) : q \in Range(s.policies)}}
  BY <1>2
<1> QED BY <1>3 DEF Blocks

\* In a cluster of one family a block that is open to all holds every source.
LEMMA OpenHoldsAll ==
  ASSUME NEW s, Served(s), OneFamily(s), NEW b \in Blocks(s), OpenToAll(b),
         NEW a \in ClusterAddresses(s) \union UNION s.cni.podCIDRs
  PROVE  a \in b.cidr \ UNION b.except
<1>1. PICK f \in Families :
        /\ s.nodes \subseteq f
        /\ \A pool \in s.cni.podCIDRs : pool \subseteq f
        /\ \A c \in Blocks(s) : c.cidr \subseteq f
  BY DEF OneFamily
<1>2. b.cidr \in Families /\ b.except = {}
  BY DEF OpenToAll, InternetWide
<1>3. b.cidr = f
  BY <1>1, <1>2, FamiliesAssumption
<1>4. ASSUME a \in ClusterAddresses(s) PROVE a \in f
  <2>1. PICK g \in Families : g \intersect s.nodes # {} /\ a \in g
    BY <1>4 DEF ClusterAddresses
  <2>2. g = f
    BY <1>1, <2>1, FamiliesAssumption
  <2> QED BY <2>1, <2>2
<1>5. ASSUME a \in UNION s.cni.podCIDRs PROVE a \in f
  BY <1>1, <1>5
<1> QED BY <1>2, <1>3, <1>4, <1>5
-----------------------------------------------------------------------------
(* hostNetwork pods.                                                          *)

\* A TCP port that the detector takes for open to everyone is declared open to
\* every source that could reach the pod.
LEMMA OpenToEveryoneIsDeclared ==
  ASSUME NEW s, Served(s), OneFamily(s), NEW p, NEW c \in TCPPorts(p),
         OpenToEveryone(s, p, c.num, c.name), NEW src \in Sources(s)
  PROVE  Declared(s, p, c.num, src)
<1>1. PICK r \in RulesFor(s, p, c.num, c.name) :
        \/ r.from = <<>>
        \/ \E peer \in Range(r.from) : peer.kind = "block" /\ OpenToAll(peer.block)
  BY DEF OpenToEveryone
<1>2. PICK np \in IngressPoliciesFor(s, p) :
        r \in Range(np.rules) /\ PortMatches(r.ports, c.num, c.name)
  BY RulesForIs
<1>3. c \in Range(p.ports) /\ c.tcp
  BY DEF TCPPorts
<1>4. RuleOpens(r, p, c.num)
  BY <1>2, <1>3 DEF RuleOpens, PortMatches
<1>5. src.addr \in ClusterAddresses(s) \union UNION s.cni.podCIDRs
  BY DEF Sources, HostAt, PodAt
<1>6. ASSUME NEW peer \in Range(r.from), peer.kind = "block", OpenToAll(peer.block)
      PROVE  PeerAdmits(peer, src)
  <2>1. peer.block \in Blocks(s)
    BY <1>2, <1>6, BlockOfRule
  <2>2. src.addr \in peer.block.cidr \ UNION peer.block.except
    BY <1>5, <1>6, <2>1, OpenHoldsAll
  <2> QED BY <1>6, <2>2 DEF PeerAdmits
<1>7. Admits(r, src)
  BY <1>1, <1>6 DEF Admits
<1> QED BY <1>2, <1>4, <1>7, DeclaredByRule

\* The pod j is one that the detector has something to say about.
Reportable(s, j) ==
    /\ s.pods[j].hostNetwork /\ s.pods[j].ns \notin SystemNamespaces
    /\ IngressPoliciesFor(s, s.pods[j]) # {} /\ Restricted(s, s.pods[j])

\* Such a pod has a finding of its subject, critical under a known CNI.
LEMMA ReportableIsFound ==
  ASSUME NEW s, Served(s), ~Unenforced(s), NEW j \in DOMAIN s.pods, Reportable(s, j)
  PROVE  \E f \in HostFindings(s) :
            /\ f.detector = "hostnetwork-under-policy" /\ f.subject = HostSubject(s.pods[j])
            /\ s.cni.name # "unknown" => f.severity = "critical"
<1> DEFINE found == {k \in DOMAIN s.pods : Reportable(s, k)}
           firsts == {k \in found : \A i \in found :
                        HostSubject(s.pods[i]) = HostSubject(s.pods[k]) => k <= i}
           severity == IF s.cni.name = "unknown" THEN "warning" ELSE "critical"
           found1(k) == Finding("hostnetwork-under-policy", HostSubject(s.pods[k]), severity,
                                s.pods[k].id, 0)
<1>1. HostFindings(s) = {found1(k) : k \in firsts}
  BY DEF HostFindings, Reportable
<1> DEFINE same == {k \in found : HostSubject(s.pods[k]) = HostSubject(s.pods[j])}
<1>2. same \in SUBSET Nat /\ same # {}
  BY Indices
<1>3. PICK k \in same : \A i \in same : k <= i
  <2> HIDE DEF same
  <2> QED BY <1>2, LeastNat
<1>4. k \in firsts
  BY <1>3
<1>5. found1(k) \in HostFindings(s)
  BY <1>1, <1>4
<1>6. /\ found1(k).detector = "hostnetwork-under-policy"
      /\ found1(k).subject = HostSubject(s.pods[k]) /\ found1(k).severity = severity
  BY DEF Finding
<1>7. HostSubject(s.pods[k]) = HostSubject(s.pods[j])
  BY <1>3
<1>8. s.cni.name # "unknown" => severity = "critical"
  OBVIOUS
<1> HIDE DEF found1, firsts, same, severity
<1> QED BY <1>5, <1>6, <1>7, <1>8

\* A hostNetwork pod with a port closed to somebody is one of them.
LEMMA ClosedIsReportable ==
  ASSUME NEW s, Served(s), OneFamily(s), NEW p \in Range(s.pods),
         p.hostNetwork, p.ns \notin SystemNamespaces,
         NEW c \in TCPPorts(p), NEW src \in Sources(s), ~Declared(s, p, c.num, src)
  PROVE  \E j \in DOMAIN s.pods : s.pods[j] = p /\ Reportable(s, j)
<1>1. PICK j \in DOMAIN s.pods : s.pods[j] = p
  BY DEF Range
<1>2. IngressPoliciesFor(s, p) # {}
  BY DeclaredByRule
<1>3. Restricted(s, p)
  BY OpenToEveryoneIsDeclared DEF Restricted
<1> QED BY <1>1, <1>2, <1>3 DEF Reportable
-----------------------------------------------------------------------------
(* ipBlocks.                                                                  *)

\* There are hits where a rule about the exposed port has a block that admits a
\* node address.
LEMMA HitsAre ==
  ASSUME NEW s, Served(s), NEW e
  PROVE  Hits(s, e) # {} <=>
           \E np \in IngressPoliciesFor(s, e.pod) : \E r \in Range(np.rules) :
              /\ PortMatches(r.ports, e.port, e.name)
              /\ \E peer \in Range(r.from) : peer.kind = "block" /\ AdmitsAny(peer.block, s.nodes)
<1> DEFINE At(i, k, m) ==
              LET r == s.policies[i].rules[k]
              IN  /\ s.policies[i] \in IngressPoliciesFor(s, e.pod)
                  /\ PortMatches(r.ports, e.port, e.name)
                  /\ r.from[m].kind = "block" /\ AdmitsAny(r.from[m].block, s.nodes)
           peers == UNION {UNION {{<<i, k, m>> : m \in DOMAIN s.policies[i].rules[k].from} :
                                  k \in DOMAIN s.policies[i].rules} : i \in DOMAIN s.policies}
<1>1. \A h : h \in peers <=>
        \E i \in DOMAIN s.policies : \E k \in DOMAIN s.policies[i].rules :
           \E m \in DOMAIN s.policies[i].rules[k].from : h = <<i, k, m>>
  OBVIOUS
<1>2. \A h : h \in Hits(s, e) <=> h \in peers /\ At(h[1], h[2], h[3])
  BY DEF Hits
<1>3. Hits(s, e) # {} <=>
        \E i \in DOMAIN s.policies : \E k \in DOMAIN s.policies[i].rules :
           \E m \in DOMAIN s.policies[i].rules[k].from : At(i, k, m)
  <2> HIDE DEF peers, At
  <2>1. ASSUME NEW i \in DOMAIN s.policies, NEW k \in DOMAIN s.policies[i].rules,
               NEW m \in DOMAIN s.policies[i].rules[k].from, At(i, k, m)
        PROVE  Hits(s, e) # {}
    <3>1. <<i, k, m>> \in peers
      BY <1>1
    <3> QED BY <1>2, <2>1, <3>1
  <2>2. ASSUME NEW h \in Hits(s, e)
        PROVE  \E i \in DOMAIN s.policies : \E k \in DOMAIN s.policies[i].rules :
                  \E m \in DOMAIN s.policies[i].rules[k].from : At(i, k, m)
    <3>1. PICK i \in DOMAIN s.policies : \E k \in DOMAIN s.policies[i].rules :
             \E m \in DOMAIN s.policies[i].rules[k].from : h = <<i, k, m>>
      BY <1>1, <1>2
    <3>2. PICK k \in DOMAIN s.policies[i].rules :
             \E m \in DOMAIN s.policies[i].rules[k].from : h = <<i, k, m>>
      BY <3>1
    <3>3. PICK m \in DOMAIN s.policies[i].rules[k].from : h = <<i, k, m>>
      BY <3>2
    <3>4. At(i, k, m)
      BY <1>2, <3>3
    <3> QED BY <3>4
  <2> QED BY <2>1, <2>2
<1>4. \A np \in IngressPoliciesFor(s, e.pod) : \E i \in DOMAIN s.policies : np = s.policies[i]
  BY DEF IngressPoliciesFor, Range
<1>5. \A l : \A x : x \in Range(l) <=> \E i \in DOMAIN l : x = l[i]
  BY DEF Range
<1>6. ASSUME NEW i \in DOMAIN s.policies, NEW k \in DOMAIN s.policies[i].rules,
             NEW m \in DOMAIN s.policies[i].rules[k].from, At(i, k, m)
      PROVE  \E np \in IngressPoliciesFor(s, e.pod) : \E r \in Range(np.rules) :
               /\ PortMatches(r.ports, e.port, e.name)
               /\ \E peer \in Range(r.from) : peer.kind = "block" /\ AdmitsAny(peer.block, s.nodes)
  BY <1>5, <1>6
<1>7. ASSUME NEW np \in IngressPoliciesFor(s, e.pod), NEW r \in Range(np.rules),
             PortMatches(r.ports, e.port, e.name),
             NEW peer \in Range(r.from), peer.kind = "block", AdmitsAny(peer.block, s.nodes)
      PROVE  \E i \in DOMAIN s.policies : \E k \in DOMAIN s.policies[i].rules :
                \E m \in DOMAIN s.policies[i].rules[k].from : At(i, k, m)
  <2>1. PICK i \in DOMAIN s.policies : np = s.policies[i]
    BY <1>4
  <2>2. PICK k \in DOMAIN s.policies[i].rules : r = s.policies[i].rules[k]
    BY <1>5, <2>1
  <2>3. PICK m \in DOMAIN s.policies[i].rules[k].from : peer = s.policies[i].rules[k].from[m]
    BY <1>5, <2>2
  <2>4. At(i, k, m)
    BY <1>7, <2>1, <2>2, <2>3
  <2> QED BY <2>4
<1> HIDE DEF At, peers
<1> QED BY <1>3, <1>6, <1>7

\* A node address that a block admits is a host that the peer admits.
LEMMA BlockAdmitsHost ==
  ASSUME NEW peer, peer.kind = "block", NEW n
  PROVE  PeerAdmits(peer, HostAt(n)) <=>
           n \in peer.block.cidr /\ \A x \in peer.block.except : n \notin x
BY DEF PeerAdmits, HostAt

\* With one pool that no policy takes apart, where the detector finds that the
\* pods are not admitted no pod is.
LEMMA PodsOut ==
  ASSUME NEW s, Served(s), OnePool(s), PlainPorts(s), NEW e \in Exposures(s),
         IngressPoliciesFor(s, e.pod) # {},
         ~PodsAdmitted(RulesFor(s, e.pod, e.port, e.name), s.cni.podCIDRs)
  PROVE  \E a \in UNION s.cni.podCIDRs : ~Declared(s, e.pod, e.port, PodAt(a))
<1>1. PICK pool \in CIDRs :
        /\ s.cni.podCIDRs = {pool}
        /\ \A b \in Blocks(s) : \A c \in {b.cidr} \union b.except :
              pool \subseteq c \/ pool \intersect c = {}
  BY DEF OnePool
<1>2. PICK a \in pool : TRUE
  BY CIDRsAssumption
<1>3. SUFFICES ASSUME Declared(s, e.pod, e.port, PodAt(a)) PROVE FALSE
  BY <1>1
<1>4. PICK np \in IngressPoliciesFor(s, e.pod) : \E r \in Range(np.rules) :
        RuleOpens(r, e.pod, e.port) /\ Admits(r, PodAt(a))
  BY <1>3, DeclaredByRule
<1>5. PICK r \in Range(np.rules) : RuleOpens(r, e.pod, e.port) /\ Admits(r, PodAt(a))
  BY <1>4
<1>6. PortMatches(r.ports, e.port, e.name)
  BY <1>5, RulesAgree
<1>7. r \in RulesFor(s, e.pod, e.port, e.name)
  BY <1>5, <1>6, RulesForIs
<1>8. r.from # <<>> /\ \A peer \in Range(r.from) : peer.kind # "allPods"
  BY <1>7 DEF PodsAdmitted
<1>9. PICK peer \in Range(r.from) : PeerAdmits(peer, PodAt(a))
  BY <1>5, <1>8 DEF Admits
<1>10. peer.kind = "block" /\ a \in peer.block.cidr \ UNION peer.block.except
  BY <1>8, <1>9 DEF PeerAdmits, PodAt
<1>11. peer.block \in Blocks(s)
  BY <1>5, <1>9, <1>10, BlockOfRule
<1>12. pool \subseteq peer.block.cidr
  BY <1>1, <1>2, <1>10, <1>11
<1>13. \A x \in peer.block.except : x \intersect pool = {}
  BY <1>1, <1>2, <1>10, <1>11
<1>14. AdmitsAll(peer.block, s.cni.podCIDRs)
  BY <1>1, <1>12, <1>13 DEF AdmitsAll
<1> QED BY <1>1, <1>7, <1>9, <1>10, <1>14 DEF PodsAdmitted

\* In one family, a pod that a policy keeps out is one that the detector sees
\* kept out.
LEMMA PodsKeptOut ==
  ASSUME NEW s, Served(s), OneFamily(s), PlainPorts(s), NEW e \in Exposures(s),
         NEW a \in UNION s.cni.podCIDRs, ~Declared(s, e.pod, e.port, PodAt(a))
  PROVE  ~PodsAdmitted(RulesFor(s, e.pod, e.port, e.name), s.cni.podCIDRs)
<1>1. SUFFICES ASSUME NEW r \in RulesFor(s, e.pod, e.port, e.name),
                      \/ r.from = <<>>
                      \/ \E peer \in Range(r.from) :
                            \/ peer.kind = "allPods"
                            \/ /\ peer.kind = "block"
                               /\ \/ OpenToAll(peer.block)
                                  \/ s.cni.podCIDRs # {} /\ AdmitsAll(peer.block, s.cni.podCIDRs)
               PROVE  Admits(r, PodAt(a))
  <2>1. ASSUME NEW r \in RulesFor(s, e.pod, e.port, e.name), Admits(r, PodAt(a)) PROVE FALSE
    <3>1. PICK np \in IngressPoliciesFor(s, e.pod) :
            r \in Range(np.rules) /\ PortMatches(r.ports, e.port, e.name)
      BY <2>1, RulesForIs
    <3>2. RuleOpens(r, e.pod, e.port)
      BY <3>1, RulesAgree
    <3> QED BY <2>1, <3>1, <3>2, DeclaredByRule
  <2> QED BY <1>1, <2>1 DEF PodsAdmitted
<1>2. CASE r.from = <<>>
  BY <1>2 DEF Admits
<1>3. ASSUME NEW peer \in Range(r.from), peer.kind = "allPods"
      PROVE  Admits(r, PodAt(a))
  BY <1>3 DEF Admits, PeerAdmits, PodAt
<1>4. ASSUME NEW peer \in Range(r.from), peer.kind = "block",
             a \in peer.block.cidr \ UNION peer.block.except
      PROVE  Admits(r, PodAt(a))
  BY <1>4 DEF Admits, PeerAdmits, PodAt
<1>5. ASSUME NEW peer \in Range(r.from), peer.kind = "block", OpenToAll(peer.block)
      PROVE  a \in peer.block.cidr \ UNION peer.block.except
  <2>1. PICK np \in IngressPoliciesFor(s, e.pod) : r \in Range(np.rules)
    BY <1>1, RulesForIs
  <2>2. peer.block \in Blocks(s)
    BY <1>5, <2>1, BlockOfRule
  <2> QED BY <1>5, <2>2, OpenHoldsAll
<1>6. ASSUME NEW peer \in Range(r.from), AdmitsAll(peer.block, s.cni.podCIDRs)
      PROVE  a \in peer.block.cidr \ UNION peer.block.except
  BY <1>6 DEF AdmitsAll
<1> QED BY <1>1, <1>2, <1>3, <1>4, <1>5, <1>6

\* The detector has a block for an exposure where there are hits and the pods
\* are not admitted.
LEMMA AdmittingBlockIs ==
  ASSUME NEW s, NEW e
  PROVE  AdmittingBlock(s, e) # {} <=>
           /\ Hits(s, e) # {}
           /\ ~PodsAdmitted(RulesFor(s, e.pod, e.port, e.name), s.cni.podCIDRs)
<1> DEFINE hits == Hits(s, e)
           h == CHOOSE h \in hits : \A g \in hits : ~Before(g, h)
           b == s.policies[h[1]].rules[h[2]].from[h[3]].block
           quiet == hits = {} \/ PodsAdmitted(RulesFor(s, e.pod, e.port, e.name), s.cni.podCIDRs)
<1>1. AdmittingBlock(s, e) = IF quiet THEN {} ELSE {b}
  BY DEF AdmittingBlock
<1>2. {b} # {}
  OBVIOUS
<1> HIDE DEF b
<1> QED BY <1>1, <1>2

\* Such an exposure of plain ports in one pool is a hole.
LEMMA AdmittedIsHole ==
  ASSUME NEW s, Served(s), OnePool(s), PlainPorts(s), NEW e \in Exposures(s),
         AdmittingBlock(s, e) # {}
  PROVE  Hole(s, e.pod, e.port)
<1>1. PICK np \in IngressPoliciesFor(s, e.pod) : \E r \in Range(np.rules) :
        /\ PortMatches(r.ports, e.port, e.name)
        /\ \E peer \in Range(r.from) : peer.kind = "block" /\ AdmitsAny(peer.block, s.nodes)
  BY AdmittingBlockIs, HitsAre
<1>2. PICK r \in Range(np.rules) :
        /\ PortMatches(r.ports, e.port, e.name)
        /\ \E peer \in Range(r.from) : peer.kind = "block" /\ AdmitsAny(peer.block, s.nodes)
  BY <1>1
<1>3. PICK peer \in Range(r.from) : peer.kind = "block" /\ AdmitsAny(peer.block, s.nodes)
  BY <1>2
<1>4. PICK n \in s.nodes : n \in peer.block.cidr /\ \A x \in peer.block.except : n \notin x
  BY <1>3 DEF AdmitsAny
<1>5. PeerAdmits(peer, HostAt(n))
  BY <1>3, <1>4, BlockAdmitsHost
<1>6. RuleOpens(r, e.pod, e.port) /\ Admits(r, HostAt(n))
  BY <1>2, <1>5, RulesAgree DEF Admits
<1>7. Declared(s, e.pod, e.port, HostAt(n))
  BY <1>6, DeclaredByRule
<1>8. \E a \in UNION s.cni.podCIDRs : ~Declared(s, e.pod, e.port, PodAt(a))
  BY <1>1, AdmittingBlockIs, PodsOut
<1> QED BY <1>7, <1>8 DEF Hole

\* In one family, a hole at an exposure has a block.
LEMMA HoleIsAdmitted ==
  ASSUME NEW s, Served(s), OneFamily(s), PlainPorts(s), NEW e \in Exposures(s),
         Hole(s, e.pod, e.port)
  PROVE  AdmittingBlock(s, e) # {}
<1>1. PICK a \in UNION s.cni.podCIDRs : ~Declared(s, e.pod, e.port, PodAt(a))
  BY DEF Hole
<1>2. PICK n \in s.nodes : Declared(s, e.pod, e.port, HostAt(n))
  BY DEF Hole
<1>3. IngressPoliciesFor(s, e.pod) # {}
  BY <1>1, DeclaredByRule
<1>4. PICK np \in IngressPoliciesFor(s, e.pod) : \E r \in Range(np.rules) :
        RuleOpens(r, e.pod, e.port) /\ Admits(r, HostAt(n))
  BY <1>2, <1>3, DeclaredByRule
<1>5. PICK r \in Range(np.rules) : RuleOpens(r, e.pod, e.port) /\ Admits(r, HostAt(n))
  BY <1>4
<1>6. r.from # <<>>
  BY <1>1, <1>4, <1>5, DeclaredByRule DEF Admits
<1>7. PICK peer \in Range(r.from) : PeerAdmits(peer, HostAt(n))
  BY <1>5, <1>6 DEF Admits
<1>8. peer.kind = "block"
  BY <1>7 DEF PeerAdmits, HostAt
<1>9. AdmitsAny(peer.block, s.nodes)
  BY <1>7, <1>8, BlockAdmitsHost DEF AdmitsAny
<1>10. PortMatches(r.ports, e.port, e.name)
  BY <1>5, RulesAgree
<1>11. Hits(s, e) # {}
  BY <1>8, <1>9, <1>10, HitsAre
<1> QED BY <1>1, <1>11, PodsKeptOut, AdmittingBlockIs

\* An exposure that has a block leads to a finding of its subject.
LEMMA BlockIsFound ==
  ASSUME NEW s, Served(s), NEW e \in Exposures(s), AdmittingBlock(s, e) # {},
         s.cni.name # "cilium", ~Unenforced(s), s.nodes # {}
  PROVE  \E f \in IPBlockFindings(s) : f.detector = "ipblock-node-ips" /\ f.subject = e.subject
<1> DEFINE hit == {x \in Exposures(s) : AdmittingBlock(s, x) # {}}
           firsts == {x \in hit : \A g \in hit : g.subject = x.subject => ~Before(g.at, x.at)}
           same == {x \in hit : x.subject = e.subject}
           found(x, b) == Finding("ipblock-node-ips", x.subject, BlockSeverity(s, b), x.pod.id, x.port)
<1>1. IPBlockFindings(s) = UNION {{found(x, b) : b \in AdmittingBlock(s, x)} : x \in firsts}
  BY DEF IPBlockFindings
<1>2. PICK x \in same : \A g \in same : ~Before(g.at, x.at)
  <2>1. e \in same /\ \A g \in same : g.at \in Nat \X Nat \X Nat
    BY ExposedAt
  <2> DEFINE places == {g.at : g \in same}
  <2>2. places \in SUBSET (Nat \X Nat \X Nat) /\ places # {}
    BY <2>1
  <2>3. \A h : h \in places <=> \E g \in same : h = g.at
    OBVIOUS
  <2> HIDE DEF same, places
  <2>4. PICK h \in places : \A g \in places : ~Before(g, h)
    BY <2>2, FirstPosition
  <2> QED BY <2>3, <2>4
<1>3. x \in firsts
  BY <1>2
<1>4. PICK b \in AdmittingBlock(s, x) : TRUE
  BY <1>2
<1>5. found(x, b) \in IPBlockFindings(s)
  <2> HIDE DEF found, firsts
  <2> QED BY <1>1, <1>3, <1>4
<1>6. found(x, b).detector = "ipblock-node-ips" /\ found(x, b).subject = x.subject
  BY DEF Finding
<1>7. x.subject = e.subject
  BY <1>2
<1> HIDE DEF found
<1> QED BY <1>5, <1>6, <1>7

\* What is reachable at the node addresses outside the system namespaces is
\* behind an exposure.
LEMMA AtNodesIsExposed ==
  ASSUME NEW s, Served(s), PlainPorts(s), NEW x \in AtNodes(s),
         x.pod.ns \notin SystemNamespaces
  PROVE  \E e \in Exposures(s) : e.subject = x.subject /\ e.pod = x.pod /\ e.port = x.port
<1> DEFINE ViaSvc(svc, p, n) ==
              [subject |-> <<svc.ns, "svc", svc.name, svc.nodePort>>, pod |-> p, port |-> n]
           ViaPort(p, c) == [subject |-> <<p.ns, p.workload, c.hostPort>>, pod |-> p, port |-> c.num]
           Bound(svc, p) == /\ svc.external /\ svc.tcp /\ svc.nodePort # 0
                            /\ p.ns = svc.ns /\ ~p.hostNetwork /\ p.id \in svc.selects
<1>1. \/ \E svc \in Range(s.services) : \E p \in Range(s.pods) : x \in AtNodePort(svc, p)
      \/ \E p \in Range(s.pods) : x \in AtHostPort(p)
  BY DEF AtNodes
<1>4. ASSUME NEW svc, NEW p, x \in AtNodePort(svc, p)
      PROVE  Bound(svc, p) /\ \E n \in TargetNumbers(svc, p) : x = ViaSvc(svc, p, n)
  BY <1>4 DEF AtNodePort
<1>5. ASSUME NEW p, x \in AtHostPort(p)
      PROVE  \E c \in TCPPorts(p) : ~p.hostNetwork /\ c.hostPort # 0 /\ x = ViaPort(p, c)
  BY <1>5 DEF AtHostPort
<1>2. ASSUME NEW svc \in Range(s.services), NEW p \in Range(s.pods),
             NEW n \in TargetNumbers(svc, p), Bound(svc, p), x = ViaSvc(svc, p, n)
      PROVE  \E e \in Exposures(s) : e.subject = x.subject /\ e.pod = x.pod /\ e.port = x.port
  <2>1. PICK i \in DOMAIN s.services : svc = s.services[i]
    BY DEF Range
  <2>2. PICK j \in DOMAIN s.pods : p = s.pods[j]
    BY DEF Range
  <2>3. BehindNodePort(s, i, j)
    BY <1>2, <2>1, <2>2 DEF BehindNodePort
  <2>4. \E t \in ResolveTargetPort(p, svc) : t.num = n
    BY <1>2, ReachedTarget
  <2>5. PICK t \in ResolveTargetPort(s.pods[j], s.services[i]) : t.num = n
    BY <2>1, <2>2, <2>4
  <2>6. NodePort(s, i, j, t) \in Exposures(s)
    BY <2>3, ExposureKinds
  <2>7. /\ NodePort(s, i, j, t).subject = x.subject /\ NodePort(s, i, j, t).pod = x.pod
        /\ NodePort(s, i, j, t).port = x.port
    BY <1>2, <2>1, <2>2, <2>5 DEF NodePort
  <2> QED BY <2>6, <2>7
<1>3. ASSUME NEW p \in Range(s.pods), NEW c \in TCPPorts(p), ~p.hostNetwork, c.hostPort # 0,
             x = ViaPort(p, c)
      PROVE  \E e \in Exposures(s) : e.subject = x.subject /\ e.pod = x.pod /\ e.port = x.port
  <2>1. PICK j \in DOMAIN s.pods : p = s.pods[j]
    BY DEF Range
  <2>2. PICK i \in DOMAIN p.ports : c = p.ports[i]
    BY DEF TCPPorts, Range
  <2>3. HasHostPort(s, j, i)
    BY <1>3, <2>1, <2>2 DEF HasHostPort, TCPPorts
  <2>4. HostPort(s, j, i) \in Exposures(s)
    BY <2>1, <2>2, <2>3, ExposureKinds
  <2>5. /\ HostPort(s, j, i).subject = x.subject /\ HostPort(s, j, i).pod = x.pod
        /\ HostPort(s, j, i).port = x.port
    BY <1>3, <2>1, <2>2 DEF HostPort
  <2> QED BY <2>4, <2>5
<1> HIDE DEF Bound, ViaSvc, ViaPort
<1> QED BY <1>1, <1>2, <1>3, <1>4, <1>5

-----------------------------------------------------------------------------
(* The audit.                                                                 *)

\* The findings are those of the detectors that ran, on the one snapshot that
\* was loaded; the exit code is 2 for no snapshot, 0 for no critical finding.
IInv ==
    /\ pc \in {"load", "detect", "report", "done"} /\ exit \in {Running, 0, 1, 2}
    /\ pc = "load" => ran = 0 /\ exit = Running
    /\ pc = "detect" => snap \in Snapshots /\ ran \in 0 .. 2 /\ exit = Running
    /\ pc = "report" => snap \in Snapshots /\ ran = 3 /\ exit = Running
    /\ pc = "done" =>
          \/ /\ snap \in Snapshots /\ ran = 3 /\ exit \in {0, 1}
             /\ exit = 0 => \A f \in findings : f.severity # "critical"
          \/ ran = 0 /\ exit = 2
    /\ findings = UNION {Detect(i, snap) : i \in 1 .. ran}

\* A detector names itself, and a finding is critical or a warning.
LEMMA DetectType ==
  ASSUME NEW i, NEW s, NEW f \in Detect(i, s)
  PROVE  /\ f.detector \in DetectorNames /\ f.severity \in {"critical", "warning"}
         /\ f.detector = "ipblock-node-ips" => f \in IPBlockFindings(s)
<1>1. CASE f \in CNIFindings(s)
  BY <1>1 DEF CNIFindings, Finding, DetectorNames
<1>2. CASE f \in IPBlockFindings(s)
  <2>1. PICK e, b : f = Finding("ipblock-node-ips", e.subject, BlockSeverity(s, b), e.pod.id, e.port)
    BY <1>2 DEF IPBlockFindings
  <2>2. f.detector = "ipblock-node-ips" /\ f.severity = BlockSeverity(s, b)
    BY <2>1 DEF Finding
  <2> QED BY <1>2, <2>2 DEF BlockSeverity, DetectorNames
<1>3. CASE f \in HostFindings(s)
  <2>1. /\ f.detector = "hostnetwork-under-policy"
        /\ f.severity = IF s.cni.name = "unknown" THEN "warning" ELSE "critical"
    <3> DEFINE severity == IF s.cni.name = "unknown" THEN "warning" ELSE "critical"
               found(j) == Finding("hostnetwork-under-policy", HostSubject(s.pods[j]), severity,
                                   s.pods[j].id, 0)
    <3>1. \A j : found(j).detector = "hostnetwork-under-policy" /\ found(j).severity = severity
      BY DEF Finding
    <3>2. \E j : f = found(j)
      BY <1>3 DEF HostFindings
    <3> HIDE DEF found
    <3> QED BY <3>1, <3>2
  <2> QED BY <2>1 DEF DetectorNames
<1> QED BY <1>1, <1>2, <1>3 DEF Detect

\* IInv holds of every state of an audit.
THEOREM Invariant == Spec => []IInv
<1>1. Init => IInv
  BY DEF Init, IInv
<1>2. IInv /\ [Next]_vars => IInv'
  <2> SUFFICES ASSUME IInv, [Next]_vars PROVE IInv'
    OBVIOUS
  <2>1. CASE Load
    BY <2>1 DEF Load, IInv
  <2>2. CASE LoadFails
    BY <2>2 DEF LoadFails, IInv
  <2>3. CASE RunDetector
    <3>1. ran \in 0 .. 2 /\ ran' = ran + 1 /\ snap' = snap /\ snap \in Snapshots
      BY <2>3 DEF RunDetector, IInv
    <3>2. 1 .. ran' = (1 .. ran) \union {ran + 1}
      BY <3>1
    <3>3. findings' = UNION {Detect(i, snap) : i \in 1 .. ran'}
      BY <2>3, <3>1, <3>2 DEF RunDetector, IInv
    <3>4. pc' = IF ran' = 3 THEN "report" ELSE "detect"
      BY <2>3 DEF RunDetector
    <3>5. exit' = Running
      BY <2>3 DEF RunDetector, IInv
    <3> QED BY <3>1, <3>3, <3>4, <3>5 DEF IInv
  <2>4. CASE Report
    <3>1. /\ pc = "report" /\ pc' = "done"
          /\ snap' = snap /\ ran' = ran /\ findings' = findings
          /\ exit' = IF \E f \in findings : f.severity = "critical" THEN 1 ELSE 0
      BY <2>4 DEF Report
    <3>2. snap \in Snapshots /\ ran = 3
      BY <3>1 DEF IInv
    <3>3. exit' \in {0, 1} /\ (exit' = 0 => \A f \in findings : f.severity # "critical")
      BY <3>1
    <3>4. findings' = UNION {Detect(i, snap') : i \in 1 .. ran'}
      BY <3>1 DEF IInv
    <3> QED BY <3>1, <3>2, <3>3, <3>4 DEF IInv, Running
  <2>5. CASE UNCHANGED vars
    BY <2>5 DEF vars, IInv
  <2> QED BY <2>1, <2>2, <2>3, <2>4, <2>5 DEF Next
<1> QED BY <1>1, <1>2, PTL DEF Spec

\* After the three detectors the findings of each are there, on a snapshot of
\* the cluster's.
LEMMA AuditedFindings ==
  ASSUME IInv, Audited
  PROVE  /\ Served(snap)
         /\ \A f \in CNIFindings(snap) \union IPBlockFindings(snap) \union HostFindings(snap) :
               f \in findings
<1>1. ran = 3
  BY DEF Audited
<1>2. Served(snap)
  BY <1>1, SnapshotsAssumption DEF IInv
<1>3. \A i \in {1, 2, 3} : \A f \in Detect(i, snap) : f \in findings
  BY <1>1 DEF IInv
<1> QED BY <1>2, <1>3 DEF Detect

\* The states are of their types.
THEOREM TypeCorrect == Spec => []TypeOK
<1>1. IInv => TypeOK
  <2> SUFFICES ASSUME IInv PROVE TypeOK
    OBVIOUS
  <2>1. ran \in 0 .. 3
    BY DEF IInv
  <2>2. \A f \in findings : f.detector \in DetectorNames /\ f.severity \in {"critical", "warning"}
    BY DetectType DEF IInv
  <2> QED BY <2>1, <2>2 DEF IInv, TypeOK
<1> QED BY <1>1, Invariant, PTL

\* With one pool of pod addresses that no policy takes apart, and pods whose
\* ports are told apart by number and name, a finding about an ipBlock is a hole.
THEOREM HolesAreRealTheorem == Spec => []HolesAreReal
<1>1. IInv => HolesAreReal
  <2> SUFFICES ASSUME IInv, OnePool(snap), PlainPorts(snap), NEW f \in Of("ipblock-node-ips")
               PROVE  Hole(snap, PodOf(f), f.port)
    BY DEF HolesAreReal
  <2>1. f \in findings /\ f.detector = "ipblock-node-ips"
    BY DEF Of
  <2>2. PICK i \in 1 .. ran : f \in Detect(i, snap)
    BY <2>1 DEF IInv
  <2>3. f \in IPBlockFindings(snap)
    BY <2>1, <2>2, DetectType
  <2>4. Served(snap)
    BY <2>2, SnapshotsAssumption DEF IInv
  <2>5. PICK e \in Exposures(snap) : \E b \in AdmittingBlock(snap, e) :
          f = Finding("ipblock-node-ips", e.subject, BlockSeverity(snap, b), e.pod.id, e.port)
    BY <2>3 DEF IPBlockFindings
  <2>6. f.pod = e.pod.id /\ f.port = e.port /\ AdmittingBlock(snap, e) # {}
    BY <2>5 DEF Finding
  <2>7. e.pod \in Range(snap.pods)
    BY <2>4, ExposedPort
  <2>8. \A p \in Range(snap.pods) : p.id = f.pod => p = e.pod
    BY <2>4, <2>6, <2>7 DEF Served
  <2>9. PodOf(f) = e.pod
    BY <2>6, <2>7, <2>8 DEF PodOf
  <2>10. Hole(snap, e.pod, e.port)
    BY <2>4, <2>6, AdmittedIsHole
  <2> QED BY <2>6, <2>9, <2>10
<1> QED BY <1>1, Invariant, PTL

\* In a cluster of one family, every hole behind a NodePort or a hostPort has a
\* finding of its subject.
THEOREM HolesAreFoundTheorem == Spec => []HolesAreFound
<1>1. IInv => HolesAreFound
  <2> SUFFICES ASSUME IInv, Audited, Enforced, snap.cni.name # "cilium",
                      OneFamily(snap), PlainPorts(snap),
                      NEW x \in AtNodes(snap), x.pod.ns \notin SystemNamespaces,
                      Hole(snap, x.pod, x.port)
               PROVE  \E f \in Of("ipblock-node-ips") : f.subject = x.subject
    BY DEF HolesAreFound
  <2>1. Served(snap)
    BY AuditedFindings
  <2>2. PICK e \in Exposures(snap) : e.subject = x.subject /\ e.pod = x.pod /\ e.port = x.port
    BY <2>1, AtNodesIsExposed
  <2>3. AdmittingBlock(snap, e) # {}
    BY <2>1, <2>2, HoleIsAdmitted
  <2>4. snap.nodes # {} /\ ~Unenforced(snap)
    BY DEF Hole, Enforced
  <2>5. PICK f \in IPBlockFindings(snap) : f.detector = "ipblock-node-ips" /\ f.subject = e.subject
    BY <2>1, <2>3, <2>4, BlockIsFound
  <2>6. f \in findings
    BY <2>5, AuditedFindings
  <2> QED BY <2>2, <2>5, <2>6 DEF Of
<1> QED BY <1>1, Invariant, PTL

\* A hostNetwork pod with a TCP port closed to somebody has a finding, critical
\* under a known CNI.
LEMMA ClosedIsFound ==
  ASSUME IInv, Audited, Enforced, OneFamily(snap), NEW p \in Range(snap.pods),
         p.hostNetwork, p.ns \notin SystemNamespaces,
         NEW c \in TCPPorts(p), NEW src \in Sources(snap), ~Declared(snap, p, c.num, src)
  PROVE  \E f \in findings :
            /\ f.detector = "hostnetwork-under-policy" /\ f.subject = HostSubject(p)
            /\ snap.cni.name # "unknown" => f.severity = "critical"
<1>1. Served(snap) /\ ~Unenforced(snap)
  BY AuditedFindings DEF Enforced
<1>2. PICK j \in DOMAIN snap.pods : snap.pods[j] = p /\ Reportable(snap, j)
  BY <1>1, ClosedIsReportable
<1>3. PICK f \in HostFindings(snap) :
        /\ f.detector = "hostnetwork-under-policy" /\ f.subject = HostSubject(snap.pods[j])
        /\ snap.cni.name # "unknown" => f.severity = "critical"
  BY <1>1, <1>2, ReportableIsFound
<1>4. f \in findings
  BY <1>3, AuditedFindings
<1> QED BY <1>2, <1>3, <1>4

\* In a cluster of one family, every hostNetwork pod that its policies close to
\* somebody is found.
THEOREM HostHolesAreFoundTheorem == Spec => []HostHolesAreFound
<1>1. IInv => HostHolesAreFound
  <2> SUFFICES ASSUME IInv, Audited, Enforced, OneFamily(snap), NEW p \in Range(snap.pods),
                      p.hostNetwork, p.ns \notin SystemNamespaces,
                      NEW c \in TCPPorts(p), NEW src \in Sources(snap), ~Declared(snap, p, c.num, src)
               PROVE  \E f \in Of("hostnetwork-under-policy") : f.subject = HostSubject(p)
    BY DEF HostHolesAreFound
  <2> QED BY ClosedIsFound DEF Of
<1> QED BY <1>1, Invariant, PTL

\* Exit code 0 means that policies are enforced where there are any, and that
\* no hostNetwork pod is open to a source that its policies exclude.
THEOREM ExitZeroIsCleanTheorem == Spec => []ExitZeroIsClean
<1>1. IInv => ExitZeroIsClean
  <2> SUFFICES ASSUME IInv, exit = 0
               PROVE  /\ UserPolicies(snap) # {} => Enforced
                      /\ snap.cni.name # "unknown" /\ Enforced /\ OneFamily(snap) =>
                            \A p \in Range(snap.pods) : \A c \in TCPPorts(p) : \A src \in Sources(snap) :
                               p.hostNetwork /\ p.ns \notin SystemNamespaces => Declared(snap, p, c.num, src)
    BY DEF ExitZeroIsClean
  <2>1. Audited /\ \A f \in findings : f.severity # "critical"
    BY DEF IInv, Audited, Running
  <2>2. ASSUME UserPolicies(snap) # {}, Unenforced(snap) PROVE FALSE
    <3>1. Finding("cni", <<"cluster">>, "critical", "none", 0) \in CNIFindings(snap)
      BY <2>2 DEF CNIFindings, Unenforced
    <3>2. Finding("cni", <<"cluster">>, "critical", "none", 0).severity = "critical"
      BY DEF Finding
    <3> QED BY <2>1, <3>1, <3>2, AuditedFindings
  <2>3. ASSUME snap.cni.name # "unknown", Enforced, OneFamily(snap),
               NEW p \in Range(snap.pods), NEW c \in TCPPorts(p), NEW src \in Sources(snap),
               p.hostNetwork, p.ns \notin SystemNamespaces, ~Declared(snap, p, c.num, src)
        PROVE  FALSE
    BY <2>1, <2>3, ClosedIsFound
  <2> QED BY <2>2, <2>3 DEF Enforced
<1> QED BY <1>1, Invariant, PTL

-----------------------------------------------------------------------------
(* Indices of findings.                                                       *)

Key(f) == <<f.detector, f.subject>>

\* An index has the keys of the findings, and each severity is of some finding
\* of that key.
LEMMA Indexed ==
  ASSUME NEW found
  PROVE  /\ \A k : k \in DOMAIN Index(found) <=> \E f \in found : Key(f) = k
         /\ \A k \in DOMAIN Index(found) : \E f \in found : Key(f) = k /\ Index(found)[k] = f.severity
<1> DEFINE keys == {<<f.detector, f.subject>> : f \in found}
           first(k) == CHOOSE f \in found : <<f.detector, f.subject>> = k
<1>1. Index(found) = [k \in keys |-> first(k).severity]
  BY DEF Index
<1>2. \A k : k \in keys <=> \E f \in found : Key(f) = k
  BY DEF Key
<1>3. ASSUME NEW k \in keys PROVE first(k) \in found /\ Key(first(k)) = k
  BY <1>2 DEF Key
<1> HIDE DEF keys, first
<1>4. DOMAIN Index(found) = keys /\ \A k \in keys : Index(found)[k] = first(k).severity
  BY <1>1
<1> QED BY <1>2, <1>3, <1>4

\* After the three detectors the findings are those of the snapshot.
LEMMA AuditedIsAll ==
  ASSUME IInv, Audited
  PROVE  Served(snap) /\ findings = FindingsOf(snap)
<1>1. ran = 3
  BY DEF Audited
<1> QED BY <1>1, AuditedFindings DEF IInv, FindingsOf

\* The findings of a snapshot, by detector.
LEMMA FoundBy ==
  ASSUME NEW s, NEW f
  PROVE  f \in FindingsOf(s) <=> f \in CNIFindings(s) \/ f \in IPBlockFindings(s) \/ f \in HostFindings(s)
<1>1. 1 .. 3 = {1, 2, 3}
  OBVIOUS
<1>2. f \in FindingsOf(s) <=> \E i \in {1, 2, 3} : f \in Detect(i, s)
  BY <1>1 DEF FindingsOf
<1> QED BY <1>2 DEF Detect

\* What the detectors put into a finding.
LEMMA CNIFinding ==
  ASSUME NEW s, NEW f \in CNIFindings(s)
  PROVE  /\ f.detector = "cni" /\ f.subject = <<"cluster">>
         /\ f.severity = IF s.cni.name = "unknown" THEN "warning" ELSE "critical"
BY DEF CNIFindings, Finding

LEMMA HostFinding ==
  ASSUME NEW s, NEW f \in HostFindings(s)
  PROVE  /\ f.detector = "hostnetwork-under-policy" /\ ~Unenforced(s)
         /\ \E j \in DOMAIN s.pods : Reportable(s, j) /\ f.subject = HostSubject(s.pods[j])
         /\ f.severity = IF s.cni.name = "unknown" THEN "warning" ELSE "critical"
<1> DEFINE severity == IF s.cni.name = "unknown" THEN "warning" ELSE "critical"
           found(j) == Finding("hostnetwork-under-policy", HostSubject(s.pods[j]), severity,
                               s.pods[j].id, 0)
<1>1. \A j : /\ found(j).detector = "hostnetwork-under-policy" /\ found(j).severity = severity
             /\ found(j).subject = HostSubject(s.pods[j])
  BY DEF Finding
<1>2. ~Unenforced(s) /\ \E j \in DOMAIN s.pods : Reportable(s, j) /\ f = found(j)
  BY DEF HostFindings, Reportable
<1> HIDE DEF found
<1> QED BY <1>1, <1>2

LEMMA BlockFinding ==
  ASSUME NEW s, NEW f \in IPBlockFindings(s)
  PROVE  /\ f.detector = "ipblock-node-ips" /\ s.cni.name # "cilium" /\ ~Unenforced(s) /\ s.nodes # {}
         /\ \E e \in Exposures(s) : \E b \in AdmittingBlock(s, e) :
               f.subject = e.subject /\ f.severity = BlockSeverity(s, b)
<1> DEFINE found(x, b) == Finding("ipblock-node-ips", x.subject, BlockSeverity(s, b), x.pod.id, x.port)
<1>1. s.cni.name # "cilium" /\ ~Unenforced(s) /\ s.nodes # {}
  BY DEF IPBlockFindings
<1>2. \E e \in Exposures(s) : \E b \in AdmittingBlock(s, e) : f = found(e, b)
  BY DEF IPBlockFindings
<1>3. \A x, b : /\ found(x, b).detector = "ipblock-node-ips" /\ found(x, b).subject = x.subject
                /\ found(x, b).severity = BlockSeverity(s, b)
  BY DEF Finding
<1> HIDE DEF found
<1> QED BY <1>1, <1>2, <1>3

\* Keys are told apart by detector and subject.
LEMMA Keys ==
  ASSUME NEW f, NEW g
  PROVE  Key(f) = Key(g) <=> f.detector = g.detector /\ f.subject = g.subject
BY DEF Key

-----------------------------------------------------------------------------
(* An audit that knows less.                                                  *)

\* A snapshot with the same cluster in it, and perhaps less about its CNI.
SameCluster(s, t) ==
    /\ t.pods = s.pods /\ t.services = s.services /\ t.policies = s.policies /\ t.nodes = s.nodes
    /\ Served(t)

LEMMA LessIsServed ==
  ASSUME NEW s, Served(s)
  PROVE  /\ SameCluster(s, WithoutPodCIDRs(s)) /\ WithoutPodCIDRs(s).cni.podCIDRs = {}
         /\ WithoutPodCIDRs(s).cni.name = s.cni.name /\ WithoutPodCIDRs(s).cni.enforces = s.cni.enforces
         /\ SameCluster(s, WithoutCNI(s)) /\ WithoutCNI(s).cni.podCIDRs = s.cni.podCIDRs
         /\ WithoutCNI(s).cni.name = "unknown"
<1>1. DOMAIN s = {"pods", "services", "policies", "nodes", "cni"} /\ DOMAIN s.cni = {"name", "enforces", "podCIDRs"}
  BY DEF Served
<1> DEFINE t == WithoutPodCIDRs(s)
           u == WithoutCNI(s)
<1>2. /\ t.pods = s.pods /\ t.services = s.services /\ t.policies = s.policies /\ t.nodes = s.nodes
      /\ t.cni.podCIDRs = {} /\ t.cni.name = s.cni.name /\ t.cni.enforces = s.cni.enforces
      /\ DOMAIN t = DOMAIN s /\ DOMAIN t.cni = DOMAIN s.cni
  BY <1>1 DEF WithoutPodCIDRs
<1>3. /\ u.pods = s.pods /\ u.services = s.services /\ u.policies = s.policies /\ u.nodes = s.nodes
      /\ u.cni.podCIDRs = s.cni.podCIDRs /\ u.cni.name = "unknown"
      /\ DOMAIN u = DOMAIN s /\ DOMAIN u.cni = DOMAIN s.cni
  BY <1>1 DEF WithoutCNI
<1> HIDE DEF t, u
<1>4. Served(t)
  BY <1>2 DEF Served
<1>5. Served(u)
  BY <1>3 DEF Served
<1> QED BY <1>2, <1>3, <1>4, <1>5 DEF SameCluster, t, u

\* The exposures and the hits of a cluster do not depend on what is known of its
\* CNI, nor do its reportable pods.
LEMMA SameExposures ==
  ASSUME NEW s, NEW t, SameCluster(s, t)
  PROVE  /\ Exposures(t) = Exposures(s)
         /\ \A e : Hits(t, e) = Hits(s, e)
         /\ \A p, port, name : RulesFor(t, p, port, name) = RulesFor(s, p, port, name)
         /\ \A j : Reportable(t, j) <=> Reportable(s, j)
         /\ UserPolicies(t) = UserPolicies(s)
<1>1. t.pods = s.pods /\ t.services = s.services /\ t.policies = s.policies /\ t.nodes = s.nodes
  BY DEF SameCluster
<1>2. \A p : IngressPoliciesFor(t, p) = IngressPoliciesFor(s, p)
  BY <1>1 DEF IngressPoliciesFor
<1>3. \A p, port, name : RulesFor(t, p, port, name) = RulesFor(s, p, port, name)
  BY <1>2 DEF RulesFor
<1>4. \A e : Hits(t, e) = Hits(s, e)
  BY <1>1, <1>2 DEF Hits
<1>5. Exposures(t) = Exposures(s)
  <2>1. \A i, j : BehindNodePort(t, i, j) <=> BehindNodePort(s, i, j)
    BY <1>1 DEF BehindNodePort
  <2>2. \A i, j, x : NodePort(t, i, j, x) = NodePort(s, i, j, x)
    BY <1>1 DEF NodePort
  <2>3. \A j, i : HasHostPort(t, j, i) <=> HasHostPort(s, j, i)
    BY <1>1 DEF HasHostPort
  <2>4. \A j, i : HostPort(t, j, i) = HostPort(s, j, i)
    BY <1>1 DEF HostPort
  <2>5. \A e : e \in Exposures(t) <=> e \in Exposures(s)
    BY <1>1, <2>1, <2>2, <2>3, <2>4, ExposureKinds
  <2> QED BY <2>5
<1>6. \A p, port, name : OpenToEveryone(t, p, port, name) <=> OpenToEveryone(s, p, port, name)
  BY <1>3 DEF OpenToEveryone
<1>7. \A p : Restricted(t, p) <=> Restricted(s, p)
  BY <1>6 DEF Restricted
<1>8. \A j : Reportable(t, j) <=> Reportable(s, j)
  BY <1>1, <1>2, <1>7 DEF Reportable
<1>9. UserPolicies(t) = UserPolicies(s)
  BY <1>1 DEF UserPolicies
<1> QED BY <1>3, <1>4, <1>5, <1>8, <1>9

\* To admit pods whose CIDRs are not known takes a rule that names no CIDR.
LEMMA UnknownPodsAdmitted ==
  ASSUME NEW rules, NEW podCIDRs, PodsAdmitted(rules, {})
  PROVE  PodsAdmitted(rules, podCIDRs)
BY DEF PodsAdmitted

\* Whatever is found of a cluster is found of it with less knowledge, unless the
\* CNI is known then and was not before.
LEMMA NothingIsDropped ==
  ASSUME NEW s, NEW t, SameCluster(s, t), t.cni.podCIDRs \in {{}, s.cni.podCIDRs},
         \/ t.cni.name = s.cni.name /\ t.cni.enforces = s.cni.enforces
         \/ t.cni.name = "unknown",
         NEW f \in FindingsOf(s)
  PROVE  \E g \in FindingsOf(t) : Key(g) = Key(f)
<1>1. Unenforced(t) => Unenforced(s)
  BY DEF Unenforced
<1>2. CASE f \in CNIFindings(s)
  <2>1. CNIFindings(t) # {}
    BY <1>2, SameExposures DEF CNIFindings, Unenforced
  <2>2. PICK g \in CNIFindings(t) : TRUE
    BY <2>1
  <2> QED BY <1>2, <2>2, CNIFinding, FoundBy, Keys
<1>3. CASE f \in HostFindings(s)
  <2>1. PICK j \in DOMAIN s.pods : Reportable(s, j) /\ f.subject = HostSubject(s.pods[j])
    BY <1>3, HostFinding
  <2>2. t.pods = s.pods /\ Served(t) /\ Reportable(t, j) /\ ~Unenforced(t)
    BY <1>1, <1>3, <2>1, HostFinding, SameExposures DEF SameCluster
  <2>3. \E g \in HostFindings(t) : g.detector = "hostnetwork-under-policy" /\ g.subject = HostSubject(t.pods[j])
    BY <2>2, ReportableIsFound
  <2> QED BY <1>3, <2>1, <2>2, <2>3, HostFinding, FoundBy, Keys
<1>4. CASE f \in IPBlockFindings(s)
  <2>1. /\ f.detector = "ipblock-node-ips" /\ s.cni.name # "cilium" /\ ~Unenforced(s) /\ s.nodes # {}
        /\ \E e \in Exposures(s) : f.subject = e.subject /\ AdmittingBlock(s, e) # {}
    BY <1>4, BlockFinding
  <2>2. PICK e \in Exposures(s) : f.subject = e.subject /\ AdmittingBlock(s, e) # {}
    BY <2>1
  <2>3. AdmittingBlock(t, e) # {}
    <3>1. /\ Hits(s, e) # {}
          /\ ~PodsAdmitted(RulesFor(s, e.pod, e.port, e.name), s.cni.podCIDRs)
      BY <2>2, AdmittingBlockIs
    <3>2. ~PodsAdmitted(RulesFor(s, e.pod, e.port, e.name), t.cni.podCIDRs)
      BY <3>1, UnknownPodsAdmitted
    <3> QED BY <3>1, <3>2, SameExposures, AdmittingBlockIs
  <2>4. e \in Exposures(t) /\ Served(t) /\ t.nodes # {} /\ t.cni.name # "cilium" /\ ~Unenforced(t)
    BY <1>1, <2>1, <2>2, SameExposures DEF SameCluster
  <2>5. \E g \in IPBlockFindings(t) : g.detector = "ipblock-node-ips" /\ g.subject = e.subject
    BY <2>3, <2>4, BlockIsFound
  <2> QED BY <2>1, <2>2, <2>5, FoundBy, Keys
<1> QED BY <1>2, <1>3, <1>4, FoundBy

\* Not to know the pods' CIDRs or the CNI loses no finding and makes none more
\* severe, for any snapshot (the early returns of the three detectors).
THEOREM LessKnowledgeIsSafeTheorem == Spec => []LessKnowledgeIsSafe
<1>1. ASSUME NEW s, Served(s), NEW t, SameCluster(s, t), t.cni.podCIDRs \in {{}, s.cni.podCIDRs},
             \/ t.cni.name = s.cni.name /\ t.cni.enforces = s.cni.enforces /\ t.cni.podCIDRs = {}
             \/ t.cni.name = "unknown"
      PROVE  Dropped(Index(FindingsOf(s)), Index(FindingsOf(t)))
               \union Raised(Index(FindingsOf(s)), Index(FindingsOf(t)))
               \union AddedCritical(Index(FindingsOf(s)), Index(FindingsOf(t))) = {}
  <2> DEFINE before == Index(FindingsOf(s))
             after == Index(FindingsOf(t))
  <2>1. \A k \in DOMAIN before : k \in DOMAIN after
    <3>1. \A f \in FindingsOf(s) : \E g \in FindingsOf(t) : Key(g) = Key(f)
      BY <1>1, NothingIsDropped
    <3> QED BY <3>1, Indexed
  <2>2. ASSUME NEW g \in FindingsOf(t), g.severity = "critical"
        PROVE  /\ \E f \in FindingsOf(s) : Key(f) = Key(g)
               /\ \A f \in FindingsOf(s) : Key(f) = Key(g) => f.severity = "critical"
    <3>1. g \notin IPBlockFindings(t)
      <4>1. t.cni.podCIDRs = {} \/ t.cni.name = "unknown"
        BY <1>1
      <4>2. \A b : BlockSeverity(t, b) = "warning"
        BY <4>1 DEF BlockSeverity
      <4> QED BY <2>2, <4>2, BlockFinding
    <3>2. t.cni.name # "unknown"
      BY <2>2, <3>1, FoundBy, CNIFinding, HostFinding
    <3>3. t.cni.name = s.cni.name /\ t.cni.enforces = s.cni.enforces
      BY <1>1, <3>2
    <3>4. g.detector # "ipblock-node-ips"
      BY <3>1, FoundBy, CNIFinding, HostFinding
    <3>5. \A f \in FindingsOf(s) : Key(f) = Key(g) => f.severity = "critical"
      <4> SUFFICES ASSUME NEW f \in FindingsOf(s), Key(f) = Key(g) PROVE f.severity = "critical"
        OBVIOUS
      <4>1. f.detector = g.detector
        BY Keys
      <4>2. f \in CNIFindings(s) \/ f \in HostFindings(s)
        BY <3>4, <4>1, FoundBy, BlockFinding
      <4> QED BY <3>2, <3>3, <4>2, CNIFinding, HostFinding
    <3>6. \E f \in FindingsOf(s) : Key(f) = Key(g)
      <4>1. SameCluster(t, s)
        BY <1>1 DEF SameCluster
      <4>2. CASE g \in CNIFindings(t)
        <5>1. CNIFindings(s) # {}
          BY <3>3, <4>2, <4>1, SameExposures DEF CNIFindings
        <5>2. PICK f \in CNIFindings(s) : TRUE
          BY <5>1
        <5> QED BY <4>2, <5>2, CNIFinding, FoundBy, Keys
      <4>3. CASE g \in HostFindings(t)
        <5>1. PICK j \in DOMAIN t.pods : Reportable(t, j) /\ g.subject = HostSubject(t.pods[j])
          BY <4>3, HostFinding
        <5>2. s.pods = t.pods /\ Reportable(s, j) /\ ~Unenforced(s)
          BY <3>3, <4>1, <4>3, <5>1, HostFinding, SameExposures DEF SameCluster, Unenforced
        <5>3. \E f \in HostFindings(s) : f.detector = "hostnetwork-under-policy" /\ f.subject = HostSubject(s.pods[j])
          BY <1>1, <5>2, ReportableIsFound
        <5> QED BY <4>3, <5>1, <5>2, <5>3, HostFinding, FoundBy, Keys
      <4> QED BY <3>1, <4>2, <4>3, FoundBy
    <3> QED BY <3>5, <3>6
  <2>3. ASSUME NEW k \in DOMAIN after, after[k] = "critical"
        PROVE  k \in DOMAIN before /\ before[k] = "critical"
    <3>1. PICK g \in FindingsOf(t) : Key(g) = k /\ after[k] = g.severity
      BY Indexed
    <3>2. /\ \E f \in FindingsOf(s) : Key(f) = k
          /\ \A f \in FindingsOf(s) : Key(f) = k => f.severity = "critical"
      BY <2>2, <2>3, <3>1
    <3>3. k \in DOMAIN before
      BY <3>2, Indexed
    <3>4. PICK f \in FindingsOf(s) : Key(f) = k /\ before[k] = f.severity
      BY <3>3, Indexed
    <3> QED BY <3>2, <3>3, <3>4
  <2> HIDE DEF before, after
  <2>4. Dropped(before, after) = {} /\ Raised(before, after) = {} /\ AddedCritical(before, after) = {}
    BY <2>1, <2>3 DEF Dropped, Raised, AddedCritical
  <2> QED BY <2>4 DEF before, after
<1>2. IInv => LessKnowledgeIsSafe
  <2> SUFFICES ASSUME IInv, Audited, NEW t \in {WithoutPodCIDRs(snap), WithoutCNI(snap)}
               PROVE  Dropped(Index(findings), Index(FindingsOf(t)))
                        \union Raised(Index(findings), Index(FindingsOf(t)))
                        \union AddedCritical(Index(findings), Index(FindingsOf(t))) = {}
    BY DEF LessKnowledgeIsSafe
  <2>1. Served(snap) /\ findings = FindingsOf(snap)
    BY AuditedIsAll
  <2>2. /\ SameCluster(snap, t) /\ t.cni.podCIDRs \in {{}, snap.cni.podCIDRs}
        /\ \/ t.cni.name = snap.cni.name /\ t.cni.enforces = snap.cni.enforces /\ t.cni.podCIDRs = {}
           \/ t.cni.name = "unknown"
    BY <2>1, LessIsServed
  <2> QED BY <1>1, <2>1, <2>2
<1> QED BY <1>2, Invariant, PTL

-----------------------------------------------------------------------------
(* Two servers that list one cluster in different orders.                     *)

OtherOrder(s, t) ==
    /\ Served(s) /\ Served(t) /\ t.nodes = s.nodes /\ t.cni = s.cni
    /\ Range(t.pods) = Range(s.pods) /\ Range(t.services) = Range(s.services)
    /\ Range(t.policies) = Range(s.policies)

BlockAt(s, h) == s.policies[h[1]].rules[h[2]].from[h[3]].block

IsAtHit(s, e, b) == \E h \in Hits(s, e) : b = BlockAt(s, h)

\* Some rule for the port has the block, and it admits a node.
LetsNodesIn(s, e, b) ==
    \E np \in IngressPoliciesFor(s, e.pod) : \E r \in Range(np.rules) :
       /\ PortMatches(r.ports, e.port, e.name)
       /\ \E peer \in Range(r.from) :
             peer.kind = "block" /\ AdmitsAny(peer.block, s.nodes) /\ b = peer.block

\* The blocks at the hits are those that let nodes in by some rule for the port.
LEMMA BlocksAre ==
  ASSUME NEW s, NEW e, NEW b
  PROVE  IsAtHit(s, e, b) <=> LetsNodesIn(s, e, b)
<1> DEFINE At(i, k, m) ==
              LET r == s.policies[i].rules[k]
              IN  /\ s.policies[i] \in IngressPoliciesFor(s, e.pod)
                  /\ PortMatches(r.ports, e.port, e.name)
                  /\ r.from[m].kind = "block" /\ AdmitsAny(r.from[m].block, s.nodes)
           peers == UNION {UNION {{<<i, k, m>> : m \in DOMAIN s.policies[i].rules[k].from} :
                                  k \in DOMAIN s.policies[i].rules} : i \in DOMAIN s.policies}
<1>1. \A h : h \in peers <=>
        \E i \in DOMAIN s.policies : \E k \in DOMAIN s.policies[i].rules :
           \E m \in DOMAIN s.policies[i].rules[k].from : h = <<i, k, m>>
  OBVIOUS
<1>2. \A h : h \in Hits(s, e) <=> h \in peers /\ At(h[1], h[2], h[3])
  BY DEF Hits
<1>3. \A l : \A x : x \in Range(l) <=> \E i \in DOMAIN l : x = l[i]
  BY DEF Range
<1>4. ASSUME NEW h \in Hits(s, e), b = BlockAt(s, h)
      PROVE  \E np \in IngressPoliciesFor(s, e.pod) : \E r \in Range(np.rules) :
               /\ PortMatches(r.ports, e.port, e.name)
               /\ \E peer \in Range(r.from) :
                     peer.kind = "block" /\ AdmitsAny(peer.block, s.nodes) /\ b = peer.block
  <2> HIDE DEF peers, At
  <2>1. PICK i \in DOMAIN s.policies : \E k \in DOMAIN s.policies[i].rules :
           \E m \in DOMAIN s.policies[i].rules[k].from : h = <<i, k, m>>
    BY <1>1, <1>2
  <2>2. PICK k \in DOMAIN s.policies[i].rules :
           \E m \in DOMAIN s.policies[i].rules[k].from : h = <<i, k, m>>
    BY <2>1
  <2>3. PICK m \in DOMAIN s.policies[i].rules[k].from : h = <<i, k, m>>
    BY <2>2
  <2>4. At(i, k, m) /\ b = s.policies[i].rules[k].from[m].block
    BY <1>2, <1>4, <2>3 DEF BlockAt
  <2> USE DEF At
  <2>5. s.policies[i].rules[k] \in Range(s.policies[i].rules)
        /\ s.policies[i].rules[k].from[m] \in Range(s.policies[i].rules[k].from)
    BY <1>3
  <2> QED BY <2>4, <2>5
<1>5. ASSUME NEW np \in IngressPoliciesFor(s, e.pod), NEW r \in Range(np.rules),
             PortMatches(r.ports, e.port, e.name), NEW peer \in Range(r.from),
             peer.kind = "block", AdmitsAny(peer.block, s.nodes), b = peer.block
      PROVE  \E h \in Hits(s, e) : b = BlockAt(s, h)
  <2>1. PICK i \in DOMAIN s.policies : np = s.policies[i]
    BY DEF IngressPoliciesFor, Range
  <2>2. PICK k \in DOMAIN s.policies[i].rules : r = s.policies[i].rules[k]
    BY <1>3, <2>1
  <2>3. PICK m \in DOMAIN s.policies[i].rules[k].from : peer = s.policies[i].rules[k].from[m]
    BY <1>3, <2>2
  <2>4. At(i, k, m)
    BY <1>5, <2>1, <2>2, <2>3
  <2> HIDE DEF At, peers
  <2>5. <<i, k, m>> \in peers
    BY <1>1
  <2>6. <<i, k, m>> \in Hits(s, e)
    BY <1>2, <2>4, <2>5
  <2>7. b = BlockAt(s, <<i, k, m>>)
    BY <1>5, <2>1, <2>2, <2>3 DEF BlockAt
  <2> QED BY <2>6, <2>7
<1> HIDE DEF At, peers
<1> QED BY <1>4, <1>5 DEF IsAtHit, LetsNodesIn

\* The block that a finding is about is at one of the hits.
LEMMA AdmittingIsAtHit ==
  ASSUME NEW s, Served(s), NEW e, NEW b \in AdmittingBlock(s, e)
  PROVE  IsAtHit(s, e, b)
<1> DEFINE h == CHOOSE h \in Hits(s, e) : \A g \in Hits(s, e) : ~Before(g, h)
<1>1. Hits(s, e) # {} /\ b = BlockAt(s, h)
  BY DEF AdmittingBlock, BlockAt
<1>2. Hits(s, e) \in SUBSET (Nat \X Nat \X Nat)
  <2>1. \A l : l \in Seq(Range(l)) => DOMAIN l \subseteq Nat /\ \A i \in DOMAIN l : l[i] \in Range(l)
    OBVIOUS
  <2>2. DOMAIN s.policies \subseteq Nat /\ \A i \in DOMAIN s.policies : s.policies[i] \in Range(s.policies)
    BY <2>1 DEF Served
  <2>3. \A i \in DOMAIN s.policies : \A k \in DOMAIN s.policies[i].rules :
           k \in Nat /\ s.policies[i].rules[k] \in Range(s.policies[i].rules)
    BY <2>1, <2>2 DEF Served
  <2>4. \A i \in DOMAIN s.policies : \A k \in DOMAIN s.policies[i].rules :
           \A m \in DOMAIN s.policies[i].rules[k].from : m \in Nat
    BY <2>1, <2>2, <2>3 DEF Served
  <2>5. \A g \in Hits(s, e) : \E i \in DOMAIN s.policies : \E k \in DOMAIN s.policies[i].rules :
           \E m \in DOMAIN s.policies[i].rules[k].from : g = <<i, k, m>>
    <3> DEFINE peers == UNION {UNION {{<<i, k, m>> : m \in DOMAIN s.policies[i].rules[k].from} :
                                  k \in DOMAIN s.policies[i].rules} : i \in DOMAIN s.policies}
    <3>1. \A g \in peers : \E i \in DOMAIN s.policies : \E k \in DOMAIN s.policies[i].rules :
             \E m \in DOMAIN s.policies[i].rules[k].from : g = <<i, k, m>>
      OBVIOUS
    <3>2. \A g \in Hits(s, e) : g \in peers
      BY DEF Hits
    <3> HIDE DEF peers
    <3> QED BY <3>1, <3>2
  <2>6. ASSUME NEW g \in Hits(s, e) PROVE g \in Nat \X Nat \X Nat
    <3>1. PICK i \in DOMAIN s.policies : \E k \in DOMAIN s.policies[i].rules :
             \E m \in DOMAIN s.policies[i].rules[k].from : g = <<i, k, m>>
      BY <2>5
    <3>2. PICK k \in DOMAIN s.policies[i].rules :
             \E m \in DOMAIN s.policies[i].rules[k].from : g = <<i, k, m>>
      BY <3>1
    <3>3. PICK m \in DOMAIN s.policies[i].rules[k].from : g = <<i, k, m>>
      BY <3>2
    <3> QED BY <2>2, <2>3, <2>4, <3>3
  <2> QED BY <2>6
<1>3. \E g \in Hits(s, e) : \A x \in Hits(s, e) : ~Before(x, g)
  BY <1>1, <1>2, FirstPosition
<1>4. h \in Hits(s, e)
  BY <1>3
<1> QED BY <1>1, <1>4 DEF IsAtHit

\* What is exposed in one order is exposed in the other.
LEMMA ExposedInAnyOrder ==
  ASSUME NEW s, NEW t, OtherOrder(s, t), NEW e \in Exposures(s)
  PROVE  \E x \in Exposures(t) :
            x.subject = e.subject /\ x.pod = e.pod /\ x.port = e.port /\ x.name = e.name
<1>1. \A j \in DOMAIN s.pods : \E k \in DOMAIN t.pods : t.pods[k] = s.pods[j]
  BY DEF OtherOrder, Range
<1>2. \A i \in DOMAIN s.services : \E k \in DOMAIN t.services : t.services[k] = s.services[i]
  BY DEF OtherOrder, Range
<1>3. ASSUME NEW i \in DOMAIN s.services, NEW j \in DOMAIN s.pods,
             NEW target \in ResolveTargetPort(s.pods[j], s.services[i]),
             BehindNodePort(s, i, j), e = NodePort(s, i, j, target)
      PROVE  \E x \in Exposures(t) :
                x.subject = e.subject /\ x.pod = e.pod /\ x.port = e.port /\ x.name = e.name
  <2>1. PICK k \in DOMAIN t.services : t.services[k] = s.services[i]
    BY <1>2
  <2>2. PICK l \in DOMAIN t.pods : t.pods[l] = s.pods[j]
    BY <1>1
  <2>3. BehindNodePort(t, k, l) /\ target \in ResolveTargetPort(t.pods[l], t.services[k])
    BY <1>3, <2>1, <2>2 DEF BehindNodePort
  <2>4. NodePort(t, k, l, target) \in Exposures(t)
    BY <2>3, ExposureKinds
  <2>5. /\ NodePort(t, k, l, target).subject = e.subject /\ NodePort(t, k, l, target).pod = e.pod
        /\ NodePort(t, k, l, target).port = e.port /\ NodePort(t, k, l, target).name = e.name
    BY <1>3, <2>1, <2>2 DEF NodePort
  <2> QED BY <2>4, <2>5
<1>4. ASSUME NEW j \in DOMAIN s.pods, NEW i \in DOMAIN s.pods[j].ports,
             HasHostPort(s, j, i), e = HostPort(s, j, i)
      PROVE  \E x \in Exposures(t) :
                x.subject = e.subject /\ x.pod = e.pod /\ x.port = e.port /\ x.name = e.name
  <2>1. PICK l \in DOMAIN t.pods : t.pods[l] = s.pods[j]
    BY <1>1
  <2>2. HasHostPort(t, l, i) /\ i \in DOMAIN t.pods[l].ports
    BY <1>4, <2>1 DEF HasHostPort
  <2>3. HostPort(t, l, i) \in Exposures(t)
    BY <2>2, ExposureKinds
  <2>4. /\ HostPort(t, l, i).subject = e.subject /\ HostPort(t, l, i).pod = e.pod
        /\ HostPort(t, l, i).port = e.port /\ HostPort(t, l, i).name = e.name
    BY <1>4, <2>1 DEF HostPort
  <2> QED BY <2>3, <2>4
<1> QED BY <1>3, <1>4, ExposureKinds

\* The policies and rules for a pod do not depend on the order, nor do the blocks
\* that let nodes in and whether a port has one.
LEMMA RulesInAnyOrder ==
  ASSUME NEW s, NEW t, OtherOrder(s, t)
  PROVE  /\ \A p : IngressPoliciesFor(t, p) = IngressPoliciesFor(s, p)
         /\ \A p, port, name : RulesFor(t, p, port, name) = RulesFor(s, p, port, name)
         /\ \A p : Restricted(t, p) <=> Restricted(s, p)
<1>1. \A p : IngressPoliciesFor(t, p) = IngressPoliciesFor(s, p)
  BY DEF IngressPoliciesFor, OtherOrder
<1>2. \A p, port, name : RulesFor(t, p, port, name) = RulesFor(s, p, port, name)
  BY <1>1 DEF RulesFor
<1>3. \A p, port, name : OpenToEveryone(t, p, port, name) <=> OpenToEveryone(s, p, port, name)
  BY <1>2 DEF OpenToEveryone
<1>4. \A p : Restricted(t, p) <=> Restricted(s, p)
  BY <1>3 DEF Restricted
<1> QED BY <1>1, <1>2, <1>4

LEMMA BlocksInAnyOrder ==
  ASSUME NEW s, NEW t, OtherOrder(s, t), NEW e, NEW x,
         x.pod = e.pod, x.port = e.port, x.name = e.name
  PROVE  /\ \A b : IsAtHit(t, x, b) <=> IsAtHit(s, e, b)
         /\ AdmittingBlock(t, x) # {} <=> AdmittingBlock(s, e) # {}
<1>1. t.nodes = s.nodes /\ t.cni = s.cni
  BY DEF OtherOrder
<1>2. ASSUME NEW b PROVE IsAtHit(t, x, b) <=> IsAtHit(s, e, b)
  <2>1. IngressPoliciesFor(t, x.pod) = IngressPoliciesFor(s, e.pod)
    BY RulesInAnyOrder
  <2>2. LetsNodesIn(t, x, b) <=> LetsNodesIn(s, e, b)
    BY <1>1, <2>1 DEF LetsNodesIn
  <2> QED BY <2>2, BlocksAre
<1>3. (\E b : IsAtHit(t, x, b)) <=> Hits(t, x) # {}
  BY DEF IsAtHit
<1>4. (\E b : IsAtHit(s, e, b)) <=> Hits(s, e) # {}
  BY DEF IsAtHit
<1>5. Hits(t, x) # {} <=> Hits(s, e) # {}
  BY <1>2, <1>3, <1>4
<1>6. RulesFor(t, x.pod, x.port, x.name) = RulesFor(s, e.pod, e.port, e.name)
  BY RulesInAnyOrder
<1> QED BY <1>1, <1>2, <1>5, <1>6, AdmittingBlockIs

\* What is found in one order is found in the other.
LEMMA FoundInAnyOrder ==
  ASSUME NEW s, NEW t, OtherOrder(s, t), NEW f \in FindingsOf(s)
  PROVE  \E g \in FindingsOf(t) : Key(g) = Key(f)
<1>1. /\ t.cni = s.cni /\ t.nodes = s.nodes /\ Served(t) /\ (Unenforced(t) <=> Unenforced(s))
      /\ UserPolicies(t) = UserPolicies(s)
  BY DEF OtherOrder, Unenforced, UserPolicies
<1>2. CASE f \in CNIFindings(s)
  <2>1. f \in CNIFindings(t)
    BY <1>1, <1>2 DEF CNIFindings
  <2> QED BY <2>1, FoundBy
<1>3. CASE f \in HostFindings(s)
  <2>1. PICK j \in DOMAIN s.pods : Reportable(s, j) /\ f.subject = HostSubject(s.pods[j])
    BY <1>3, HostFinding
  <2>2. PICK k \in DOMAIN t.pods : t.pods[k] = s.pods[j]
    BY DEF OtherOrder, Range
  <2>3. Reportable(t, k) /\ ~Unenforced(t)
    BY <1>1, <1>3, <2>1, <2>2, HostFinding, RulesInAnyOrder DEF Reportable
  <2>4. \E g \in HostFindings(t) : g.detector = "hostnetwork-under-policy" /\ g.subject = HostSubject(t.pods[k])
    BY <1>1, <2>3, ReportableIsFound
  <2> QED BY <1>3, <2>1, <2>2, <2>4, HostFinding, FoundBy, Keys
<1>4. CASE f \in IPBlockFindings(s)
  <2>1. /\ f.detector = "ipblock-node-ips" /\ s.cni.name # "cilium" /\ ~Unenforced(s) /\ s.nodes # {}
        /\ \E e \in Exposures(s) : f.subject = e.subject /\ AdmittingBlock(s, e) # {}
    BY <1>4, BlockFinding
  <2>2. PICK e \in Exposures(s) : f.subject = e.subject /\ AdmittingBlock(s, e) # {}
    BY <2>1
  <2>3. PICK x \in Exposures(t) :
           x.subject = e.subject /\ x.pod = e.pod /\ x.port = e.port /\ x.name = e.name
    BY ExposedInAnyOrder
  <2>4. AdmittingBlock(t, x) # {}
    BY <2>2, <2>3, BlocksInAnyOrder
  <2>5. \E g \in IPBlockFindings(t) : g.detector = "ipblock-node-ips" /\ g.subject = x.subject
    BY <1>1, <2>1, <2>4, BlockIsFound
  <2> QED BY <2>1, <2>2, <2>3, <2>5, FoundBy, Keys
<1> QED BY <1>2, <1>3, <1>4, FoundBy

BlocksOf(s, subject) ==
  UNION {{BlockAt(s, h) : h \in Hits(s, e)} : e \in {x \in Exposures(s) : x.subject = subject}}

\* The severity of a finding comes from a block that the subject has in any order.
LEMMA SeverityInAnyOrder ==
  ASSUME NEW s, NEW t, OtherOrder(s, t), NEW f \in IPBlockFindings(t)
  PROVE  \E b \in BlocksOf(s, f.subject) : f.severity = BlockSeverity(s, b)
<1>1. OtherOrder(t, s)
  BY DEF OtherOrder
<1>2. PICK x \in Exposures(t) : \E b \in AdmittingBlock(t, x) :
         f.subject = x.subject /\ f.severity = BlockSeverity(t, b)
  BY BlockFinding
<1>3. PICK b \in AdmittingBlock(t, x) : f.subject = x.subject /\ f.severity = BlockSeverity(t, b)
  BY <1>2
<1>4. PICK e \in Exposures(s) :
         e.subject = x.subject /\ e.pod = x.pod /\ e.port = x.port /\ e.name = x.name
  BY <1>1, ExposedInAnyOrder
<1>5. Served(t)
  BY DEF OtherOrder
<1>6. IsAtHit(t, x, b)
  BY <1>5, AdmittingIsAtHit
<1>7. IsAtHit(s, e, b)
  BY <1>1, <1>4, <1>6, BlocksInAnyOrder
<1>8. b \in BlocksOf(s, f.subject)
  <2>1. b \in {BlockAt(s, h) : h \in Hits(s, e)}
    BY <1>7 DEF IsAtHit
  <2>2. e \in {y \in Exposures(s) : y.subject = f.subject}
    BY <1>3, <1>4
  <2> QED BY <2>1, <2>2 DEF BlocksOf
<1>9. BlockSeverity(t, b) = BlockSeverity(s, b)
  BY DEF BlockSeverity, OtherOrder
<1> QED BY <1>3, <1>8, <1>9

\* Two findings of one subject are as severe, or the subject has blocks of both kinds.
LEMMA OneSeverity ==
  ASSUME NEW s, NEW t, OtherOrder(s, t), NEW f \in FindingsOf(s), NEW g \in FindingsOf(t),
         Key(f) = Key(g)
  PROVE  f.severity = g.severity \/ OfBothKinds(s, Key(f)[2])
<1>1. f.detector = g.detector /\ f.subject = g.subject /\ Key(f)[2] = f.subject
  BY Keys DEF Key
<1>2. CASE f.detector # "ipblock-node-ips"
  <2>1. /\ f \in CNIFindings(s) \/ f \in HostFindings(s)
        /\ g \in CNIFindings(t) \/ g \in HostFindings(t)
    BY <1>1, <1>2, FoundBy, BlockFinding
  <2>2. t.cni = s.cni
    BY DEF OtherOrder
  <2> QED BY <2>1, <2>2, CNIFinding, HostFinding
<1>3. CASE f.detector = "ipblock-node-ips"
  <2>1. f \in IPBlockFindings(s) /\ g \in IPBlockFindings(t)
    BY <1>1, <1>3, FoundBy, CNIFinding, HostFinding
  <2>2. OtherOrder(s, s)
    BY DEF OtherOrder
  <2>3. PICK b \in BlocksOf(s, f.subject) : f.severity = BlockSeverity(s, b)
    BY <2>1, <2>2, SeverityInAnyOrder
  <2>4. PICK c \in BlocksOf(s, f.subject) : g.severity = BlockSeverity(s, c)
    BY <1>1, <2>1, SeverityInAnyOrder
  <2>5. (InternetWide(b) <=> InternetWide(c)) => BlockSeverity(s, b) = BlockSeverity(s, c)
    BY DEF BlockSeverity
  <2>6. ~(InternetWide(b) <=> InternetWide(c)) => OfBothKinds(s, f.subject)
    BY DEF OfBothKinds, BlocksOf, BlockAt
  <2> QED BY <1>1, <2>3, <2>4, <2>5, <2>6
<1> QED BY <1>2, <1>3

Backwards(q) == [i \in DOMAIN q |-> q[Len(q) + 1 - i]]

LEMMA BackwardsIsListing ==
  ASSUME NEW q, q \in Seq(Range(q))
  PROVE  Range(Backwards(q)) = Range(q) /\ Backwards(q) \in Seq(Range(Backwards(q)))
<1>1. DOMAIN q = 1 .. Len(q) /\ Len(q) \in Nat
  OBVIOUS
<1>2. /\ DOMAIN Backwards(q) = 1 .. Len(q)
      /\ \A i \in 1 .. Len(q) : Len(q) + 1 - i \in 1 .. Len(q) /\ Backwards(q)[i] = q[Len(q) + 1 - i]
  BY <1>1 DEF Backwards
<1>3. /\ Range(Backwards(q)) = {Backwards(q)[i] : i \in 1 .. Len(q)}
      /\ Range(q) = {q[i] : i \in 1 .. Len(q)}
  BY <1>1, <1>2 DEF Range
<1>4. \A i \in 1 .. Len(q) : \E j \in 1 .. Len(q) : q[i] = Backwards(q)[j]
  <2> SUFFICES ASSUME NEW i \in 1 .. Len(q) PROVE \E j \in 1 .. Len(q) : q[i] = Backwards(q)[j]
    OBVIOUS
  <2>1. Len(q) + 1 - i \in 1 .. Len(q) /\ Len(q) + 1 - (Len(q) + 1 - i) = i
    BY <1>1
  <2> QED BY <1>2, <2>1
<1>5. Range(Backwards(q)) = Range(q)
  BY <1>2, <1>3, <1>4
<1>6. Backwards(q) \in Seq(Range(q))
  BY <1>1, <1>2, <1>3 DEF Backwards
<1> QED BY <1>5, <1>6

LEMMA ReversedIsOtherOrder ==
  ASSUME NEW s, Served(s)
  PROVE  OtherOrder(s, Reversed(s))
<1> DEFINE t == Reversed(s)
<1>1. DOMAIN s = {"pods", "services", "policies", "nodes", "cni"}
  BY DEF Served
<1>2. /\ t.pods = Backwards(s.pods) /\ t.services = Backwards(s.services)
      /\ t.policies = Backwards(s.policies) /\ t.nodes = s.nodes /\ t.cni = s.cni
      /\ DOMAIN t = DOMAIN s
  BY <1>1 DEF Reversed, Backwards
<1> HIDE DEF t
<1>3. \A list \in {s.pods, s.services, s.policies} :
        Range(Backwards(list)) = Range(list) /\ Backwards(list) \in Seq(Range(Backwards(list)))
  BY BackwardsIsListing DEF Served
<1>4. /\ Range(t.pods) = Range(s.pods) /\ Range(t.services) = Range(s.services)
      /\ Range(t.policies) = Range(s.policies)
      /\ \A list \in {t.pods, t.services, t.policies} : list \in Seq(Range(list))
  BY <1>2, <1>3
<1>5. Served(t)
  BY <1>2, <1>4 DEF Served
<1> QED BY <1>2, <1>4, <1>5 DEF OtherOrder, t

\* The order in which the API lists policies, Services and pods does not decide
\* what is found, nor how severe it is, but for a subject that blocks of both
\* kinds let the nodes into, for any snapshot (first block, first pod).
THEOREM OrderDoesNotDecideTheorem == Spec => []OrderDoesNotDecide
<1>1. ASSUME IInv, Audited
      PROVE  LET here  == Index(findings)
                 there == Index(FindingsOf(Reversed(snap)))
             IN  /\ DOMAIN here = DOMAIN there
                 /\ \A k \in DOMAIN here : here[k] = there[k] \/ OfBothKinds(snap, k[2])
  <2> DEFINE turned == Reversed(snap)
             here == Index(findings)
             there == Index(FindingsOf(turned))
  <2>1. Served(snap) /\ findings = FindingsOf(snap)
    BY <1>1, AuditedIsAll
  <2>2. OtherOrder(snap, turned) /\ OtherOrder(turned, snap)
    <3>1. OtherOrder(snap, turned)
      BY <2>1, ReversedIsOtherOrder
    <3> QED BY <3>1 DEF OtherOrder
  <2> HIDE DEF turned
  <2>3. DOMAIN here = DOMAIN there
    <3>1. \A k : k \in DOMAIN here <=> \E f \in FindingsOf(snap) : Key(f) = k
      BY <2>1, Indexed
    <3>2. \A k : k \in DOMAIN there <=> \E g \in FindingsOf(turned) : Key(g) = k
      BY Indexed
    <3>3. \A k : k \in DOMAIN here <=> k \in DOMAIN there
      BY <2>2, <3>1, <3>2, FoundInAnyOrder
    <3> QED BY <3>3
  <2>4. ASSUME NEW k \in DOMAIN here PROVE here[k] = there[k] \/ OfBothKinds(snap, k[2])
    <3>1. PICK f \in FindingsOf(snap) : Key(f) = k /\ here[k] = f.severity
      BY <2>1, Indexed
    <3>2. PICK g \in FindingsOf(turned) : Key(g) = k /\ there[k] = g.severity
      BY <2>3, Indexed
    <3> QED BY <2>2, <3>1, <3>2, OneSeverity
  <2> HIDE DEF here, there
  <2>5. DOMAIN here = DOMAIN there /\ \A k \in DOMAIN here : here[k] = there[k] \/ OfBothKinds(snap, k[2])
    BY <2>3, <2>4
  <2> QED BY <2>5 DEF here, there, turned
<1>2. IInv => OrderDoesNotDecide
  BY <1>1 DEF OrderDoesNotDecide
<1> QED BY <1>2, Invariant, PTL
=============================================================================
