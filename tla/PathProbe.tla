------------------------------ MODULE PathProbe ------------------------------
(***************************************************************************)
(* One (source, target) pair through a whole measurement: the connect      *)
(* attempts with the policies in place, the same attempts as baseline, and *)
(* the verdict (script and dial in hack/oracle/prober.go, collect and the  *)
(* classify loop in hack/oracle/main.go).                                  *)
(*                                                                         *)
(* The network is the adversary: it picks the backend of every connection  *)
(* (kube-proxy), may lose MaxLost connects of an attempt, and treats each  *)
(* backend as `path` says.  A connect that is lost is one whose SYN and    *)
(* its retransmissions all went missing within the timeout.                *)
(***************************************************************************)
EXTENDS Reachability, Sequences

CONSTANTS
  Backends,         \* pods that may serve a target
  ServiceAttempts,  \* --service-attempts
  MaxLost           \* connects of one attempt the network may lose

ASSUME AttemptsAssumption == ServiceAttempts \in Nat \ {0}
ASSUME MaxLostAssumption  == MaxLost \in Nat

VARIABLES
  path,     \* the pair and how the network treats it; never changes
  phase,    \* "effective", then "baseline", "classify", "judged"
  raw,      \* phase -> outcomes of its attempts so far, as collect reads them
  try,      \* connects the current attempt has already made: 0 or 1
  lost,     \* of those, how many the network lost
  touched,  \* effective attempts of which a packet reached a backend pod
  blocked,  \* effective attempts of which the CNI stopped a packet
  result    \* what the probe's record says; NoResult before

vars == <<path, phase, raw, try, lost, touched, blocked, result>>

NoResult == [verdict |-> "none", hits |-> {}]

Attempts(kind) == IF kind \in ServiceKinds THEN 1..ServiceAttempts ELSE 1..1

(* The pairs the oracle may probe.  exec: the script runs in a pod or in   *)
(* the external container; otherwise the oracle host dials itself, which   *)
(* only "external" does, and only to addresses of a node (applicable).     *)
(* drop, reject: backends the CNI keeps this source from; closed, dead:    *)
(* backends on which nothing listens or to which there is no route.        *)
(* ~mapped: no DNAT rule for the port, the node answers with a RST.        *)
Paths ==
  {p \in [kind : TargetKinds, exec : BOOLEAN, mapped : BOOLEAN,
          backends : SUBSET Backends, denies : SUBSET Backends,
          drop : SUBSET Backends, reject : SUBSET Backends,
          closed : SUBSET Backends, dead : SUBSET Backends,
          basis : {"policy", "spec-exception", "mixed-path"}] :
     /\ p.kind \in ServiceKinds \/ \E b \in Backends : p.backends = {b}
     /\ p.exec \/ p.kind \in NodeAddressed \cup {"hostnetwork"}
     /\ p.mapped \/ p.kind \in NodeAddressed
     /\ p.drop \cap p.reject = {}
     /\ UNION {p.denies, p.drop, p.reject, p.closed, p.dead} \subseteq p.backends}

Init ==
  /\ path \in Paths
  /\ phase = "effective"
  /\ raw = [effective |-> <<>>, baseline |-> <<>>]
  /\ try = 0 /\ lost = 0
  /\ touched = {} /\ blocked = {}
  /\ result = NoResult

-----------------------------------------------------------------------------
Now == Len(raw[phase]) + 1      \* the attempt being made

Stopped(b) == phase = "effective" /\ b \in path.drop \cup path.reject

(* What a connection meets that kube-proxy sends to backend b.             *)
AtBackend(b) ==
  IF b \in path.dead THEN "timeout"
  ELSE IF Stopped(b) THEN IF b \in path.drop THEN "timeout" ELSE "refused"
  ELSE IF b \in path.closed THEN "refused" ELSE "open"

(* Mutant of Retried: a script does not repeat a connect either.           *)
NeverRetried(o) == FALSE

(* A connect that times out is made once more when a script makes it, and  *)
(* not when the oracle host dials.                                         *)
Retried(o) == o = "timeout" /\ path.exec /\ try = 0

(* Mutant of PhaseAfter: one attempt too many.                             *)
PhaseAfterLate ==
  IF Now \in Attempts(path.kind) THEN phase
  ELSE IF phase = "effective" THEN "baseline" ELSE "classify"

(* Where the plan goes on after attempt Now.                               *)
PhaseAfter ==
  IF Now + 1 \in Attempts(path.kind) THEN phase
  ELSE IF phase = "effective" THEN "baseline" ELSE "classify"

(* The word agnhost prints for an outcome.                                 *)
agnhost == [o \in RawOutcomes |->
              IF o = "open" THEN "OPEN" ELSE IF o = "refused" THEN "REFUSED"
              ELSE IF o = "timeout" THEN "TIMEOUT" ELSE "OTHER"]

(* What a connect that ended with outcome o leaves in the results: of a    *)
(* script agnhost's word, of dial a constant Effective*, in lower case.    *)
Said(o) == IF path.exec THEN agnhost[o] ELSE o

(* classifyOutput knows the words of agnhost and no others.                *)
classifyOutput(word) ==
  IF word = "OPEN" THEN "open" ELSE IF word = "REFUSED" THEN "refused"
  ELSE IF word = "TIMEOUT" THEN "timeout" ELSE "error"

(* What collect makes of it.                                               *)
Outcome(o) == classifyOutput(Said(o))

(* A connect ends with outcome o: it is made again, or it is an attempt.   *)
Settle(o) ==
  IF Retried(o)
    THEN /\ try' = 1
         /\ UNCHANGED <<raw, phase>>
    ELSE /\ raw' = [raw EXCEPT ![phase] = Append(@, Outcome(o))]
         /\ phase' = PhaseAfter
         /\ try' = 0

Probing == phase \in {"effective", "baseline"}

(* A connect that kube-proxy hands to backend b.                           *)
Connect(b) ==
  /\ Probing /\ path.mapped /\ b \in path.backends
  /\ Settle(AtBackend(b))
  /\ touched' = IF phase = "effective" /\ b \notin path.dead /\ ~Stopped(b)
                  THEN touched \cup {Now} ELSE touched
  /\ blocked' = IF b \notin path.dead /\ Stopped(b) THEN blocked \cup {Now} ELSE blocked
  /\ lost' = IF try' = 0 THEN 0 ELSE lost
  /\ UNCHANGED <<path, result>>

(* Nothing behind the address: the node has no DNAT rule for the port, or  *)
(* kube-proxy rejects for a Service without endpoints.                     *)
ConnectNowhere ==
  /\ Probing /\ (~path.mapped \/ path.backends = {})
  /\ Settle("refused")
  /\ lost' = 0
  /\ UNCHANGED <<path, touched, blocked, result>>

(* The network loses the connect.                                          *)
LoseConnect ==
  /\ Probing /\ lost < MaxLost
  /\ Settle("timeout")
  /\ lost' = IF try' = 0 THEN 0 ELSE lost + 1
  /\ UNCHANGED <<path, touched, blocked, result>>

(* The connect ends without saying OPEN, REFUSED or TIMEOUT: killed for    *)
(* the pod's memory limit (its line is empty then), or an ICMP error.      *)
ConnectErrs ==
  /\ Probing
  /\ Settle("error")
  /\ lost' = 0
  /\ UNCHANGED <<path, touched, blocked, result>>

(* The record of the pair, from both phases (main.go, run's last loop).    *)
ClassifyPair ==
  /\ phase = "classify"
  /\ phase' = "judged"
  /\ LET declared == DeclaredFor({IF b \in path.denies THEN "deny" ELSE "allow" :
                                    b \in path.backends})
         eff  == CollectBest(path.kind, raw.effective)
         base == CollectBest(path.kind, raw.baseline)
     IN  result' = [verdict |-> Classify(declared, path.basis, eff, base),
                    hits    |-> CollectHits(path.kind, raw.effective, raw.baseline)]
  /\ UNCHANGED <<path, raw, try, lost, touched, blocked>>

Next ==
  \/ \E b \in Backends : Connect(b)
  \/ ConnectNowhere
  \/ LoseConnect
  \/ ConnectErrs
  \/ ClassifyPair

Spec == Init /\ [][Next]_vars

-----------------------------------------------------------------------------
TypeOK ==
  /\ path \in Paths
  /\ phase \in {"effective", "baseline", "classify", "judged"}
  /\ raw \in [{"effective", "baseline"} -> Seq(RawOutcomes)]
  /\ try \in 0..1 /\ lost \in 0..MaxLost
  /\ touched \subseteq Attempts(path.kind) /\ blocked \subseteq Attempts(path.kind)
  /\ result.verdict \in Verdicts \cup {"none"}

Deny  == path.backends # {} /\ path.denies = path.backends
Allow == path.backends # {} /\ path.denies = {}

(* What the baseline can tell apart: a CNI's REJECT looks like a closed    *)
(* port, so where one is used every backend must listen.                   *)
RejectIsTold == path.reject # {} => path.closed = {}

(* The backends answer alike, so that attempts of the two phases compare.  *)
Uniform == path.closed \in {{}, path.backends} /\ path.dead \in {{}, path.backends}

(* Every attempt has an outcome that collect can read, and the network     *)
(* loses at most one connect of it.                                        *)
Orderly ==
  /\ MaxLost <= 1
  /\ \A ph \in {"effective", "baseline"} : \A a \in DOMAIN raw[ph] : raw[ph][a] # "error"

SaysReached == \/ result.verdict \in {"bypass", "spec-exception"}
               \/ result.verdict = "match" /\ Allow
SaysBlocked == \/ result.verdict = "overblock"
               \/ result.verdict = "match" /\ Deny

(* A verdict that packets got through (bypass, spec-exception, match of an *)
(* allowed pair) rests on a packet that reached a backend pod with the     *)
(* policies in place: no RST of the node or of kube-proxy, no lost and     *)
(* repeated and no killed connect makes one (Classify, AtTarget, collect). *)
ReachVerdictIsWitnessed == SaysReached /\ RejectIsTold => touched # {}

(* A verdict that the policies blocked the pair (overblock, match of a     *)
(* denied pair) rests on a packet the CNI stopped: an orderly probe never  *)
(* takes a lost SYN for a policy.                                          *)
BlockVerdictIsWitnessed == SaysBlocked /\ Uniform /\ Orderly => blocked # {}

(* Why a pair is published as unreachable.  A script's pair: "one lost SYN *)
(* must not become a verdict" (prober.go:100-101), so an orderly probe     *)
(* says so only if some backend is dead, or the outcome is a RST at a node *)
(* address, which AtTarget does not trust (no DNAT rule, or nothing        *)
(* listens behind it).  A pair the oracle host dials: always, and without  *)
(* a hit, since classifyOutput reads none of dial's words, against         *)
(* reachability.go:101 "path is dead even without policies".               *)
UnreachableIsExplained ==
  phase = "judged" =>
    IF path.exec
      THEN result.verdict = "unreachable" /\ Orderly =>
             \/ path.dead # {}
             \/ /\ path.kind \in NodeAddressed
                /\ ~path.mapped \/ path.closed # {} \/ path.backends = {}
      ELSE result = [verdict |-> "unreachable", hits |-> {}]

(* "How many of them got through with policies in place"                   *)
(* (reachability.go:145-146): every attempt that a record counts as a hit  *)
(* had a packet at a backend pod, also when the two phases met different   *)
(* backends (collect).                                                     *)
HitsAreWitnessed == RejectIsTold /\ path.backends # {} => result.hits \subseteq touched
=============================================================================
