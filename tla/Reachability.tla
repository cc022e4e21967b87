---------------------------- MODULE Reachability ----------------------------
(***************************************************************************)
(* The vocabulary of a measurement and the pure functions that turn raw    *)
(* connect outcomes into a verdict: internal/scenario/reachability.go, and *)
(* the folding of several attempts into one outcome in                     *)
(* hack/oracle/main.go.  The enumerations keep the strings of the source.  *)
(***************************************************************************)
EXTENDS Naturals, FiniteSets

TargetKinds   == {"pod-ip", "hostnetwork", "hostport", "clusterip", "nodeport"}
NodeAddressed == {"hostport", "nodeport"}      \* dialled at an address of the node
ServiceKinds  == {"clusterip", "nodeport"}     \* target.isService

\* What classifyOutput can answer, and what AtTarget makes of it.
RawOutcomes == {"open", "refused", "timeout", "error"}
Outcomes    == RawOutcomes \cup {"node-refused"}

Declareds == {"allow", "deny", "mixed", "n/a"}
Bases     == {"policy", "spec-exception", "undefined-hostnetwork",
              "undefined-snat", "mixed-path", "etp-local"}
Verdicts  == {"match", "bypass", "overblock", "unreachable", "unknown",
              "spec-exception"}

-----------------------------------------------------------------------------
(* Mutant of AtTarget: only hostPorts are distrusted.                      *)
AtTargetHostPortOnly(kind, outcome) ==
  IF outcome = "refused" /\ kind = "hostport" THEN "node-refused" ELSE outcome

(* A RST from a node address was sent by the node, not by the pod.         *)
AtTarget(kind, outcome) ==
  IF outcome = "refused" /\ kind \in NodeAddressed THEN "node-refused" ELSE outcome

(* The path works at all, policies removed.                                *)
BaselineReachable(baseline) == baseline \in {"open", "refused"}

(* Packets got through with the policies in place.                         *)
Reachable(effective, baseline) ==
  \/ effective = "open"
  \/ effective = "refused" /\ baseline = "refused"

Classify(declared, basis, effective, baseline) ==
  LET reach == Reachable(effective, baseline)
  IN  IF ~BaselineReachable(baseline)  THEN "unreachable"
      ELSE IF basis = "mixed-path"     THEN "unknown"
      ELSE IF basis = "spec-exception" /\ declared = "deny" /\ reach
                                       THEN "spec-exception"
      ELSE IF declared = "allow" THEN IF reach THEN "match"  ELSE "overblock"
      ELSE IF declared = "deny"  THEN IF reach THEN "bypass" ELSE "match"
      ELSE "unknown"

-----------------------------------------------------------------------------
(* Mutant of rank: silence outranks a RST of the node.                     *)
rankNodeRefusedLast == [o \in Outcomes |->
           IF o = "open" THEN 4 ELSE IF o = "refused" THEN 3
           ELSE IF o = "timeout" THEN 2 ELSE IF o = "node-refused" THEN 1 ELSE 0]

(* The order of outcomes over which collect takes the best.                *)
rank == [o \in Outcomes |->
           IF o = "open"              THEN 4
           ELSE IF o = "refused"      THEN 3
           ELSE IF o = "node-refused" THEN 2
           ELSE IF o = "timeout"      THEN 1
           ELSE 0]

(* The best of a set of outcomes; with none the loop's initial "error".    *)
BestOutcome(seen) ==
  CHOOSE o \in seen \cup {"error"} : \A q \in seen \cup {"error"} : rank[q] <= rank[o]

(* collect: raw is a function from attempts to raw outcomes.               *)
CollectBest(kind, raw) == BestOutcome({AtTarget(kind, raw[a]) : a \in DOMAIN raw})

(* Mutant of CollectHits: the kind of target is forgotten.                 *)
CollectHitsAnywhere(kind, raw, baseRaw) ==
  {a \in DOMAIN raw : Reachable(raw[a], baseRaw[a])}

(* An attempt is a hit if it got through, judged against the baseline of   *)
(* the attempt of the same number.                                         *)
CollectHits(kind, raw, baseRaw) ==
  {a \in DOMAIN raw : Reachable(AtTarget(kind, raw[a]), AtTarget(kind, baseRaw[a]))}

(* declaredCalc.verdictFor: one declared verdict for all the backends that *)
(* could serve a target, from the allow/deny verdict of each.              *)
DeclaredFor(verdicts) ==
  IF verdicts = {} THEN "n/a"
  ELSE IF verdicts = {"allow"} THEN "allow"
  ELSE IF verdicts = {"deny"} THEN "deny"
  ELSE "mixed"
=============================================================================
