------------------------------ MODULE OracleRun ------------------------------
(***************************************************************************)
(* The measurement run of hack/oracle on a live cluster, started by        *)
(* hack/scenarios/run.sh: apply the manifests, probe with the policies in  *)
(* place, delete the policies, probe again through shadow Services, put    *)
(* the policies back, write the results.                                   *)
(*                                                                         *)
(* Every API call that changes the cluster is a step of its own.  Between  *)
(* any two steps the CNI may bring a node's dataplane up to date, an API   *)
(* call may fail, or the process may die.  prober.run appears by its       *)
(* contract (ProbeRun): each path is probed once, in any order.  Lost,     *)
(* refused and killed connects and those of the oracle host are the        *)
(* subject of PathProbe; here a script makes every connect, and it meets   *)
(* what the dataplane of its node does at that moment.                     *)
(***************************************************************************)
EXTENDS Reachability

CONSTANTS
  Policies,     \* the scenario's NetworkPolicies, numbered in list order
  Honoured,     \* those of them the CNI enforces
  Services,     \* the Services that are probed
  Nodes,
  Paths,        \* the (source, target) pairs, numbered in probing order
  NodeOf,       \* Paths -> the node whose dataplane decides about the path
  Denied,       \* Paths -> the policies that select it, none admits it
  Live,         \* the paths that work when nothing blocks them
  PodPaths,     \* pod or outsider to pod-ip: what pickCanary looks at
  AgentPaths,   \* paths whose source runs in the oracle's own namespace
  KeepScenario, \* run.sh with KEEP=1
  KeepOracle,   \* oracle --keep
  MaxRuns, MaxFaults, MaxCrashes   \* bounds of the exploration

ASSUME PathsAssumption ==
  /\ Policies \subseteq Nat /\ Honoured \subseteq Policies
  /\ Paths \subseteq Nat
  /\ NodeOf \in [Paths -> Nodes] /\ Denied \in [Paths -> SUBSET Policies]
  /\ Live \subseteq Paths /\ PodPaths \subseteq Paths /\ AgentPaths \subseteq Paths
ASSUME FlagsAssumption  == KeepScenario \in BOOLEAN /\ KeepOracle \in BOOLEAN
ASSUME BoundsAssumption == MaxRuns \in Nat /\ MaxFaults \in Nat /\ MaxCrashes \in Nat

VARIABLES
  \* the cluster
  policies,   \* NetworkPolicy objects that exist
  enforced,   \* node -> policies its dataplane enforces
  shadows,    \* Services whose shadow exists
  oracleNS,   \* "absent", "active" or "terminating"
  \* the oracle process
  pc,
  snap,       \* policies in the collected snapshot
  saved,      \* what removePolicies listed
  pending,    \* of those, what the current loop has not reached
  armed,      \* the deferred restore has something to do
  agents,     \* the deferred teardown is registered
  made,       \* shadows createShadows has made and nobody dropped
  eff, base,  \* path -> outcome, "none" before it is probed
  canary,     \* {} or the one path pickCanary chose
  failures,   \* some source is in p.failures
  ending,     \* why the run is over, "none" before
  \* the results directory: the policies in snapshot.json, the verdict of
  \* each path in reachability.json
  snapshotJSON, reachabilityJSON,
  \* bounds
  runs, faults, crashes,
  \* history of the current run, for the properties only
  deleteFault, createFault, serviceFault,  \* which API calls have failed
  settled,    \* every probe so far met a dataplane that was up to date
  waited,     \* how the wait for the canary to open ended
  leftover    \* shadows that existed when the run began

cluster == <<policies, enforced, shadows, oracleNS>>
loop    == <<saved, pending>>
defers  == <<armed, agents>>
measure == <<snap, eff, base, canary, failures>>
bounds  == <<runs, faults, crashes>>
results == <<snapshotJSON, reachabilityJSON>>
history == <<deleteFault, createFault, serviceFault, settled, waited, leftover>>

vars == <<cluster, pc, loop, defers, measure, made, ending, results, bounds, history>>

Init ==
  /\ policies = {} /\ enforced = [n \in Nodes |-> {}]
  /\ shadows = {} /\ oracleNS = "absent"
  /\ pc = "idle" /\ snap = {} /\ saved = {} /\ pending = {}
  /\ armed = FALSE /\ agents = FALSE /\ made = {}
  /\ eff = [p \in Paths |-> "none"] /\ base = [p \in Paths |-> "none"]
  /\ canary = {} /\ failures = FALSE /\ ending = "none"
  /\ snapshotJSON = {} /\ reachabilityJSON = [p \in Paths |-> "none"]
  /\ runs = 0 /\ faults = 0 /\ crashes = 0
  /\ deleteFault = FALSE /\ createFault = FALSE /\ serviceFault = FALSE
  /\ settled = TRUE /\ waited = "no" /\ leftover = {}

-----------------------------------------------------------------------------
(* Helpers.                                                                *)

First(S, x) == x \in S /\ \A y \in S : x <= y

Fault == faults < MaxFaults /\ faults' = faults + 1 /\ UNCHANGED <<runs, crashes>>

(* What the deferred functions still have to do, last registered first.    *)
AfterRestore == IF agents THEN "teardown" ELSE "exited"

(* Mutant of Leave: no deferred restore.                                   *)
LeaveAtOnce(why) == ending' = why /\ pc' = AfterRestore

(* run returns: the deferred restore, the deferred teardown, the exit.     *)
Leave(why) ==
  /\ ending' = why
  /\ pc' = IF armed THEN "deferRestore" ELSE AfterRestore

UpToDate(n) == enforced[n] = policies \cap Honoured

(* What a connect along p meets at this moment.                            *)
Outcome(p) == IF p \in Live /\ enforced[NodeOf[p]] \cap Denied[p] = {}
                THEN "open" ELSE "timeout"

SourceGone(p) == p \in AgentPaths /\ oracleNS = "absent"

-----------------------------------------------------------------------------
(* The environment.                                                        *)

(* The CNI agent of a node catches up with the API.                        *)
CNISync(n) ==
  /\ ~UpToDate(n)
  /\ enforced' = [enforced EXCEPT ![n] = policies \cap Honoured]
  /\ UNCHANGED <<policies, shadows, oracleNS, pc, loop, defers, measure, made,
                 ending, results, bounds, history>>

(* Namespace deletion is asynchronous; its pods go with it.                *)
NamespaceGone ==
  /\ oracleNS = "terminating"
  /\ oracleNS' = "absent"
  /\ UNCHANGED <<policies, enforced, shadows, pc, loop, defers, measure, made,
                 ending, results, bounds, history>>

(* run.sh: kubectl apply, then a new oracle process.                       *)
Start ==
  /\ pc = "idle" /\ runs < MaxRuns
  /\ policies' = Policies
  /\ pc' = "collect" /\ runs' = runs + 1
  /\ snap' = {} /\ saved' = {} /\ pending' = {}
  /\ armed' = FALSE /\ agents' = FALSE /\ made' = {}
  /\ eff' = [p \in Paths |-> "none"] /\ base' = [p \in Paths |-> "none"]
  /\ canary' = {} /\ failures' = FALSE /\ ending' = "none"
  /\ deleteFault' = FALSE /\ createFault' = FALSE /\ serviceFault' = FALSE
  /\ settled' = TRUE /\ waited' = "no" /\ leftover' = shadows
  /\ UNCHANGED <<enforced, shadows, oracleNS, results, faults, crashes>>

(* run.sh's exit trap: delete the manifests, and their namespaces with     *)
(* every shadow, unless KEEP=1.                                            *)
Cleanup ==
  /\ pc = "exited" /\ pc' = "idle"
  /\ IF KeepScenario THEN UNCHANGED <<policies, shadows>>
                     ELSE policies' = {} /\ shadows' = {}
  /\ UNCHANGED <<enforced, oracleNS, loop, defers, measure, made, ending,
                 results, bounds, history>>

(* The oracle is killed: no deferred function runs.  run.sh's trap still   *)
(* does if only the oracle died, and not if the whole session did.         *)
Crash ==
  /\ pc \notin {"idle", "exited"} /\ crashes < MaxCrashes
  /\ crashes' = crashes + 1
  /\ pc' \in {"exited", "idle"} /\ ending' = "crash"
  /\ UNCHANGED <<cluster, loop, defers, measure, made, results, runs, faults, history>>

-----------------------------------------------------------------------------
(* Up to the first probes.                                                 *)

(* waitScenarioReady, Collect, filterSnapshot.                             *)
CollectSnapshot ==
  /\ pc = "collect" /\ pc' = "setup"
  /\ snap' = policies
  /\ UNCHANGED <<cluster, loop, defers, eff, base, canary, failures, made, ending,
                 results, bounds, history>>

(* An existing namespace, DaemonSet and outsider are taken over, also when *)
(* they are on their way out; the teardown is registered.                  *)
SetupOracle ==
  /\ pc = "setup" /\ pc' = "inject"
  /\ oracleNS' = IF oracleNS = "absent" THEN "active" ELSE oracleNS
  /\ agents' = ~KeepOracle
  /\ UNCHANGED <<policies, enforced, shadows, loop, armed, measure, made, ending,
                 results, bounds, history>>

(* Nothing can be created in a namespace that is terminating.              *)
SetupForbidden ==
  /\ pc = "setup" /\ oracleNS = "terminating"
  /\ Leave("other")
  /\ UNCHANGED <<cluster, loop, defers, measure, made, results, bounds, history>>

InjectProbes ==
  /\ pc = "inject" /\ pc' = "effective"
  /\ UNCHANGED <<cluster, loop, defers, measure, made, ending, results, bounds, history>>

(* Any call before the policies are touched fails: run returns its error.  *)
(* setupOracle may have got as far as creating the namespace.              *)
EarlyFailure ==
  /\ pc \in {"collect", "setup", "inject", "list"} /\ Fault
  /\ Leave("other")
  /\ oracleNS' \in IF pc = "setup" /\ oracleNS = "absent" THEN {"absent", "active"}
                                                          ELSE {oracleNS}
  /\ UNCHANGED <<policies, enforced, shadows, loop, defers, measure, made, results, history>>

(* One path of a probing phase.  A source that is gone, or whose exec      *)
(* fails, answers nothing and goes on record.                              *)
ProbeAnswer(p, o) ==
  \/ /\ ~SourceGone(p) /\ o = Outcome(p)
     /\ settled' = (settled /\ UpToDate(NodeOf[p]))
     /\ UNCHANGED <<failures, bounds>>
  \/ /\ o = "error" /\ failures' = TRUE
     /\ (SourceGone(p) /\ UNCHANGED bounds) \/ Fault
     /\ UNCHANGED settled

ProbeEffective(p) ==
  /\ pc = "effective" /\ eff[p] = "none"
  /\ \E o \in RawOutcomes : ProbeAnswer(p, o) /\ eff' = [eff EXCEPT ![p] = o]
  /\ UNCHANGED <<cluster, pc, loop, defers, snap, base, canary, made, ending, results,
                 deleteFault, createFault, serviceFault, waited, leftover>>

(* The first pod-ip path that a pod or the outsider could not reach.       *)
PickCanary ==
  /\ pc = "effective" /\ pc' = "list"
  /\ \A p \in Paths : eff[p] # "none"
  /\ canary' = {p \in PodPaths : First({q \in PodPaths : eff[q] = "timeout"}, p)}
  /\ UNCHANGED <<cluster, loop, defers, snap, eff, base, failures, made, ending, results,
                 bounds, history>>

-----------------------------------------------------------------------------
(* removePolicies: list, then delete one by one.  Only when all are gone   *)
(* does run get the function that recreates them.                          *)

(* Mutant of ListPolicies: the loop fills a `saved` of its own.            *)
ListPoliciesShadowed ==
  /\ pc = "list" /\ pc' = "delete"
  /\ saved' = {} /\ pending' = policies
  /\ UNCHANGED <<cluster, defers, measure, made, ending, results, bounds, history>>

ListPolicies ==
  /\ pc = "list" /\ pc' = "delete"
  /\ saved' = policies /\ pending' = policies
  /\ UNCHANGED <<cluster, defers, measure, made, ending, results, bounds, history>>

DeletePolicy(p) ==
  /\ pc = "delete" /\ First(pending, p)
  /\ policies' = policies \ {p} /\ pending' = pending \ {p}
  /\ UNCHANGED <<enforced, shadows, oracleNS, pc, saved, defers, measure, made, ending,
                 results, bounds, history>>

DeleteFails ==
  /\ pc = "delete" /\ pending # {} /\ Fault
  /\ deleteFault' = TRUE
  /\ Leave("remove")
  /\ UNCHANGED <<cluster, loop, defers, measure, made, results,
                 createFault, serviceFault, settled, waited, leftover>>

PoliciesRemoved ==
  /\ pc = "delete" /\ pending = {} /\ pc' = "waitOpen"
  /\ armed' = TRUE
  /\ UNCHANGED <<cluster, loop, agents, measure, made, ending, results, bounds, history>>

(* Mutant of WaitOver: any answer of the canary ends the wait.             *)
WaitOverAnyAnswer(how) ==
  \/ how \in {"canary", "timeout"} /\ canary # {}
  \/ how = "blind" /\ canary = {}

(* Mutant of WaitOver: the poll has no limit.                              *)
WaitOverNoLimit(how) ==
  \/ how = "canary" /\ \E p \in canary : ~SourceGone(p) /\ Outcome(p) = "open"
  \/ how = "blind"  /\ canary = {}

(* waitCanary: until the canary opens, or the limit is over (which is only *)
(* logged), or a fixed time if there is no canary.                         *)
WaitOver(how) ==
  \/ how = "canary"  /\ \E p \in canary : ~SourceGone(p) /\ Outcome(p) = "open"
  \/ how = "timeout" /\ canary # {}
  \/ how = "blind"   /\ canary = {}

(* A poll whose exec fails puts the canary's source on record, like any    *)
(* other probe.                                                            *)
PollAnswer ==
  \/ failures' \in {failures, failures \/ \E p \in canary : SourceGone(p)} /\ UNCHANGED bounds
  \/ failures' = TRUE /\ canary # {} /\ Fault

WaitOpen(how) ==
  /\ pc = "waitOpen" /\ pc' = "shadow"
  /\ WaitOver(how)
  /\ waited' = how
  /\ PollAnswer
  /\ UNCHANGED <<cluster, loop, defers, snap, eff, base, canary, made, ending, results,
                 deleteFault, createFault, serviceFault, settled, leftover>>

-----------------------------------------------------------------------------
(* createShadows and dropShadows.                                          *)

(* Mutant of CreateShadow: an existing shadow is taken over.               *)
CreateShadowTakesOver(v) ==
  /\ pc = "shadow" /\ v \in Services \ made
  /\ shadows' = shadows \cup {v} /\ made' = made \cup {v}
  /\ UNCHANGED <<policies, enforced, oracleNS, pc, loop, defers, measure, ending, results,
                 bounds, history>>

CreateShadow(v) ==
  /\ pc = "shadow" /\ v \in Services \ made /\ v \notin shadows
  /\ shadows' = shadows \cup {v} /\ made' = made \cup {v}
  /\ UNCHANGED <<policies, enforced, oracleNS, pc, loop, defers, measure, ending, results,
                 bounds, history>>

(* The name is taken by the shadow of an earlier run, or the call fails.   *)
CreateShadowFails(v) ==
  /\ pc = "shadow" /\ v \in Services \ made /\ pc' = "unshadow"
  /\ \/ v \in shadows /\ UNCHANGED <<bounds, serviceFault>>
     \/ Fault /\ serviceFault' = TRUE
  /\ UNCHANGED <<cluster, loop, defers, measure, made, ending, results,
                 deleteFault, createFault, settled, waited, leftover>>

(* Endpoints that do not get ready in time are only logged.                *)
ShadowsReady ==
  /\ pc = "shadow" /\ Services \subseteq made /\ pc' = "baseline"
  /\ UNCHANGED <<cluster, loop, defers, measure, made, ending, results, bounds, history>>

(* The error of a Delete is ignored.                                       *)
DropShadow(v) ==
  /\ pc \in {"drop", "unshadow"} /\ v \in made
  /\ made' = made \ {v}
  /\ \/ shadows' = shadows \ {v} /\ UNCHANGED <<bounds, serviceFault>>
     \/ Fault /\ serviceFault' = TRUE /\ UNCHANGED shadows
  /\ UNCHANGED <<policies, enforced, oracleNS, pc, loop, defers, measure, ending, results,
                 deleteFault, createFault, settled, waited, leftover>>

(* Mutant of ShadowsUndone: createShadows fails without its cleanup.       *)
ShadowsNotUndone ==
  /\ pc = "unshadow"
  /\ Leave("shadow") /\ pending' = saved
  /\ UNCHANGED <<cluster, saved, defers, measure, made, results, bounds, history>>

ShadowsUndone ==
  /\ pc = "unshadow" /\ made = {}
  /\ Leave("shadow") /\ pending' = saved
  /\ UNCHANGED <<cluster, saved, defers, measure, made, results, bounds, history>>

-----------------------------------------------------------------------------
(* The baseline, and the policies back.                                    *)

ProbeBaseline(p) ==
  /\ pc = "baseline" /\ base[p] = "none"
  /\ \E o \in RawOutcomes : ProbeAnswer(p, o) /\ base' = [base EXCEPT ![p] = o]
  /\ UNCHANGED <<cluster, pc, loop, defers, snap, eff, canary, made, ending, results,
                 deleteFault, createFault, serviceFault, waited, leftover>>

BaselineDone ==
  /\ pc = "baseline" /\ pc' = "drop"
  /\ \A p \in Paths : base[p] # "none"
  /\ UNCHANGED <<cluster, loop, defers, measure, made, ending, results, bounds, history>>

ShadowsDropped ==
  /\ pc = "drop" /\ made = {} /\ pc' = "restore"
  /\ pending' = saved
  /\ UNCHANGED <<cluster, saved, defers, measure, made, ending, results, bounds, history>>

(* The function removePolicies returned, called by run and, unless that    *)
(* call succeeded, once more when run returns.                             *)
RestorePolicy(p) ==
  /\ pc \in {"restore", "deferRestore"} /\ First(pending, p) /\ p \notin policies
  /\ policies' = policies \cup {p} /\ pending' = pending \ {p}
  /\ UNCHANGED <<enforced, shadows, oracleNS, pc, saved, defers, measure, made, ending,
                 results, bounds, history>>

(* A Create fails, or the policy exists already: the loop stops there.     *)
RestoreStops(p) ==
  /\ pc \in {"restore", "deferRestore"} /\ First(pending, p)
  /\ \/ p \in policies /\ UNCHANGED <<bounds, createFault>>
     \/ Fault /\ createFault' = TRUE
  /\ IF pc = "restore"
       THEN Leave("restore") /\ pending' = saved
       ELSE pc' = AfterRestore /\ UNCHANGED <<ending, pending>>
  /\ UNCHANGED <<cluster, saved, defers, measure, made, results,
                 deleteFault, serviceFault, settled, waited, leftover>>

(* Mutant of Restored: an error of the restore is only logged.             *)
RestoredRegardless ==
  /\ pc \in {"restore", "deferRestore"}
  /\ armed' = FALSE
  /\ pc' = IF pc = "restore" THEN "waitBlocked" ELSE AfterRestore
  /\ UNCHANGED <<cluster, loop, agents, measure, made, ending, results, bounds, history>>

Restored ==
  /\ pc \in {"restore", "deferRestore"} /\ pending = {}
  /\ armed' = FALSE
  /\ pc' = IF pc = "restore" THEN "waitBlocked" ELSE AfterRestore
  /\ UNCHANGED <<cluster, loop, agents, measure, made, ending, results, bounds, history>>

(* The second waitCanary; nothing is measured after it.                    *)
WaitBlocked ==
  /\ pc = "waitBlocked" /\ pc' = "check"
  /\ PollAnswer
  /\ UNCHANGED <<cluster, loop, defers, snap, eff, base, canary, made, ending, results, history>>

-----------------------------------------------------------------------------
(* The results.                                                            *)

(* A failed source would read as unreachable: refuse to write.             *)
RefuseFailures ==
  /\ pc = "check" /\ failures
  /\ Leave("probing")
  /\ UNCHANGED <<cluster, loop, defers, measure, made, results, bounds, history>>

(* Mutant of WriteSnapshot: failed sources are not refused.                *)
WriteSnapshotAnyway ==
  /\ pc = "check" /\ pc' = "write"
  /\ snapshotJSON' = snap
  /\ UNCHANGED <<cluster, loop, defers, measure, made, ending, reachabilityJSON, bounds, history>>

WriteSnapshot ==
  /\ pc = "check" /\ ~failures /\ pc' = "write"
  /\ snapshotJSON' = snap
  /\ UNCHANGED <<cluster, loop, defers, measure, made, ending, reachabilityJSON, bounds, history>>

Declared(p) == IF snap \cap Denied[p] # {} THEN "deny" ELSE "allow"

(* Mutant of Verdict: the two phases are swapped.                          *)
VerdictSwapped(p) == Classify(Declared(p), "policy", base[p], eff[p])

Verdict(p) == Classify(Declared(p), "policy", eff[p], base[p])

WriteReachability ==
  /\ pc = "write"
  /\ reachabilityJSON' = [p \in Paths |-> Verdict(p)]
  /\ Leave("ok")
  /\ UNCHANGED <<cluster, loop, defers, measure, made, snapshotJSON, bounds, history>>

WriteFails ==
  /\ pc \in {"check", "write"} /\ ~failures /\ Fault
  /\ Leave("other")
  /\ UNCHANGED <<cluster, loop, defers, measure, made, results, history>>

(* The deferred teardown; its error is ignored.                            *)
TeardownOracle ==
  /\ pc = "teardown" /\ pc' = "exited"
  /\ \/ oracleNS' = (IF oracleNS = "absent" THEN "absent" ELSE "terminating") /\ UNCHANGED bounds
     \/ Fault /\ UNCHANGED oracleNS
  /\ UNCHANGED <<policies, enforced, shadows, loop, defers, measure, made, ending, results,
                 history>>

-----------------------------------------------------------------------------
Oracle ==
  \/ CollectSnapshot \/ SetupOracle \/ SetupForbidden \/ InjectProbes
  \/ \E p \in Paths : ProbeEffective(p) \/ ProbeBaseline(p)
  \/ PickCanary \/ ListPolicies \/ PoliciesRemoved
  \/ \E p \in Policies : DeletePolicy(p) \/ RestorePolicy(p) \/ RestoreStops(p)
  \/ \E how \in {"canary", "timeout", "blind"} : WaitOpen(how)
  \/ \E v \in Services : CreateShadow(v) \/ CreateShadowFails(v) \/ DropShadow(v)
  \/ ShadowsReady \/ ShadowsUndone \/ BaselineDone \/ ShadowsDropped
  \/ Restored \/ WaitBlocked
  \/ RefuseFailures \/ WriteSnapshot \/ WriteReachability
  \/ TeardownOracle

Next ==
  \/ Oracle \/ EarlyFailure \/ DeleteFails \/ WriteFails \/ Crash
  \/ Start \/ Cleanup \/ NamespaceGone
  \/ \E n \in Nodes : CNISync(n)

(* The oracle and run.sh are sequential programs.  Their polls have limits *)
(* (waitCanary, the waits for pods and endpoints); an exec and run.sh's    *)
(* kubectl delete --wait have none, and the fairness assumes that the API  *)
(* server answers them.  Nothing obliges the CNI, a fault, a crash or a    *)
(* new run.                                                                *)
Spec == Init /\ [][Next]_vars
FairSpec == Spec /\ WF_vars(Oracle) /\ WF_vars(Cleanup)

-----------------------------------------------------------------------------
Steps == {"idle", "collect", "setup", "inject", "effective", "list", "delete", "waitOpen",
          "shadow", "unshadow", "baseline", "drop", "restore", "waitBlocked", "check",
          "write", "deferRestore", "teardown", "exited"}
Endings == {"none", "ok", "remove", "restore", "shadow", "probing", "other", "crash"}

TypeOK ==
  /\ policies \subseteq Policies /\ snap \subseteq Policies
  /\ pending \subseteq saved /\ saved \subseteq Policies
  /\ enforced \in [Nodes -> SUBSET Policies]
  /\ shadows \subseteq Services /\ made \subseteq Services /\ leftover \subseteq Services
  /\ oracleNS \in {"absent", "active", "terminating"}
  /\ pc \in Steps /\ ending \in Endings /\ waited \in {"no", "canary", "timeout", "blind"}
  /\ eff \in [Paths -> RawOutcomes \cup {"none"}]
  /\ base \in [Paths -> RawOutcomes \cup {"none"}]
  /\ canary \subseteq PodPaths
  /\ snapshotJSON \subseteq Policies /\ reachabilityJSON \in [Paths -> Verdicts \cup {"none"}]
  /\ {armed, agents, failures, deleteFault, createFault, serviceFault, settled} \subseteq BOOLEAN
  /\ runs \in 0..MaxRuns /\ faults \in 0..MaxFaults /\ crashes \in 0..MaxCrashes

Published == ending = "ok"
Exited    == pc = "exited" /\ ending # "crash"

(* The first, or the last, policies of the list, or none or all of them.   *)
FirstOnes(S) == \A p \in S : \A q \in Policies \ S : p < q
LastOnes(S)  == \A p \in S : \A q \in Policies \ S : q < p

(* What the oracle leaves behind when it exits by itself, by whatever      *)
(* return of run: all the policies.  After a Delete that failed in         *)
(* removePolicies those from the failed one on, the others stay away       *)
(* although kube.go:257-258 speaks of "a function that recreates them";    *)
(* after a Create that failed in the restore those before it, since the    *)
(* deferred retry stops at the first one that exists.                      *)
PoliciesBackOnExit ==
  Exited => \/ policies = Policies
            \/ deleteFault /\ ending = "remove" /\ LastOnes(policies)
            \/ createFault /\ FirstOnes(policies)

(* Results appear only in a cluster that has its policies again and no     *)
(* shadow that this run could still remove (main.go:180-193).              *)
ResultsAfterRestore ==
  [][results' # results => policies = Policies /\ made = {} /\ ~armed]_vars

(* "A failed exec ... would silently classify as unreachable"              *)
(* (main.go:188-189): no verdict that run writes rests on a source whose   *)
(* exec failed or whose pod was gone, in either phase.                     *)
FailedSourceNotPublished ==
  Published => \A p \in Paths : eff[p] \in {"open", "timeout"} /\ base[p] \in {"open", "timeout"}

(* What the verdict of a path is in truth: policies the CNI does not       *)
(* honour are bypassed, and a dead path is unreachable.                    *)
TrueVerdict(p) ==
  Classify(IF Denied[p] # {} THEN "deny" ELSE "allow", "policy",
           IF p \in Live /\ Denied[p] \cap Honoured = {} THEN "open" ELSE "timeout",
           IF p \in Live THEN "open" ELSE "timeout")

(* If every probe met a dataplane that was up to date, what is published   *)
(* is the truth, whatever earlier runs, crashes and faults left behind.    *)
SettledRunIsExact ==
  Published /\ settled => \A p \in Paths : reachabilityJSON[p] = TrueVerdict(p)

(* The canary is worth its wait: if it opened, its own baseline is open.   *)
CanaryIsJudged ==
  Published /\ waited = "canary" => \A p \in canary : reachabilityJSON[p] # "unreachable"

(* A shadow left by an earlier run, itself a Service that the snapshot and *)
(* the targets would include, never gets into results.                     *)
LeftoverShadowRefused == Published => leftover = {}

(* An exit leaves no shadow behind unless deleting or creating one failed. *)
ShadowsGoneOnExit == Exited /\ ~serviceFault => shadows = leftover

(* A run comes to an end, whatever fails in it.                            *)
RunEnds == (pc # "idle") ~> (pc = "idle")

(* Policies that were removed come back, if no call fails and nobody kills *)
(* the oracle.                                                             *)
PoliciesComeBack == (pc = "delete") ~> (policies = Policies \/ faults > 0 \/ crashes > 0)

-----------------------------------------------------------------------------
(* What a comment says and the code does not keep; see the README.         *)

(* reachability.go:101 "path is dead even without policies".               *)
UnreachableMeansDead ==
  Published /\ waited = "canary" =>
    \A p \in Paths : reachabilityJSON[p] = "unreachable" => p \notin Live
=============================================================================
