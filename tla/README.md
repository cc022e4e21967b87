# failopen: TLA+ verification project

failopen audits a Kubernetes cluster for NetworkPolicies that look enforced and
are not.  Two programs share its code:

* `failopen` (`cmd/`, `internal/`): takes a snapshot of a cluster, runs detectors
  over it and reports findings;
* the oracle (`hack/oracle`): measures on a live cluster which connections the
  policies really stop, and so provides the ground truth that the detectors are
  scored against (`internal/score`).

The oracle changes a cluster that it does not own, step by step, with failures
possible at every step, and its result is believed by everything downstream.
That is where state, interleaving and failure are, so it was modelled first.  The
detectors are next: they are pure, and what can be wrong with them is what they
say about the infinitely many clusters nobody has a fixture for.

## Inventory

| component | state | operations | what makes it correct | modelled in |
|---|---|---|---|---|
| verdict vocabulary, `internal/scenario/reachability.go` | none | AtTarget, Reachable, Classify | a verdict follows from packets, not from who answered | `Reachability` |
| one probed pair, `prober.go` script/dial, `main.go` collect | attempts and outcomes of two phases | connect, retry, fold, classify | lost packets and RSTs of the node do not become verdicts | `PathProbe` |
| prober pool, `prober.go` run/runFrom | results map, failures, semaphore, WaitGroup | launch, batch, retry, store, release | no gaps but of killed jobs and failed sources, bounded load, no leak, it returns | `Prober`, `ProbeRun` |
| oracle run, `main.go` run, `kube.go`, `identity.go`, `run.sh` | cluster objects; what is removed, armed, created | setup, probe, remove, shadow, restore, write, teardown | policies come back, shadows go, nothing untrue is published | `OracleRun` |
| identity, `identity.go`, `declared.go` | ports per pod, shadow per Service, observed sources | identityPorts, createShadows, identityAddress, basisFor | a source is observed on the path it was probed on | `Identity`; the shadows' life in `OracleRun` |
| sources and targets, `model.go` | none | buildSources, buildTargets, applicable | each reachable address probed once, with what is behind it; no self-probes | `Targets` |
| corpus, `internal/scenario/load.go`, `reclassify.go`, `summary.go` | results directories | writeResults, LoadAll, reclassify | a run's two files belong together; read anew, old outcomes say what new ones would | `Corpus` |
| collector, `internal/collector` | the snapshot being built | Collect, classifyCNI, detectPodNetwork | a snapshot is the cluster at one moment; CNI and pod network do not depend on list order | `Collector` |
| detectors, `internal/detector` | findings | CNI, IPBlock, HostNetwork | a finding is a real hole, no hole is missed | `Policies`, `Audit` |
| scoring, `internal/score`, `hack/score` | labels, items, disagreements | LoadLabels, ScoreRun, Reconcile | mutations inherit what they should; a miss is a miss; no bypass goes unsaid | `Score` |
| command line, `internal/cli`, `cmd` | exit code | audit, snapshot | exit code 0 says nothing critical is there | `Audit` (audit) |
| report, `internal/report` | none | print | - | not modelled (layout) |
| experiments, `hack/experiments` | none | divergences, their classes, the tables' counts; transformed snapshots | two programs that judge one run agree; knowing less silences nothing | `Divergence` (exp1), `Audit` (exp4) |
| lab scripts, `hack/lab`, ... | none | start clusters, run tools | - | not modelled |

How they interact: `run.sh` applies a scenario and starts the oracle.  The oracle
calls the collector for a snapshot, then `prober.run` twice (policies in place,
policies removed), each time with one goroutine per source; the goroutines share
the results map and `failures`.  Everything else it does goes through the
Kubernetes API, where the CNI agents of the nodes follow at their own pace.  The
results directory is read by `internal/score`, `exp1`, `summary` and `reclassify`, also
while an oracle writes to it: nothing locks it.
`failopen` itself shares only the collector and the snapshot format with it.

## Modules

### Reachability

The constants and pure functions of `reachability.go`, with the folding of
attempts (`rank`, `collect` of `main.go`) and the aggregation of declared
verdicts (`declared.go`).  `PathProbe`, `OracleRun` and `Score` extend it.

### PathProbe

One (source, target) pair through both phases.  `path` fixes at the start what kind of
address is dialled, whether a script or the oracle host dials, which backends there
are and which of them the CNI drops or rejects for, which do not listen, which have no
route, and whether the node has a rule for the port.  The actions are what a connect
may meet: `Connect(b)` (kube-proxy picks a backend), `ConnectNowhere` (nothing behind
the address), `LoseConnect` (the network loses it), `ConnectErrs` (it is killed or
fails in some other way).  `Settle` is the script's retry.  `Outcome` is what
`collect` reads of a connect that has ended: a script leaves agnhost's words, `dial`
the constants of `reachability.go` in lower case, and `classifyOutput` knows the first
only (`Said`).  `ClassifyPair` is the body of run's last loop.  `touched` and
`blocked` are history: the effective attempts of which a packet reached a pod, or was
stopped by the CNI.  The properties relate the verdict to them.

### ProbeRun, Prober

`ProbeRun` is the contract of `prober.run`: sources are answered in any order,
each once, as failed or completely but for the jobs that were killed in their pod,
which the caller cannot tell, and the call returns when all are.  `Prober`
is the code: the loop over the plan with its semaphore, one goroutine per source,
the shell script with its batches and retry, the exec that may break off, the
loop over stdout that drops the lines with nothing after their key (`Parsed`), the
store under the mutex, the deferred release and `wg.Done`.  The order in which
a map is ranged over is any order.  `Abstract` maps `Prober` to `ProbeRun`.

### OracleRun

The life of a run, as a program counter that walks `run` of `main.go` and the
helpers it calls; an action per API call that changes the cluster.  The cluster
is the set of NetworkPolicy objects, per node the policies its dataplane enforces
(`CNISync` brings one node up to date, any time or never), the shadow Services
and the oracle namespace.  `Leave` is a `return` of `run`: it goes to the deferred
restore if that is armed, then to the deferred teardown.  `Fault` makes an API
call or an exec fail, `Crash` kills the oracle (and with it, or not, `run.sh`),
`Start` and `Cleanup` are `run.sh`, so that a later run starts on what an earlier
one left.  `prober.run` appears by its contract: each path is probed once, in
any order, at the moment the CNI is in; the reads of other policies and the
probing of other paths interleave freely with `CNISync`.

### Policies, Audit

`Policies` has the detectors' reading of NetworkPolicies (`AdmitsAny`, `AdmitsAll`,
`PortMatches`, `RulesFor`, ...) and, beside it, the API's own semantics, written
without the detectors in mind: `Declared(s, pod, port, src)` says whether the
policies of a pod let a source in.  A CIDR is the set of its addresses.  `Audit`
is `failopen audit`: `Load` any snapshot, `RunDetector` three times, `Report` and
the exit code.  The properties compare the findings with `Declared`, and with the
findings on the same snapshot in another order, or transformed as `exp4` does
(without the pod CIDRs, without the CNI).

### Collector

`Collect` reads the cluster one List call after the other, tells the CNI by its
DaemonSets and asks it for the pods' CIDRs; `Change` is anybody else, between any
two calls.  `read` is what has been read so far, of each list and of each place
(IPPools, ConfigMaps) that the CNI keeps its CIDRs in; `cni` and `net` are what the
snapshot says of it.  `past` is history: the worlds since `Collect` began.

### Score

`hack/score`: the labels of a scenario are a function of their places in its file,
so that one which is left out leaves the others where they are; what is inherited is
`Appended`.  `Visit` is one turn of the loop of `LoadLabels` over a Go map, so any
scenario may be next; `ScoreNext` is `ScoreRun` and `Reconcile` of one run.  The
probes' verdicts are `Classify` of `Reachability`, as the oracle writes them.

### Divergence

`exp1`: the bypasses of a run by workload and basis (`divergences`, `workloadName`),
which of them a finding `explains`, and the counts of the table.  It extends `Score`
and says of the same runs what the other program says of them.

### Targets, Identity

`Targets` has `filterSnapshot`, `buildSources`, `buildTargets` and `applicable`.
`Calls` are the calls of `add`, each with its time, which is its place in the loops of
`buildTargets`; of those for one address `First` is the one that counts.  Beside them,
written from the API's side, `Doors`: the addresses there are and the pods and ports
behind each.  `Identity` follows one pair of a source and a target through `run`:
`injectProbes` in two loops (`InjectNew`, `InjectRefused`, then `WaitRunning` or
`WaitRefused`), the effective round, the shadows, and the baseline with its
`/clientip` requests.  The name of the probe container is the run's own
(`kube.go:33-36`): a container of an earlier run is another one, and what remains of
it are the ports that it still serves (`old`), for which the new one may die.  In the
two rounds a source's script is executed just if it has something to probe
(`HasJobs`).  The external source has no address (`External`), while its connects come
from `ExternalIP`.  `Replace` is any controller: another pod takes the place of one at
any time, under its name and its address or not.  `nat`, chosen at the start, says on
which paths the network rewrites the source's address.  `basisFor`, `intendedPeer` and
`observedPeer` are read off the end.  `met` and `answers` are history: where connects
ended, and what answered.  `OracleRun` has the shadows' life in the cluster,
`Identity` what they are for.  The two models of `run` differ in what can happen:
there API calls fail one by one and the oracle may be killed, here pods move.

### Corpus

The directories of results.  `writer` is how far an oracle has got in each of them
(`MakeDir`, then each file created, so truncated, and then written), `tool` a reader
or `reclassify` (`LoadSnapshot` and `LoadReach` of each directory, then
`TruncateReach` and `RewriteReach` of those that changed).  Both may be stopped
between any two steps and others go on.  A measurement is kept with its attempts,
of which a file has the best only; `OldReading` is what an oracle may have written
that still took the node's RST for the pod's.  `touched` and `mixed` are history.

## Runs

Bounds are named in each module and given in its `.cfg`.

| run | question | bounds |
|---|---|---|
| `pair` | what a verdict rests on, whatever the network does | 2 backends, 2 attempts, 1 lost connect per attempt: enough for backends that differ, for attempts that meet different ones, and for every lost/repeated combination of the retry |
| `prober` | what `prober.run` returns, that it returns, that it implements `ProbeRun` | 3 sources on 2 slots so that one waits, 3 jobs on batches of 2, any of them killed, one source dialled from the host |
| `oracle` | policies, shadows and results, over two runs; which policies are left after a failed Delete or Create | 2 runs, 1 fault, 1 kill, 2 Services, 3 policies of which one is not enforced, 2 nodes, 4 paths: blocked on each node, dead, and denied by the policy that is not enforced; `KEEP=1`, so nothing is tidied up between the runs |
| `oracle_live` | a run ends; policies come back | 1 run, 2 faults, 1 kill, 1 Service, with `run.sh`'s cleanup |
| `audit` | are findings holes, are holes found, does list order decide, what does exit code 0 mean | two pods behind a Service, a hostNetwork pod, two policies from a catalogue that has every kind of peer and port, 2 nodes, two pod pools, both address families, six CNIs: enough for each early return of `admittingBlock` to be taken with a later rule that matters |
| `collector` | is a snapshot the cluster at one moment; is enforcement told; does list order decide | up to 2 DaemonSets in each order, a kindnet with images of two ages, 4 node lists, the pools and ConfigMaps of each CNI, 2 changes while `Collect` runs, so that an object may change and change back |
| `score` | inheritance, matching, reconciliation; does `exp1` agree with it | a mutation and a mutation of it, a workload with its Service of one name, up to 2 labels in each order, every set of 3 findings, up to 2 kinds of probes with counts on both sides of the thresholds; pods with and without a ReplicaSet |
| `identity` | what is a target, who answers `/clientip`, what a basis may claim, why a run is refused | 2 nodes; 10 snapshots with pods behind one or two Services, hostNetwork pods that share a node, a pod that has ended, containers of an earlier run, two long names, named, UDP and node ports; each pair; 4 ways to rewrite addresses; 1 replacement, 1 failed call |
| `corpus` | are files read together of one run; is a reclassified corpus right | 2 directories, 3 runs of the oracle, 2 of the tools, each stopped anywhere: a directory is overwritten while a tool reads it, and a second reclassify finds what the first left; 3 measurements in which RSTs of the node and of the pod, timeouts and errors are best in turn |
| `oracle_dead`, `audit_names`, `score_names` | statements of comments which the code does not keep; each is a finding below | as above; in `score_names` a mutation that changes a workload whose Service follows |

`corpus` uses symmetry of the two directories; nothing in the module tells them apart.
In `identity` one replacement is enough for each way in which a pod may be missed,
since the scripts only tell whether the pod they run in is there; the theorem below
has any number.

Deadlock is checked in `prober`.  The others switch the check off because they end:
`PathProbe` when the pair is judged, `OracleRun` when its runs are used up, `Audit`,
`Collector`, `Score` and `Identity` when the command has returned, `Corpus` when no
runs and tools are left.

Fairness.  `Prober`: the scheduler runs every goroutine, and every job ends
because `connect` and `wget` have timeouts of their own.  The exec around them has
none (`run` is called with `context.Background()`): that it ends or fails is an
assumption about the API server and the kubelet, without which `prober.run` may
block for good.  `OracleRun`: the oracle and `run.sh` are sequential programs that
keep taking steps.  Their polls have limits (`waitCanary`, the endpoint and
readiness polls); the probes' execs and `kubectl delete --wait` in `run.sh` have none,
and that they end is the same assumption.  Nothing is assumed about the CNI agents,
about faults, kills or new runs.

Every property has a mutant: an altered definition (kept beside the original,
marked "Mutant of") under which the run finds the property violated.

## Findings

* A single canary on one node stands for all nodes; a path on a slower node is
  published as `unreachable` (`oracle_dead`, `main.go:310-327`).
* A port number that a pod lists for UDP before TCP gets the UDP port's name, and a
  hole by the TCP port's name is missed (`audit_names`, `ipblock.go:348-366`).
* A mutation that changes a workload inherits the labels about it if the Service of
  its name follows in the file, against `labels.go:69-70`; and one that changes the
  Service does not inherit those about the workload (`score_names`,
  `labels.go:176-183`).  Each corpus of the repository has such names;
  `fintech-paylane-hostnet-agent` changes the DaemonSet `node-agent` and is saved by a
  label of its own.

Four more are stated by properties of passing runs, which say what the code does
where a comment says otherwise:

* `removePolicies` that fails half way loses the policies it has deleted
  (`PoliciesBackOnExit` of `oracle`, `kube.go:268-272`): those from the failed one on
  are left.  A `Create` that fails in the restore leaves those before it.
* Every pair that the oracle host dials itself is published as `unreachable`, whatever
  its path does, since `classifyOutput` reads none of `dial`'s words
  (`UnreachableIsExplained` of `pair`, `prober.go:122-133, 149-163`).  With
  `--external-container`, as `run.sh` calls the oracle, a script connects, and its words
  are read.
* A connect that is killed in its pod leaves a key without an answer and no failure on
  record, so the run is not refused (`ReturnedIsComplete` of `prober`,
  `prober.go:92-96`).
* The external source is `undefined-snat` wherever it was observed, also where it
  arrived unchanged, since its own address is empty (`BasisIsJustified` of `identity`,
  `model.go:162`, `declared.go:188`).

What else the code does that a reader might not expect is a premise of a property:

| premise | without it |
|---|---|
| `Uniform` (`pair`) | an allowed Service with unlike backends may be called overblocked though nothing was dropped |
| `RejectIsTold` (`pair`) | a CNI that rejects in front of a closed port is taken for a bypass |
| `Orderly` (`pair`) | a connect that was killed, or lost twice, becomes a verdict |
| `OnePool` (`audit`) | two blocks that only together admit all pods are reported |
| `OneFamily` (`audit`) | `::/0` counts as everyone in a cluster of IPv4 addresses |
| `PlainPorts` (`audit`) | see `audit_names` |
| `OfBothKinds` (`audit`) | a subject that blocks with and without nodes let in is critical or a warning, as the list of rules has it |
| `Settled`, `NoTwins` (`collector`) | a kindnet too old to enforce hides antrea or kube-router next to it, against `k8s.go:129-131`; of a kindnet's images the first with a date decides (`k8s.go:190`), and of two kindnet DaemonSets the first one listed, against `k8s.go:153` |
| nodes that name one backend (`collector`, in `OrderDoesNotMatter`) | of k3s nodes that record different backends the first one listed decides |
| `denied` (`collector`) | the nodes' CIDRs stand in for those of a place that cannot be read |
| `NoChains` (`score`) | labels of a mutation of a mutation depend on Go's map order |
| one must label per finding (`score`, in `MissIsReal`) | a finding that fits two must labels satisfies one, and the other is a miss |
| `NamesContinue` (`score`) | a workload whose pods have other names is matched by owners in `exp1` and not by the prefix in `internal/score` |
| `PortOnEveryPod` (`identity`) | a shadow sends to one port whatever a Service selects, so a pod answers `/clientip` that lacks the Service's named port and no connect reaches |
| a backend without jobs (`identity`, in `MeasuredOnTheSnapshot`) | a pod that is behind every target has nothing to probe, so nothing is executed in it, and that it was replaced goes unnoticed |
| `PortTaken` (`identity`, in `RefusedForCause`) | a container of an earlier run still serves the port of its pod, or of another hostNetwork pod of the node: the new one dies for it, and a second run over pods that live on is refused |
| the external source (`identity`, in `BasisIsJustified`) | `undefined-snat` says nothing of it |
| `HostPortsAreOwn` (`MeasuredSafe`) | a connect to a node's port that two pods hold ends at either; the scheduler keeps them apart, as all snapshots of `identity` do |
| `OwnShadowNames` (`identity`) | two Services whose names agree in the bytes that are left of them make every run refuse |
| `OwnAddresses` (`identity`) | a completed pod at a reused address stands for what the target saw |
| `OnePurpose`, `OwnNames` (`identity`) | an address with two purposes, or ports of a pod that share a name, which the API server and the scheduler prevent in the main |
| `touched`, `mixed` (`corpus`) | an oracle that died between its two writes leaves files of two runs, which are loaded without a word |

Left out of `identity`: containers of pods of other scenarios on the node, and other
programs that listen there; that a container which dies for its port is dead when the
wait looks at it is assumed, since the kubelet may also be seen between the two.

Besides: a canary may be a pair that no policy blocks (`main.go:302`), and such a run
waits its whole limit twice and is published all the same; `reclassify` recomputes
neither the basis (`etp-local` depends on the baseline) nor the hits.

## Proofs

Each module `...Proofs` has one inductive invariant `IInv`, a conjunction of named
parts (`IdentityProofs` and `ScoreProofs` a second one beside it), and derives type
correctness and its safety theorems from it, for every value of the constants that
the named assumptions allow.  Every safety property that a passing run checks is a
theorem, `MeasuredOnTheSnapshot` under the premise named below, and so is that
`Prober` implements `ProbeRun`.  `TypeOK` is proved and is in no run.

* `PathProbe`: `EffectiveInv` and `BaselineInv` say what each recorded outcome
  tells about the path (an `open` was seen by a pod; a `timeout` of an exec path
  met the CNI or a dead backend), `DialInv` that of what the oracle host dials
  nothing is on record but errors.  Alone they are not inductive: a timeout is
  recorded after a second connect, so `TryInv` remembers what the first one met.
  The theorems then argue from the best outcome back to an attempt that saw it,
  and for hits from each attempt to the baseline attempt of its number.
* `Prober`: `CountInv` (the semaphore and the WaitGroup count sets of goroutines),
  `AnswersInv` (what is stored is what was printed, less the lines of killed jobs, and
  complete unless failed; of a source that the host dials no job is killed),
  `TurnInv` (a job under way had its turn).  `PodPressure` follows because the
  jobs under way are all in one batch, an interval of `Parallelism` numbers.
* `OracleRun`: `PoliciesInv` says at each step exactly which policies exist,
  `EndingInv` and `ShadowsInv` who still holds a shadow, `MeasuredInv` what was
  measured, which is the truth while `settled` holds.
* `Audit`: the invariant is that the findings are those of the detectors run so
  far on an admissible snapshot.  The rest is about the detectors: their ports and
  rules agree with the API's (`PlainPorts`); the first exposure of a subject with a
  block is reported, so a hole anywhere behind a subject is; under `OnePool` a
  block holds either all pod addresses or none, so "no single block admits all
  pods" means that some pod is kept out.  `LessKnowledgeIsSafe`: exposures and
  hits do not depend on what is known of the CNI (`SameExposures`), so each early
  return of a detector can only be taken by the better informed of two audits
  (`NothingIsDropped`), and what `Index` picks of a subject is one of its findings.
  `OrderDoesNotDecide` compares any two lists with the same elements
  (`OtherOrder`): exposures, rules and blocks are the same sets, the first
  hit exists in both, and with blocks of one kind it says the same of the subject
  (`OneSeverity`).  The reversed snapshot of the property is one such pair.
* `OracleRun`, `CanaryIsJudged`: by `CanaryInv` a canary that opened stays open as
  long as the policies are away: catching up then only takes policies off a node.
* `Collector`: by `Moments` each part that was read was so in a world of `past`; by
  `Detected` and `Asked` the CNI and its network are what `CNIOf` makes of all that
  was read.  With one mover the world in which the mover's part was read agrees with
  the rest as well.  `EnforcementIsKnown` goes through the table rule by rule: an
  enforcer hits a rule, and of the rules that are hit the first one decides
  (`FirstRuleDecides`, `RulesTellEnforcement`); a kindnet of one age is as its
  first dated image (`KindnetByAge`).  `OrderDoesNotMatter` needs what the loop
  over the pools computes in the end: IPIP if any enabled pool has it, then VXLAN
  (`OverlayIs`), of which `LoopOverPools` shows that no pool is the first after which
  it is wrong.
* `Identity`: a pod that the snapshot does not have took the place of one that is in
  everybody's scripts.  So `LostInv` says that some pod is lost as soon as a new one
  is there, `PodsInv` that new pods never get a probe container and that the name of
  a lost pod leads to nothing that has one, and `MetInv` that after such a pod was
  met, the lost one's exec is still to come in the baseline, or has failed, or it has
  nothing to probe and the loss is a quiet one (`QuietLoss`).  The invariant needs all
  three: what was met is not wrong when it is met, only by the end.  A pod without
  jobs is a backend of every target (`JoblessIsBehind`), which is how
  `MeasuredOnTheSnapshot` names the exception.  `MeasuredSafe` has `HostPortsAreOwn` as
  a premise, since a port of a node is not for the API to give away; that a Service
  leads to the target's backends and to no other pod is proved (`ServiceReaches`).
  The second invariant `JInv` adds the pair that is followed (`PairInv`), that a
  container of this run which is up has the port of its own pod and nobody beside it
  (`UpInv`), that past the wait no container of an earlier run holds a port
  that is needed (`FreeInv`), that all answers are of pods which the target or its
  shadow leads to (`AnswersInv`), and `CalmInv`: while nothing disturbs the run each
  pod that is waited for has its container, and no shadow is taken.
  `RefusedForCause`, `AnsweredByTheTarget`, `BasisIsJustified` and
  `UnchangedIsAsIntended` follow from it; for the external source by
  `ExternalIsRewritten`, since no connect comes from an empty address.
  `DoorsAreProbed` is about the operators: of the calls for one address one comes
  first (`OneAtATime`, `FirstExists`), so the address is a target once (`AddedOnce`);
  each call is for a door, and each door is called for.
* `Corpus`: `RereadingIsExact` is about the operators alone: reading anew the best
  outcome of old attempts is the same as reading the attempts anew, because `AtTarget`
  keeps the order of outcomes and does nothing the second time.  `Pairs` says which
  directories hold files of one run, `Held` that what the tool remembers is still on
  disk where nobody else was, `Rewriting` what is left to rewrite.
* `Score`: an item is made of the labels as they are when scoring starts, and every
  run that was reconciled left its disagreements; what these say follows from
  `BestMatch`, which takes a must label first, and has an element wherever a label fits
  (`BestExists`).  `LabelsInv` is the invariant of inheritance: a scenario that was
  not visited has its own labels, one that was has what is left to it (`Due`),
  because without chains its base never changes.  What a diff of two manifests finds is
  the difference of the last objects of each name (`ObjectsAre`).
* `Divergence`: a tally counts finite sets, and which of them are empty follows from
  one pairing of findings and divergences, `explains`, which holds within a class only
  (`ExplainsItsClass`).  What `exp1` counts as explained is a probe that `hack/score`
  counts for the same object (`ExplainedIsMatched`).

Assumed: the named ASSUMEs on the constants, which TLC evaluates in the runs.  Some
say that lists are sequences and that bounds and counts are numbers
(`CountsAssumption`, `FilesAssumption`, `RunsAssumption`, `WorldsAssumption`,
`SnapshotsAssumption`); `RunsAssumption` also that findings and probes are of the
classes and bases that the detectors and the oracle write.  The others say what the
API server and the kubelet see to: pods have ids and names of their own and declare
ports from 1 on (`PodsAssumption`, `FreshAssumption`), what earlier runs left serves
in pods of the scenario and no port twice in a node's network
(`ContainersAssumption`), a Service has a name and each of its TCP ports a number of
its own (`ServicesAssumption`), hostNetwork pods have their node's address, others one
that is no node's and, while they run, no other pod's
(`AddressesAssumption`).  `CorpusAssumption` says that there are enough runs for the
first corpus.

Only model-checked: the liveness properties `RunReturns`, `RunEnds` and
`PoliciesComeBack`, since TLAPS proves neither liveness under fairness nor what
needs ENABLED; and the three violations.  Where the code's loops would call for
induction, the models say which element a loop ends with (the first, the last, the
best), and the proofs take least elements of sets of positions, from the
well-foundedness of the order on numbers.  What a sum over a list of any length amounts to
(`Total` of `Score`) is not proved, and no theorem needs it:
`CountsAssumption` has that it is a number.

## Not modelled, and the plan

Not modelled: text layout, logging, provenance records, flags, severities of labels,
the `snapshot` command, the printed tables of the tools and the columns of `summary`,
the lab and labelling scripts, `exp4`'s `etp-flip` (no detector reads the field it
flips), `exp5`'s generator of synthetic snapshots, the library that decides declared
verdicts from policies (`Declared` of `Policies` says what it must).  They keep no
state between steps that a property could be about.  The contents of pods, Services
and policies are abstracted to what the properties tell apart; in `OracleRun`, to a
set of policies that deny a path and a node that decides about it.

Done, in this order: `Reachability`, `PathProbe`, `ProbeRun` and `Prober`,
`OracleRun`, the proofs about them, `Policies` and `Audit` with proofs,
`Collector`, `Score`, `Targets` and `Identity`, `Divergence`, `Corpus`, and the proofs
about all of them.  Next:

1. A second replacement in `identity`, on a smaller catalogue of snapshots: the
   theorems have any number already, the run has one.
2. `OracleRun` and `Identity` follow the same `run` with different faults; that they
   take the same steps where neither has any is not stated.
3. What the external matcher library decides, beside `Declared` of `Policies`.
