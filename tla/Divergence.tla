----------------------------- MODULE Divergence -----------------------------
(* hack/experiments/exp1: findings are held against the bypasses that were    *)
(* measured, without labels in between.  A run of Score has besides its       *)
(* snapshot's pods, a sequence of [ns, name, owners], and owners a sequence   *)
(* of [controller, replicaSet, name].                                         *)
EXTENDS Score

\* Findings are of the classes that there are, probes of the bases that the
\* oracle writes.
ASSUME RunsAssumption ==
    \A c \in Corpora : \A run \in Range(c.runs) :
        /\ IsFiniteSet(run.findings) /\ \A f \in run.findings : f.class \in Implemented
        /\ run.probes \in Seq(Range(run.probes))
        /\ \A p \in Range(run.probes) :
              /\ p.basis # "not-enforced" /\ {"ns", "svc", "name"} \subseteq DOMAIN p.target
              /\ p.target.name \in Seq(Range(p.target.name))

\* The controller's name, without the hash that a ReplicaSet's ends with.
workloadName(pod) ==
    LET controllers == SelectSeq(pod.owners, LAMBDA o : o.controller)
        o == Head(controllers)
    IN  IF controllers = <<>> THEN pod.name
        ELSE IF o.replicaSet /\ Len(o.name) > 1 THEN Front(o.name)
        ELSE o.name

\* A pod as a target is its workload.
GroupTarget(run, t) ==
    LET pods == {p \in Range(run.pods) : ~t.svc /\ p.ns = t.ns /\ p.name = t.name}
    IN  [t EXCEPT !.name = IF pods = {} THEN @ ELSE workloadName(CHOOSE p \in pods : TRUE)]

\* Mutant of unenforced: the snapshot's claim is believed.
unenforcedByClaim(run) == ~run.enforces

\* "As in internal/score": measured where there is enough data.
unenforced(run) ==
    IF DeniedCount(run.probes) >= 10 THEN 10 * BlockedCount(run.probes) < DeniedCount(run.probes)
    ELSE ~run.enforces

Bypasses(run) == {i \in DOMAIN run.probes : Verdict(run.probes[i]) = "bypass"}

\* A run's divergences [target, basis, probes]; the one of a run in which nothing
\* is enforced has no target.
divergences(run) ==
    LET Key2(i) == <<GroupTarget(run, run.probes[i].target), run.probes[i].basis>>
    IN  IF Bypasses(run) = {} THEN {}
        ELSE IF unenforced(run) THEN {[target |-> {}, basis |-> "not-enforced", probes |-> Bypasses(run)]}
        ELSE {[target |-> {k[1]}, basis |-> k[2], probes |-> {i \in Bypasses(run) : Key2(i) = k}] :
                 k \in {Key2(i) : i \in Bypasses(run)}}

classOf(d) ==
    CASE d.basis = "not-enforced"          -> {"cni-not-enforcing"}
      [] d.basis = "undefined-snat"        -> {"ipblock-admits-node-ips"}
      [] d.basis = "undefined-hostnetwork" -> {"hostnetwork-under-policy"}
      [] OTHER                             -> {}

targetMatches(t, o) ==
    t.ns = o.ns /\ t.name = o.name /\ o.kind = IF t.svc THEN "Service" ELSE "Workload"

\* Mutant of explains: a finding explains what its object is the target of.
explainsAnyBasis(f, d) ==
    IF f.class = "cni-not-enforcing" THEN d.basis = "not-enforced"
    ELSE \E t \in d.target : targetMatches(t, f.object)

explains(f, d) ==
    CASE f.class = "cni-not-enforcing" -> d.basis = "not-enforced"
      [] f.class = "ipblock-admits-node-ips" ->
            d.basis = "undefined-snat" /\ \E t \in d.target : targetMatches(t, f.object)
      [] f.class = "hostnetwork-under-policy" ->
            d.basis = "undefined-hostnetwork" /\ \E t \in d.target : targetMatches(t, f.object)

TruePositive(run, f) == \E d \in divergences(run) : explains(f, d)
Covered(run, d) == \E f \in run.findings : explains(f, d)

\* The counts over findings and over divergences, of one class or of all.
Tally(run, class) ==
    LET fs == {f \in run.findings : class \in {f.class, "all"}}
        ds == {d \in divergences(run) : class \in classOf(d) \union {"all"}}
    IN  [TP |-> Cardinality({f \in fs : TruePositive(run, f)}),
         FP |-> Cardinality({f \in fs : ~TruePositive(run, f)}),
         Covered |-> Cardinality({d \in ds : Covered(run, d)}),
         FN |-> Cardinality({d \in ds : ~Covered(run, d)})]

-----------------------------------------------------------------------------
(* Properties *)

\* The runs as one state sees them.
MeasuredRuns == {corpus.runs[r] : r \in 1 .. next - 1}

\* The names of pods continue those of their workloads.
NamesContinue(run) == \A p \in Range(run.pods) : IsPrefix(workloadName(p), p.name)

\* A row of the table of exp1 has a precision above zero exactly when it has a
\* recall above zero, for every class as for all together: findings and
\* divergences are put into classes by different functions (classOf, explains,
\* exp1/main.go:107-145, 351-373).  And each bypass is counted once.
TalliesAgree ==
    \A run \in MeasuredRuns :
        /\ \A class \in Implemented \union {"all"} :
              Tally(run, class).TP > 0 <=> Tally(run, class).Covered > 0
        /\ \A i \in Bypasses(run) : Cardinality({d \in divergences(run) : i \in d.probes}) = 1

\* The two programs that judge findings by the oracle do not contradict each
\* other: what exp1 calls a true positive is, as a label, one that hack/score
\* supports if it says must, and contradicts if it says must-not.  They match
\* targets with subjects in different ways, by owners and by prefixes, and each
\* has its own reading of an unenforced run (exp1/main.go:323-339, 363-402,
\* oracle.go:42-75, 104-137).
ExperimentAgreesWithScore ==
    \A run \in MeasuredRuns : \A f \in run.findings :
        NamesContinue(run) /\ TruePositive(run, f) =>
            \A value \in {"must", "must-not"} :
                LET l == [class |-> f.class, subject |-> f.object, label |-> value]
                IN  /\ value = "must" => Against(run, l) = {}
                    /\ value = "must-not" /\ f.class = "ipblock-admits-node-ips" =>
                          Against(run, l) = {"label-contradicted"}
                    /\ value = "must-not" /\ f.class = "cni-not-enforcing" /\ Measured(run.probes) =>
                          Against(run, l) = {"label-contradicted"}
=============================================================================
