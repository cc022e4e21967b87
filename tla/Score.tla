-------------------------------- MODULE Score --------------------------------
(* internal/score and hack/score: the labels of the scenarios are read and    *)
(* carried over to mutations, then every measured run is scored (findings     *)
(* against labels) and reconciled (labels against the oracle's probes).       *)
(*                                                                            *)
(* A name of a scenario, a namespace, an object or a pod is the sequence of   *)
(* its words: "other and a dash begin the name" is IsStrictPrefix.  Only the  *)
(* subject of kind Cluster has no name and no namespace.                      *)
(* A label is [class, subject, cni, label, from], from the scenario that it   *)
(* is inherited from, <<>> if it is not; the labels of a scenario are a       *)
(* function of their places in the file.  A subject or the object of          *)
(* a finding is [kind, ns, name].  A manifest file is a sequence of           *)
(* [kind, ns, name, spec].  A run is [scenario, profile, enforces, findings,  *)
(* probes]: findings a set of [class, object], probes a sequence of records   *)
(* [target, basis, declared, effective, baseline, n], n probes of one kind,   *)
(* whose verdict is Classify's; a target is [ns, svc, name].                  *)
EXTENDS Reachability, Integers, SequencesExt

CONSTANTS
    Corpora,           \* [labels, manifests, runs, holdout] a user may have
    SystemNamespaces,  \* namespaces whose labels are not scored
    Holdout            \* scenarios that are scored on request only

VARIABLES
    pc,        \* "inherit", "score", "done" or "failed"
    corpus,    \* what is on disk; holdout is the command's flag
    labels,    \* labels by scenario and place
    todo,      \* scenarios that the loop of LoadLabels has yet to visit
    next,      \* the run to score
    items,     \* [run, outcome, label, finding], the last two sets of one or none
    disagreements  \* [run, kind, label, group], likewise

vars == <<pc, corpus, labels, todo, next, items, disagreements>>

LabelValues == {"must", "may", "must-not"}

\* The classes that detectors report.
Implemented == {"cni-not-enforcing", "ipblock-admits-node-ips", "hostnetwork-under-policy"}

AppliesTo(l, profile) == l.cni \intersect {"any", profile} # {}

-----------------------------------------------------------------------------
(* Labels of mutations.                                                       *)

\* The longest labelled name that this one continues; {} or one name.
BaseOf(name, labelled) ==
    LET others == {o \in labelled : IsStrictPrefix(o, name)}
    IN  {o \in others : \A p \in others : Len(p) <= Len(o)}

\* The labels of a scenario's own file that are scored, by their place in it:
\* those about system namespaces are left out.
Own(name) ==
    LET file == corpus.labels[name]
    IN  [i \in {j \in DOMAIN file : file[j].subject.ns \notin SystemNamespaces} |-> file[i]]

Key(o) == <<o.ns, o.name>>

\* The object of a namespace and name: the last one in the file, or none.
Object(file, k) ==
    LET places == {i \in DOMAIN file : Key(file[i]) = k}
    IN  {file[i] : i \in {j \in places : \A m \in places : m <= j}}

MutatedObjects(base, mutant) ==
    {k \in {Key(o) : o \in Range(base) \union Range(mutant)} : Object(base, k) # Object(mutant, k)}

SubjectKey(l) == <<l.class, l.subject>>

\* Mutant of Carried: what the mutation changed is carried over too.
CarriedRegardless(own, mutated, l) == \A i \in DOMAIN own : SubjectKey(own[i]) # SubjectKey(l)

\* A label of the base that the mutation inherits.
Carried(own, mutated, l) ==
    /\ \A i \in DOMAIN own : SubjectKey(own[i]) # SubjectKey(l)
    /\ Key(l.subject) \notin mutated

Inherited(base, name) ==
    LET mutated == MutatedObjects(corpus.manifests[base], corpus.manifests[name])
    IN  [i \in {j \in DOMAIN labels[base] : Carried(labels[name], mutated, labels[base][j])} |->
            [labels[base][i] EXCEPT !.from = base]]

\* Labels and some more, which come after the last place.
Appended(own, more, last) ==
    [i \in DOMAIN own \union {last + j : j \in DOMAIN more} |->
        IF i \in DOMAIN own THEN own[i] ELSE more[i - last]]

-----------------------------------------------------------------------------
(* A finding and its label.                                                   *)

\* Pods and workloads are one thing, and ports do not matter.
SubjectMatches(o, s) ==
    IF "Cluster" \in {o.kind, s.kind} THEN o.kind = s.kind
    ELSE /\ o.ns = s.ns
         /\ IF "Service" \in {o.kind, s.kind} THEN o.kind = s.kind /\ o.name = s.name
            ELSE IsPrefix(o.name, s.name) \/ IsPrefix(s.name, o.name)

\* Mutants of Rank: the first label that fits is taken; must-not beats may.
RankAlike(label) == 1
RankNegativesFirst(label) == CASE label = "must" -> 3 [] label = "must-not" -> 2 [] label = "may" -> 1

Rank(label) ==
    CASE label = "must" -> 3 [] label = "may" -> 2 [] label = "must-not" -> 1 [] OTHER -> 0

Fits(f, l, profile) ==
    AppliesTo(l, profile) /\ l.class = f.class /\ SubjectMatches(f.object, l.subject)

\* The first of the best labels that fit; {} or one index.
BestMatch(f, ls, profile) ==
    LET fits == {i \in DOMAIN ls : Fits(f, ls[i], profile)}
    IN  {i \in fits : \A j \in fits \ {i} :
            \/ Rank(ls[j].label) < Rank(ls[i].label)
            \/ Rank(ls[j].label) = Rank(ls[i].label) /\ i < j}

Outcome(ls, match) ==
    IF match = {} THEN "FP-unlabel"
    ELSE LET l == ls[CHOOSE i \in match : TRUE]
         IN  CASE l.label = "must" -> "TP" [] l.label = "may" -> "may" [] OTHER -> "FP"

\* The items of run r, given the labels of its scenario.
ScoreRun(r, ls) ==
    LET run == corpus.runs[r]
        best(f) == BestMatch(f, ls, run.profile)
        satisfied == UNION {best(f) : f \in run.findings}
        missed == {i \in DOMAIN ls :
                    AppliesTo(ls[i], run.profile) /\ ls[i].label = "must" /\ i \notin satisfied}
    IN  {[run |-> r, outcome |-> Outcome(ls, best(f)), label |-> best(f), finding |-> {f}] : f \in run.findings}
        \union {[run |-> r, outcome |-> IF ls[i].class \in Implemented THEN "FN" ELSE "gap",
                 label |-> {i}, finding |-> {}] : i \in missed}

-----------------------------------------------------------------------------
(* Labels and the oracle.                                                     *)

Verdict(p) == Classify(p.declared, p.basis, p.effective, p.baseline)

Blocked(p) == ~Reachable(p.effective, p.baseline)

Denied(p) == p.basis = "policy" /\ p.declared = "deny" /\ BaselineReachable(p.baseline)

Total(probes) == FoldLeft(LAMBDA sum, p : sum + p.n, 0, probes)

DeniedCount(probes) == Total(SelectSeq(probes, Denied))
BlockedCount(probes) == Total(SelectSeq(probes, LAMBDA p : Denied(p) /\ Blocked(p)))

\* Files and names are sequences.
ASSUME FilesAssumption ==
    \A c \in Corpora : \A name \in DOMAIN c.labels :
        /\ name \in Seq(Range(name))
        /\ c.labels[name] \in Seq(Range(c.labels[name]))
        /\ c.manifests[name] \in Seq(Range(c.manifests[name]))

\* What there is to count can be counted.
ASSUME CountsAssumption ==
    \A c \in Corpora :
        /\ c.runs \in Seq(Range(c.runs))
        /\ \A r \in DOMAIN c.runs :
              DeniedCount(c.runs[r].probes) \in Nat /\ BlockedCount(c.runs[r].probes) \in Nat

\* Too few policy-denied probes say nothing.
Measured(probes) == DeniedCount(probes) >= 10

\* Mutant of Unenforced: a few probes are enough.
UnenforcedByFew(run) == 10 * BlockedCount(run.probes) < DeniedCount(run.probes) \/ ~run.enforces

Unenforced(run) ==
    IF Measured(run.probes) THEN 10 * BlockedCount(run.probes) < DeniedCount(run.probes)
    ELSE ~run.enforces

TargetMatches(t, s) ==
    /\ t.ns = s.ns
    /\ IF t.svc THEN t.name = s.name ELSE IsPrefix(s.name, t.name)

SnatBypasses(probes, s) ==
    {p \in Range(probes) : Verdict(p) = "bypass" /\ p.basis = "undefined-snat" /\ TargetMatches(p.target, s)}

\* What the probes say against a label, as the kind of a disagreement.
Against(run, l) ==
    LET denied == DeniedCount(run.probes)
        blocked == BlockedCount(run.probes)
        bypassed == SnatBypasses(run.probes, l.subject) # {}
        contradicted ==
            \/ /\ l.class = "cni-not-enforcing" /\ Measured(run.probes)
               /\ \/ l.label = "must" /\ 10 * blocked > denied
                  \/ l.label = "must-not" /\ 10 * blocked < 9 * denied
            \/ l.class = "ipblock-admits-node-ips" /\ ~Unenforced(run) /\ l.label = "must-not" /\ bypassed
        unsupported ==
            l.class = "ipblock-admits-node-ips" /\ ~Unenforced(run) /\ l.label = "must" /\ ~bypassed
    IN  {k \in {"label-contradicted", "label-unsupported"} :
            IF k = "label-contradicted" THEN contradicted ELSE unsupported}

\* Some label, of any class and value, is about the target or its namespace.
Mentioned(t, ls) ==
    \E i \in DOMAIN ls :
        \/ TargetMatches(t, ls[i].subject)
        \/ ls[i].subject.kind = "Namespace" /\ ls[i].subject.name = t.ns

Groups(probes) == {[target |-> p.target, basis |-> p.basis] :
                      p \in {q \in Range(probes) : Verdict(q) = "bypass"}}

\* The disagreements of run r.
Reconcile(r, ls) ==
    LET run == corpus.runs[r]
        compared == {i \in DOMAIN ls : AppliesTo(ls[i], run.profile) /\ ls[i].label # "may"}
    IN  (UNION {{[run |-> r, kind |-> k, label |-> {i}, group |-> {}] : k \in Against(run, ls[i])} :
                  i \in compared})
        \union (IF Unenforced(run) THEN {}
                ELSE {[run |-> r, kind |-> "unlabeled-divergence", label |-> {}, group |-> {g}] :
                         g \in {h \in Groups(run.probes) : ~Mentioned(h.target, ls)}})

LabelsOf(name) == IF name \in DOMAIN labels THEN labels[name] ELSE <<>>

-----------------------------------------------------------------------------
\* The label files are read.
Init ==
    /\ corpus \in Corpora
    /\ labels = [name \in DOMAIN corpus.labels |-> Own(name)]
    /\ pc = "inherit" /\ todo = DOMAIN corpus.labels
    /\ next = 1 /\ items = {} /\ disagreements = {}

\* The loop over the map of labels visits one scenario, in any order.
Visit(name) ==
    /\ pc = "inherit" /\ name \in todo
    /\ todo' = todo \ {name}
    /\ labels' = [labels EXCEPT ![name] =
                     IF BaseOf(name, DOMAIN labels) = {} THEN @
                     ELSE Appended(@, Inherited(CHOOSE b \in BaseOf(name, DOMAIN labels) : TRUE, name),
                                   Len(corpus.labels[name]))]
    /\ UNCHANGED <<pc, corpus, next, items, disagreements>>

\* A label file, a manifest or a measured run that cannot be read.
LoadFails ==
    /\ pc = "inherit"
    /\ pc' = "failed"
    /\ UNCHANGED <<corpus, labels, todo, next, items, disagreements>>

\* The labels are there and LoadAll has read the runs.
Loaded ==
    /\ pc = "inherit" /\ todo = {}
    /\ pc' = "score"
    /\ UNCHANGED <<corpus, labels, todo, next, items, disagreements>>

\* Mutant of SkipHoldout: all runs from there on are skipped, and one more.
SkipHoldoutAndRest ==
    /\ pc = "score" /\ next <= Len(corpus.runs)
    /\ corpus.runs[next].scenario \in Holdout /\ ~corpus.holdout
    /\ next' = Len(corpus.runs) + 2
    /\ UNCHANGED <<pc, corpus, labels, todo, items, disagreements>>

SkipHoldout ==
    /\ pc = "score" /\ next <= Len(corpus.runs)
    /\ corpus.runs[next].scenario \in Holdout /\ ~corpus.holdout
    /\ next' = next + 1
    /\ UNCHANGED <<pc, corpus, labels, todo, items, disagreements>>

ScoreNext ==
    LET ls == LabelsOf(corpus.runs[next].scenario)
    IN  /\ pc = "score" /\ next <= Len(corpus.runs)
        /\ corpus.holdout \/ corpus.runs[next].scenario \notin Holdout
        /\ items' = items \union ScoreRun(next, ls)
        /\ disagreements' = disagreements \union Reconcile(next, ls)
        /\ next' = next + 1
        /\ UNCHANGED <<pc, corpus, labels, todo>>

Report ==
    /\ pc = "score" /\ next > Len(corpus.runs)
    /\ pc' = "done"
    /\ UNCHANGED <<corpus, labels, todo, next, items, disagreements>>

Next == (\E name \in todo : Visit(name)) \/ LoadFails \/ Loaded \/ SkipHoldout \/ ScoreNext \/ Report

Spec == Init /\ [][Next]_vars
-----------------------------------------------------------------------------
(* Properties *)

TypeOK ==
    /\ pc \in {"inherit", "score", "done", "failed"}
    /\ todo \subseteq DOMAIN labels /\ DOMAIN labels = DOMAIN corpus.labels
    /\ next \in 1 .. Len(corpus.runs) + 1
    /\ \A it \in items : it.run < next /\ it.outcome \in {"TP", "FN", "FP", "FP-unlabel", "may", "gap"}
    /\ \A d \in disagreements : d.run < next

Names == DOMAIN corpus.labels

\* What two sets of objects do not share.
Differ(a, b) == (a \ b) \union (b \ a)

\* The objects that a mutation added, removed or changed.
Changed(base, name) == Differ(Range(corpus.manifests[base]), Range(corpus.manifests[name]))

\* Of the objects of a namespace and name, whatever their kinds, the last one.
LastNamed(file) ==
    {file[i] : i \in {j \in DOMAIN file : \A m \in DOMAIN file : Key(file[m]) = Key(file[j]) => m <= j}}

ChangedLast(base, name) == Differ(LastNamed(corpus.manifests[base]), LastNamed(corpus.manifests[name]))

\* An object is what a subject is about; a workload's kind is one of several.
IsAbout(subject, o) ==
    /\ Key(o) = Key(subject)
    /\ IF subject.kind = "Workload" THEN o.kind \in {"Deployment", "StatefulSet", "DaemonSet"}
       ELSE o.kind = subject.kind

\* No mutation of a mutation is labelled.
NoChains == \A name \in Names : \A b \in BaseOf(name, Names) : BaseOf(b, Names) = {}

\* labels.go:67-71: a mutation inherits its base's labels except (a) those about
\* an object that it changed and (b) those it labels itself; in whatever order
\* Go visits the map of scenarios that the loop is changing.  Of the objects of
\* one namespace and name the last stands for all (labels.go:183).
InheritedInAnyOrder ==
    pc \in {"score", "done"} /\ NoChains =>
        \A name \in Names :
            /\ BaseOf(name, Names) = {} => labels[name] = Own(name)
            /\ \A base \in BaseOf(name, Names) :
                  Range(labels[name]) = Range(Own(name)) \union
                      {[l EXCEPT !.from = base] :
                          l \in {k \in Range(Own(base)) :
                                  /\ \A o \in Range(Own(name)) : o.class # k.class \/ o.subject # k.subject
                                  /\ \A d \in ChangedLast(base, name) : Key(d) # Key(k.subject)}}

\* labels.go:69-70: a mutation inherits no label "whose subject is an object the
\* mutation changed".  The code does not see that a workload was changed whose
\* Service comes after it in the file and has its name.
ChangedAreNotInherited ==
    \A name \in Names : \A l \in Range(labels[name]) :
        l.from # <<>> => \A o \in Changed(l.from, name) : ~IsAbout(l.subject, o)

RunOf(x) == corpus.runs[x.run]
LabelsFor(x) == LabelsOf(RunOf(x).scenario)

\* Where no finding fits two must labels, a must label that is a miss or a gap
\* is fit by no finding at all: a finding that may and must-not labels fit too
\* is still spent on the must label (ScoreRun and bestMatch, score.go:70-116).
MissIsReal ==
    \A it \in items : it.outcome \in {"FN", "gap"} =>
        LET run == RunOf(it)
            ls == LabelsFor(it)
            musts(f) == {i \in DOMAIN ls : ls[i].label = "must" /\ Fits(f, ls[i], run.profile)}
        IN  (\A f \in run.findings : \A i, j \in musts(f) : i = j)
                => \A f \in run.findings : it.label \intersect musts(f) = {}

\* labeling/README.md, rule 4: a may entry "never counts as a false positive or
\* a miss", whatever must-not labels fit the same finding.
MayNeverCounts ==
    \A it \in items : LET ls == LabelsFor(it) IN
        /\ it.outcome \in {"FN", "gap"} => \A i \in it.label : ls[i].label # "may"
        /\ it.outcome \in {"FP", "FP-unlabel"} =>
              \A f \in it.finding : \A i \in DOMAIN ls :
                  ls[i].label = "may" => ~Fits(f, ls[i], RunOf(it).profile)

\* The runs that were reconciled.
Scored == {r \in 1 .. next - 1 : corpus.holdout \/ corpus.runs[r].scenario \notin Holdout}

\* No measured bypass goes unsaid: it is listed, some label is about it, or the
\* CNI enforces nothing; and if that was measured, a label that says it does
\* is contradicted (Reconcile returns early then, oracle.go:31-40, 76-78).
NothingIsSwallowed ==
    \A r \in Scored :
        LET run == corpus.runs[r]
            ls == LabelsOf(run.scenario)
            listed(p) == \E d \in disagreements :
                d.run = r /\ [target |-> p.target, basis |-> p.basis] \in d.group
            enforcing == {i \in DOMAIN ls : /\ ls[i].class = "cni-not-enforcing"
                                           /\ ls[i].label = "must-not" /\ AppliesTo(ls[i], run.profile)}
            noneEnforced ==
                IF DeniedCount(run.probes) < 10 THEN ~run.enforces
                ELSE \A i \in enforcing : \E d \in disagreements :
                        d.run = r /\ d.kind = "label-contradicted" /\ d.label = {i}
        IN  \A p \in Range(run.probes) :
                Verdict(p) = "bypass" => listed(p) \/ Mentioned(p.target, ls) \/ noneEnforced
=============================================================================
