------------------------------ MODULE ScoreProofs ------------------------------
(* What a miss is worth, and that no measured bypass goes unsaid, for any     *)
(* labels, findings, runs and probes.                                         *)
EXTENDS Divergence, FiniteSetTheorems, WellFoundedInduction, TLAPS

-----------------------------------------------------------------------------
(* The inductive invariant: every item and every disagreement was made from   *)
(* the labels as they are, and every run that was reconciled left its         *)
(* disagreements.                                                             *)

Types ==
  /\ corpus \in Corpora
  /\ pc \in {"inherit", "score", "done", "failed"}
  /\ DOMAIN labels = DOMAIN corpus.labels /\ todo \subseteq DOMAIN labels
  /\ next \in 1 .. Len(corpus.runs) + 1
  /\ pc \in {"inherit", "failed"} => next = 1 /\ items = {} /\ disagreements = {}

ItemsInv ==
  /\ \A it \in items : it.run \in Nat /\ it.run < next /\ it \in ScoreRun(it.run, LabelsFor(it))

Reconciled(r) == Reconcile(r, LabelsOf(corpus.runs[r].scenario))

DisagreementsInv ==
  /\ \A r \in Scored : Reconciled(r) \subseteq disagreements
  /\ \A d \in disagreements : d.run \in Nat /\ d.run < next

IInv == Types /\ ItemsInv /\ DisagreementsInv

LEMMA RunsAreCounted ==
  ASSUME Types
  PROVE  DOMAIN corpus.runs = 1 .. Len(corpus.runs) /\ Len(corpus.runs) \in Nat
BY CountsAssumption DEF Types

LEMMA InitInv == Init => IInv
<1> SUFFICES ASSUME Init PROVE IInv OBVIOUS
<1>1. Len(corpus.runs) \in Nat BY CountsAssumption DEF Init
<1>2. DOMAIN labels = DOMAIN corpus.labels BY DEF Init
<1>3. Types BY <1>1, <1>2 DEF Init, Types
<1>4. 1 .. next - 1 = {} BY DEF Init
<1>5. ItemsInv /\ DisagreementsInv BY <1>4 DEF Init, ItemsInv, DisagreementsInv, Scored
<1>6. QED BY <1>3, <1>5 DEF IInv

\* Of what is made of one run every part says so.
LEMMA MadeOfRun ==
  ASSUME NEW r, NEW ls
  PROVE  /\ \A it \in ScoreRun(r, ls) : it.run = r
         /\ \A d \in Reconcile(r, ls) : d.run = r
BY DEF ScoreRun, Reconcile

\* Before anything is scored, labels may change.
LEMMA InheritStep ==
  ASSUME IInv, pc = "inherit", UNCHANGED <<corpus, next, items, disagreements>>,
         DOMAIN labels' = DOMAIN labels, todo' \subseteq todo,
         pc' \in {"inherit", "score", "failed"}
  PROVE  IInv'
<1>1. next = 1 /\ items = {} /\ disagreements = {} BY DEF IInv, Types
<1>2. Types' BY <1>1 DEF IInv, Types
<1>3. 1 .. next' - 1 = {} BY <1>1
<1>4. ItemsInv' /\ DisagreementsInv' BY <1>1, <1>3 DEF ItemsInv, DisagreementsInv, Scored
<1>5. QED BY <1>2, <1>4 DEF IInv

\* A run is scored, or skipped.
LEMMA RunStep ==
  ASSUME IInv, pc = "score", next <= Len(corpus.runs), next' = next + 1,
         UNCHANGED <<pc, corpus, labels, todo>>,
         \/ /\ corpus.runs[next].scenario \in Holdout /\ ~corpus.holdout
            /\ UNCHANGED <<items, disagreements>>
         \/ /\ items' = items \union ScoreRun(next, LabelsOf(corpus.runs[next].scenario))
            /\ disagreements' = disagreements \union Reconciled(next)
  PROVE  IInv'
<1>0. next \in Nat /\ next >= 1 /\ Len(corpus.runs) \in Nat BY RunsAreCounted DEF IInv, Types
<1>1. Types' BY <1>0 DEF IInv, Types
<1>2. ItemsInv'
  <2> SUFFICES ASSUME NEW it \in items'
               PROVE  it.run \in Nat /\ it.run < next' /\ it \in ScoreRun(it.run, LabelsFor(it))'
    BY DEF ItemsInv
  <2>1. CASE it \in items
    <3>1. it.run \in Nat /\ it.run < next /\ it \in ScoreRun(it.run, LabelsFor(it))
      BY <2>1 DEF IInv, ItemsInv
    <3>2. ScoreRun(it.run, LabelsFor(it))' = ScoreRun(it.run, LabelsFor(it))
      BY DEF ScoreRun, LabelsFor, LabelsOf, RunOf
    <3>3. it.run < next' BY <1>0, <3>1
    <3>4. QED BY <3>1, <3>2, <3>3
  <2>2. CASE it \in ScoreRun(next, LabelsOf(corpus.runs[next].scenario))
    <3>1. it.run = next BY <2>2, MadeOfRun
    <3>2. ScoreRun(it.run, LabelsFor(it))' = ScoreRun(it.run, LabelsFor(it))
      BY DEF ScoreRun, LabelsFor, LabelsOf, RunOf
    <3>3. it \in ScoreRun(it.run, LabelsFor(it)) BY <2>2, <3>1 DEF LabelsFor, RunOf
    <3>4. QED BY <1>0, <3>1, <3>2, <3>3
  <2>3. QED BY <2>1, <2>2
<1>3. DisagreementsInv'
  <2>1. \A r \in Scored' : r \in Scored \/ (r = next /\ (corpus.holdout \/ corpus.runs[next].scenario \notin Holdout))
    <3>1. 1 .. next' - 1 = (1 .. next - 1) \union {next} BY <1>0
    <3>2. Scored' = {r \in 1 .. next' - 1 : corpus.holdout \/ corpus.runs[r].scenario \notin Holdout}
      BY DEF Scored
    <3>3. Scored = {r \in 1 .. next - 1 : corpus.holdout \/ corpus.runs[r].scenario \notin Holdout}
      BY DEF Scored
    <3> SUFFICES ASSUME NEW r \in Scored'
                 PROVE  r \in Scored \/ (r = next /\ (corpus.holdout \/ corpus.runs[next].scenario \notin Holdout))
      OBVIOUS
    <3>4. r \in 1 .. next' - 1 /\ (corpus.holdout \/ corpus.runs[r].scenario \notin Holdout) BY <3>2
    <3>5. CASE r = next BY <3>4, <3>5
    <3>6. CASE r # next
      <4>1. r \in 1 .. next - 1 BY <3>1, <3>4, <3>6
      <4>2. corpus.holdout \/ corpus.runs[r].scenario \notin Holdout BY <3>4
      <4>3. r \in Scored BY Zenon, <3>3, <4>1, <4>2
      <4>4. QED BY <4>3
    <3>7. QED BY <3>5, <3>6
  <2>2. \A r \in Scored : Reconciled(r) \subseteq disagreements BY DEF IInv, DisagreementsInv
  <2>3. \A r : Reconciled(r)' = Reconciled(r)
    BY DEF Reconciled, LabelsOf, Reconcile
  <2>4. \A r \in Scored' : Reconciled(r)' \subseteq disagreements' BY <2>1, <2>2, <2>3
  <2>5. \A d \in disagreements' : d.run \in Nat /\ d.run < next'
    <3>1. \A d \in disagreements : d.run \in Nat /\ d.run < next BY DEF IInv, DisagreementsInv
    <3>2. \A d \in Reconciled(next) : d.run = next BY MadeOfRun DEF Reconciled
    <3>3. QED BY <1>0, <3>1, <3>2
  <2>6. QED BY <2>4, <2>5 DEF DisagreementsInv
<1>4. QED BY <1>1, <1>2, <1>3 DEF IInv

LEMMA NextInv == IInv /\ [Next]_vars => IInv'
<1> SUFFICES ASSUME IInv, [Next]_vars PROVE IInv' OBVIOUS
<1>1. ASSUME NEW name \in todo, Visit(name) PROVE IInv'
  <2>1. pc = "inherit" /\ UNCHANGED <<pc, corpus, next, items, disagreements>> /\ todo' \subseteq todo
    BY <1>1 DEF Visit
  <2>2. DOMAIN labels' = DOMAIN labels BY <1>1 DEF Visit
  <2>3. QED BY <2>1, <2>2, InheritStep
<1>2. CASE LoadFails \/ Loaded BY <1>2, InheritStep DEF LoadFails, Loaded
<1>3. CASE SkipHoldout BY <1>3, RunStep DEF SkipHoldout
<1>4. CASE ScoreNext BY <1>4, RunStep DEF ScoreNext, Reconciled
<1>5. CASE Report
  <2>1. pc = "score" /\ pc' = "done" /\ UNCHANGED <<corpus, labels, todo, next, items, disagreements>>
    BY <1>5 DEF Report
  <2>2. Types' BY <2>1 DEF IInv, Types
  <2>3. ItemsInv' BY <2>1 DEF IInv, ItemsInv, ScoreRun, LabelsFor, LabelsOf, RunOf
  <2>4. DisagreementsInv'
    BY <2>1 DEF IInv, DisagreementsInv, Scored, Reconciled, Reconcile, LabelsOf
  <2>5. QED BY <2>2, <2>3, <2>4 DEF IInv
<1>6. CASE UNCHANGED vars
  <2>1. UNCHANGED <<pc, corpus, labels, todo, next, items, disagreements>> BY <1>6 DEF vars
  <2>2. Types' BY <2>1 DEF IInv, Types
  <2>3. ItemsInv' BY <2>1 DEF IInv, ItemsInv, ScoreRun, LabelsFor, LabelsOf, RunOf
  <2>4. DisagreementsInv'
    BY <2>1 DEF IInv, DisagreementsInv, Scored, Reconciled, Reconcile, LabelsOf
  <2>5. QED BY <2>2, <2>3, <2>4 DEF IInv
<1>7. QED BY <1>1, <1>2, <1>3, <1>4, <1>5, <1>6 DEF Next

\* The inductive invariant holds in every state of a scoring.
THEOREM Invariant == Spec => []IInv
<1>1. QED BY InitInv, NextInv, PTL DEF Spec

-----------------------------------------------------------------------------
(* What it says.                                                              *)

\* Type correctness of a scoring.
THEOREM TypeCorrect == Spec => []TypeOK
<1>1. ASSUME IInv PROVE TypeOK
  <2>1. \A it \in items : it.outcome \in {"TP", "FN", "FP", "FP-unlabel", "may", "gap"}
    BY <1>1 DEF IInv, ItemsInv, ScoreRun, Outcome
  <2>2. QED BY <1>1, <2>1 DEF IInv, Types, ItemsInv, DisagreementsInv, TypeOK
<1>2. QED BY <1>1, Invariant, PTL

\* An item is of a finding, or of a label that no finding satisfied.
LEMMA ItemIsMade ==
  ASSUME NEW r, NEW ls, NEW it \in ScoreRun(r, ls)
  PROVE  \/ \E f \in corpus.runs[r].findings :
              /\ it.outcome = Outcome(ls, BestMatch(f, ls, corpus.runs[r].profile))
              /\ it.label = BestMatch(f, ls, corpus.runs[r].profile) /\ it.finding = {f}
         \/ \E i \in DOMAIN ls :
              /\ it.label = {i} /\ ls[i].label = "must" /\ it.outcome \in {"FN", "gap"}
              /\ \A f \in corpus.runs[r].findings : i \notin BestMatch(f, ls, corpus.runs[r].profile)
BY DEF ScoreRun

\* A must label beats all others, and nothing beats it but another one.
LEMMA MustIsBest ==
  ASSUME NEW f, NEW ls, NEW profile, NEW i \in DOMAIN ls, ls[i].label = "must", Fits(f, ls[i], profile),
         \A j \in DOMAIN ls : ls[j].label = "must" /\ Fits(f, ls[j], profile) => j = i
  PROVE  i \in BestMatch(f, ls, profile)
<1>1. \A j \in DOMAIN ls : Fits(f, ls[j], profile) /\ j # i => Rank(ls[j].label) < Rank(ls[i].label)
  BY DEF Rank
<1>2. QED BY <1>1 DEF BestMatch

\* Where no finding fits two must labels, a must label that is a miss or a gap is
\* fit by no finding at all, whatever other labels fit (ScoreRun and bestMatch).
THEOREM MissSafe == Spec => []MissIsReal
<1>1. ASSUME IInv, NEW it \in items, it.outcome \in {"FN", "gap"},
             \A f \in RunOf(it).findings : \A i, j \in
                {k \in DOMAIN LabelsFor(it) : LabelsFor(it)[k].label = "must" /\ Fits(f, LabelsFor(it)[k], RunOf(it).profile)} :
                   i = j,
             NEW f \in RunOf(it).findings, NEW i \in it.label,
             i \in DOMAIN LabelsFor(it), LabelsFor(it)[i].label = "must",
             Fits(f, LabelsFor(it)[i], RunOf(it).profile)
      PROVE  FALSE
  <2>1. it \in ScoreRun(it.run, LabelsFor(it)) BY <1>1 DEF IInv, ItemsInv
  <2>2. \A g \in RunOf(it).findings : Outcome(LabelsFor(it), BestMatch(g, LabelsFor(it), RunOf(it).profile))
                                        \notin {"FN", "gap"}
    BY DEF Outcome
  <2>3. i \notin BestMatch(f, LabelsFor(it), RunOf(it).profile)
    BY <1>1, <2>1, <2>2, ItemIsMade DEF RunOf
  <2>4. i \in BestMatch(f, LabelsFor(it), RunOf(it).profile) BY <1>1, MustIsBest
  <2>5. QED BY <2>3, <2>4
<1>2. IInv => MissIsReal BY <1>1 DEF MissIsReal
<1>3. QED BY <1>2, Invariant, PTL

\* No measured bypass goes unsaid: it is listed, some label is about it, or the
\* CNI enforces nothing, and a label that says it does is contradicted if that
\* was measured (Reconcile).
THEOREM SwallowedSafe == Spec => []NothingIsSwallowed
<1> DEFINE Run(r) == corpus.runs[r]
           Ls(r) == LabelsOf(Run(r).scenario)
           Listed(r, p) == \E d \in disagreements :
                              d.run = r /\ [target |-> p.target, basis |-> p.basis] \in d.group
           Enforcing(r) == {i \in DOMAIN Ls(r) : /\ Ls(r)[i].class = "cni-not-enforcing"
                                                /\ Ls(r)[i].label = "must-not" /\ AppliesTo(Ls(r)[i], Run(r).profile)}
<1>0. ASSUME IInv, NEW r \in Scored
      PROVE  DeniedCount(Run(r).probes) \in Nat /\ BlockedCount(Run(r).probes) \in Nat
  <2>1. r \in DOMAIN corpus.runs
    <3>1. next \in 1 .. Len(corpus.runs) + 1 /\ Len(corpus.runs) \in Nat BY <1>0, RunsAreCounted DEF IInv, Types
    <3>2. r \in 1 .. next - 1 BY DEF Scored
    <3>3. QED BY <1>0, <3>1, <3>2, RunsAreCounted DEF IInv
  <2>2. QED BY <1>0, <2>1, CountsAssumption DEF IInv, Types
<1>1. ASSUME IInv, NEW r \in Scored, NEW p \in Range(Run(r).probes), Verdict(p) = "bypass",
             ~Unenforced(Run(r)), ~Mentioned(p.target, Ls(r))
      PROVE  Listed(r, p)
  <2> DEFINE g == [target |-> p.target, basis |-> p.basis]
             d == [run |-> r, kind |-> "unlabeled-divergence", label |-> {}, group |-> {g}]
  <2>1. g \in Groups(Run(r).probes) /\ g.target = p.target BY <1>1 DEF Groups
  <2>2. d \in Reconciled(r) BY <1>1, <2>1 DEF Reconciled, Reconcile
  <2>3. d \in disagreements BY <1>1, <2>2 DEF IInv, DisagreementsInv
  <2>4. d.run = r /\ g \in d.group OBVIOUS
  <2>5. QED BY <2>3, <2>4
<1>2. ASSUME IInv, NEW r \in Scored, Unenforced(Run(r)), DeniedCount(Run(r).probes) >= 10, NEW i \in Enforcing(r)
      PROVE  \E d \in disagreements : d.run = r /\ d.kind = "label-contradicted" /\ d.label = {i}
  <2> DEFINE denied == DeniedCount(Run(r).probes)
             blocked == BlockedCount(Run(r).probes)
             d == [run |-> r, kind |-> "label-contradicted", label |-> {i}, group |-> {}]
  <2>1. denied \in Nat /\ blocked \in Nat BY <1>0, <1>2
  <2>2. 10 * blocked < denied /\ Measured(Run(r).probes) BY <1>2 DEF Unenforced, Measured
  <2>3. 10 * blocked < 9 * denied
    <3> HIDE DEF denied, blocked
    <3>1. QED BY <2>1, <2>2
  <2>4. "label-contradicted" \in Against(Run(r), Ls(r)[i]) BY <1>2, <2>2, <2>3 DEF Against
  <2>5. d \in Reconciled(r)
    <3> DEFINE ls == Ls(r)
               compared == {j \in DOMAIN ls : AppliesTo(ls[j], Run(r).profile) /\ ls[j].label # "may"}
               of(j) == {[run |-> r, kind |-> k, label |-> {j}, group |-> {}] : k \in Against(Run(r), ls[j])}
    <3>1. d \in of(i) BY <2>4
    <3>2. i \in compared BY <1>2
    <3>3. d \in UNION {of(j) : j \in compared} BY <3>1, <3>2
    <3>4. QED BY <3>3 DEF Reconciled, Reconcile
  <2>6. d \in disagreements BY <1>2, <2>5 DEF IInv, DisagreementsInv
  <2>7. d.run = r /\ d.kind = "label-contradicted" /\ d.label = {i} OBVIOUS
  <2>8. QED BY <2>6, <2>7
<1>3. ASSUME IInv, NEW r \in Scored, Unenforced(Run(r)), DeniedCount(Run(r).probes) < 10
      PROVE  ~Run(r).enforces
  <2>1. ~(DeniedCount(Run(r).probes) >= 10) BY <1>0, <1>3
  <2>2. QED BY <1>3, <2>1 DEF Unenforced, Measured
<1>4. ASSUME IInv, NEW r \in Scored, NEW p \in Range(Run(r).probes), Verdict(p) = "bypass"
      PROVE  \/ Listed(r, p) \/ Mentioned(p.target, Ls(r))
             \/ IF DeniedCount(Run(r).probes) < 10 THEN ~Run(r).enforces
                ELSE \A i \in Enforcing(r) :
                        \E d \in disagreements : d.run = r /\ d.kind = "label-contradicted" /\ d.label = {i}
  <2>1. DeniedCount(Run(r).probes) < 10 \/ DeniedCount(Run(r).probes) >= 10 BY <1>0, <1>4
  <2> HIDE DEF Listed, Enforcing
  <2>2. QED BY <1>1, <1>2, <1>3, <1>4, <2>1
<1>5. IInv => NothingIsSwallowed BY <1>4 DEF NothingIsSwallowed
<1>6. QED BY <1>5, Invariant, PTL

-----------------------------------------------------------------------------
(* What a scenario inherits.  Scenarios are visited in any order, and while    *)
(* one is not visited its labels are its own, as are always those of a         *)
(* scenario without a base.                                                    *)

\* What a label file and a manifest leave to a mutation.
Due(base, name) ==
  Range(Own(name)) \union
    {[l EXCEPT !.from = base] :
        l \in {k \in Range(Own(base)) :
                /\ \A o \in Range(Own(name)) : o.class # k.class \/ o.subject # k.subject
                /\ \A d \in ChangedLast(base, name) : Key(d) # Key(k.subject)}}

LabelsInv ==
  /\ pc \in {"score", "done"} => todo = {}
  /\ \A name \in Names :
        /\ DOMAIN labels[name] \subseteq Nat \ {0}
        /\ name \in todo \/ BaseOf(name, Names) = {} => labels[name] = Own(name)
        /\ NoChains =>
              name \in todo \/ \A base \in BaseOf(name, Names) : Range(labels[name]) = Due(base, name)

LEMMA OwnPlaces ==
  ASSUME corpus \in Corpora, NEW name \in Names
  PROVE  Len(corpus.labels[name]) \in Nat /\ DOMAIN Own(name) \subseteq 1 .. Len(corpus.labels[name])
<1>1. corpus.labels[name] \in Seq(Range(corpus.labels[name])) BY FilesAssumption DEF Names
<1>2. DOMAIN corpus.labels[name] = 1 .. Len(corpus.labels[name]) /\ Len(corpus.labels[name]) \in Nat BY <1>1
<1>3. QED BY <1>2 DEF Own

\* The longest labelled name that a name continues is one.
LEMMA OneBase ==
  ASSUME corpus \in Corpora, NEW name \in Names, NEW b \in BaseOf(name, Names), NEW c \in BaseOf(name, Names)
  PROVE  b = c
<1>1. b \in Names /\ c \in Names /\ IsPrefix(b, name) /\ IsPrefix(c, name) BY DEF BaseOf, IsStrictPrefix
<1>2. b \in Seq(Range(b)) /\ c \in Seq(Range(c)) BY <1>1, FilesAssumption DEF Names
<1>3. Len(b) = Len(c) BY <1>2 DEF BaseOf
<1>4. SubSeq(b, 1, Len(b)) = SubSeq(c, 1, Len(c)) BY <1>1, <1>3 DEF IsPrefix
<1>5. QED BY <1>2, <1>4

\* The object of a name is the last one that has it.
LEMMA ObjectsAre ==
  ASSUME NEW file, NEW k
  PROVE  Object(file, k) = {o \in LastNamed(file) : Key(o) = k}
BY DEF Object, LastNamed

LEMMA MutatedAreChanged ==
  ASSUME NEW base, NEW name, NEW k
  PROVE  k \in MutatedObjects(corpus.manifests[base], corpus.manifests[name])
            <=> \E d \in ChangedLast(base, name) : Key(d) = k
<1> DEFINE a == corpus.manifests[base]
           b == corpus.manifests[name]
<1>1. Object(a, k) = {o \in LastNamed(a) : Key(o) = k} BY ObjectsAre
<1>2. Object(b, k) = {o \in LastNamed(b) : Key(o) = k} BY ObjectsAre
<1>3. Object(a, k) # Object(b, k) <=> \E d \in ChangedLast(base, name) : Key(d) = k
  BY <1>1, <1>2 DEF ChangedLast, Differ
<1>4. LastNamed(a) \subseteq Range(a) /\ LastNamed(b) \subseteq Range(b) BY DEF LastNamed, Range
<1>5. (\E d \in ChangedLast(base, name) : Key(d) = k) => \E o \in Range(a) \union Range(b) : Key(o) = k
  BY <1>4 DEF ChangedLast, Differ
<1>6. QED BY <1>3, <1>5 DEF MutatedObjects

LEMMA AppendedRange ==
  ASSUME NEW own, NEW more, NEW last \in Nat, DOMAIN own \subseteq 1 .. last, DOMAIN more \subseteq Nat \ {0}
  PROVE  /\ Range(Appended(own, more, last)) = Range(own) \union Range(more)
         /\ DOMAIN Appended(own, more, last) \subseteq Nat \ {0}
<1> DEFINE all == Appended(own, more, last)
<1>1. DOMAIN all = DOMAIN own \union {last + j : j \in DOMAIN more} BY DEF Appended
<1>2. \A i \in DOMAIN own : all[i] = own[i] BY DEF Appended
<1>3. \A j \in DOMAIN more : last + j \notin DOMAIN own /\ (last + j) - last = j OBVIOUS
<1>4. \A j \in DOMAIN more : last + j \in DOMAIN all /\ all[last + j] = more[j] BY <1>3 DEF Appended
<1> HIDE DEF all
<1>5. Range(all) = Range(own) \union Range(more) BY <1>1, <1>2, <1>4 DEF Range
<1>6. DOMAIN all \subseteq Nat \ {0} BY <1>1
<1>7. QED BY <1>5, <1>6 DEF all

\* What a visit carries over is what is due.
LEMMA CarriedIsDue ==
  ASSUME corpus \in Corpora, NEW base \in Names, NEW name \in Names,
         labels[name] = Own(name), labels[base] = Own(base)
  PROVE  Range(Own(name)) \union Range(Inherited(base, name)) = Due(base, name)
<1> DEFINE mutated == MutatedObjects(corpus.manifests[base], corpus.manifests[name])
           places == {j \in DOMAIN Own(base) : Carried(Own(name), mutated, Own(base)[j])}
           left == {k \in Range(Own(base)) :
                      /\ \A o \in Range(Own(name)) : o.class # k.class \/ o.subject # k.subject
                      /\ \A d \in ChangedLast(base, name) : Key(d) # Key(k.subject)}
<1>0. \A k : k \in mutated <=> \E d \in ChangedLast(base, name) : Key(d) = k
  BY MutatedAreChanged
<1>1. \A l : Carried(Own(name), mutated, l) <=>
                /\ \A o \in Range(Own(name)) : o.class # l.class \/ o.subject # l.subject
                /\ \A d \in ChangedLast(base, name) : Key(d) # Key(l.subject)
  <2> HIDE DEF mutated, places, left
  <2> TAKE l
  <2>1. Key(l.subject) \in mutated <=> \E d \in ChangedLast(base, name) : Key(d) = Key(l.subject)
    BY <1>0
  <2>2. (\A i \in DOMAIN Own(name) : SubjectKey(Own(name)[i]) # SubjectKey(l)) <=>
           \A o \in Range(Own(name)) : o.class # l.class \/ o.subject # l.subject
    BY DEF SubjectKey, Range
  <2>3. QED BY <2>1, <2>2 DEF Carried
<1>2. left = {Own(base)[j] : j \in places}
  <2> HIDE DEF mutated
  <2>1. QED BY <1>1 DEF Range
<1>3. Inherited(base, name) = [i \in places |-> [Own(base)[i] EXCEPT !.from = base]] BY DEF Inherited
<1> HIDE DEF places, left
<1>4. Range(Inherited(base, name)) = {[l EXCEPT !.from = base] : l \in left} BY <1>2, <1>3 DEF Range
<1>5. QED BY <1>4 DEF Due, left

LEMMA VisitStep ==
  ASSUME Types, LabelsInv, NEW name \in todo, Visit(name)
  PROVE  LabelsInv'
<1> DEFINE base == CHOOSE b \in BaseOf(name, Names) : TRUE
           more == Inherited(base, name)
           last == Len(corpus.labels[name])
<1>1. /\ corpus' = corpus /\ Names' = Names /\ DOMAIN labels = Names /\ name \in Names
      /\ pc = "inherit" /\ pc' = pc /\ todo' = todo \ {name}
  BY DEF Visit, Types, Names
<1>2. \A n : Own(n)' = Own(n) BY <1>1 DEF Own
<1>3. NoChains' = NoChains BY <1>1 DEF NoChains, Names
<1>4. \A b, n : Due(b, n)' = Due(b, n) BY <1>1, <1>2 DEF Due, ChangedLast
<1>5. \A n : BaseOf(n, Names)' = BaseOf(n, Names) BY <1>1 DEF BaseOf
<1>6. \A n \in Names \ {name} : labels'[n] = labels[n] BY <1>1 DEF Visit
<1>7. labels[name] = Own(name) BY <1>1 DEF LabelsInv
<1>8. CASE BaseOf(name, Names) = {}
  <2>1. labels'[name] = labels[name] BY <1>1, <1>8 DEF Visit
  <2>2. ASSUME NEW n \in Names
        PROVE  /\ DOMAIN labels'[n] \subseteq Nat \ {0}
               /\ n \in todo' \/ BaseOf(n, Names) = {} => labels'[n] = Own(n)
               /\ NoChains =>
                     n \in todo' \/ \A b \in BaseOf(n, Names) : Range(labels'[n]) = Due(b, n)
    BY <1>1, <1>6, <1>8, <2>1 DEF LabelsInv
  <2>3. QED BY <1>1, <1>2, <1>3, <1>4, <1>5, <2>2 DEF LabelsInv
<1>9. CASE BaseOf(name, Names) # {}
  <2>1. base \in BaseOf(name, Names) /\ base \in Names BY <1>9 DEF BaseOf
  <2>2. labels'[name] = Appended(Own(name), more, last) BY <1>1, <1>7, <1>9 DEF Visit
  <2>3. last \in Nat /\ DOMAIN Own(name) \subseteq 1 .. last BY <1>1, OwnPlaces DEF Types
  <2>4. DOMAIN more \subseteq Nat \ {0} BY <2>1 DEF LabelsInv, Inherited
  <2>5. /\ Range(labels'[name]) = Range(Own(name)) \union Range(more)
        /\ DOMAIN labels'[name] \subseteq Nat \ {0}
    <3> HIDE DEF more, last
    <3>1. QED BY <2>2, <2>3, <2>4, AppendedRange
  <2>6. ASSUME NoChains, NEW b \in BaseOf(name, Names)
        PROVE  Range(labels'[name]) = Due(b, name)
    <3>1. b = base BY <1>1, <2>1, OneBase DEF Types
    <3>2. BaseOf(base, Names) = {} BY <1>1, <2>1, <2>6 DEF NoChains
    <3>3. labels[base] = Own(base) BY <2>1, <3>2 DEF LabelsInv
    <3>4. Range(Own(name)) \union Range(more) = Due(base, name)
      <4> HIDE DEF base
      <4>1. QED BY <1>1, <1>7, <2>1, <2>6, <3>3, CarriedIsDue DEF Types
    <3>5. QED BY <2>5, <3>1, <3>4
  <2>7. ASSUME NEW n \in Names
        PROVE  /\ DOMAIN labels'[n] \subseteq Nat \ {0}
               /\ n \in todo' \/ BaseOf(n, Names) = {} => labels'[n] = Own(n)
               /\ NoChains =>
                     n \in todo' \/ \A b \in BaseOf(n, Names) : Range(labels'[n]) = Due(b, n)
    <3>1. CASE n = name BY <1>1, <1>9, <2>5, <2>6, <3>1
    <3>2. CASE n # name BY <1>1, <1>6, <3>2 DEF LabelsInv
    <3>3. QED BY <3>1, <3>2
  <2>8. QED BY <1>1, <1>2, <1>3, <1>4, <1>5, <2>7 DEF LabelsInv
<1>10. QED BY <1>8, <1>9

\* The labels are as far as the visits have come, in every state of a scoring.
THEOREM LabelsInvariant == Spec => []LabelsInv
<1>1. Init => LabelsInv
  <2> SUFFICES ASSUME Init PROVE LabelsInv OBVIOUS
  <2>1. corpus \in Corpora /\ pc = "inherit" /\ todo = Names BY DEF Init, Names
  <2>2. \A name \in Names : labels[name] = Own(name) BY DEF Init, Names
  <2>3. \A name \in Names : DOMAIN Own(name) \subseteq Nat \ {0} BY <2>1, OwnPlaces
  <2>4. QED BY <2>1, <2>2, <2>3 DEF LabelsInv
<1>2. Types /\ LabelsInv /\ [Next]_vars => LabelsInv'
  <2> SUFFICES ASSUME Types, LabelsInv, [Next]_vars PROVE LabelsInv' OBVIOUS
  <2>1. CASE \E name \in todo : Visit(name) BY <2>1, VisitStep
  <2>2. CASE LoadFails \/ Loaded \/ SkipHoldout \/ ScoreNext \/ Report \/ UNCHANGED vars
    <3>1. UNCHANGED <<corpus, labels, todo>> BY <2>2 DEF LoadFails, Loaded, SkipHoldout, ScoreNext, Report, vars
    <3>2. pc' \in {"score", "done"} => todo' = {}
      BY <2>2 DEF LoadFails, Loaded, SkipHoldout, ScoreNext, Report, vars, LabelsInv
    <3>3. Names' = Names /\ NoChains' = NoChains
      BY <3>1 DEF Names, NoChains
    <3>4. \A n : Own(n)' = Own(n) /\ BaseOf(n, Names)' = BaseOf(n, Names) BY <3>1, <3>3 DEF Own, BaseOf
    <3>5. \A b, n : Due(b, n)' = Due(b, n) BY <3>1, <3>4 DEF Due, ChangedLast
    <3>6. QED BY <3>1, <3>2, <3>3, <3>4, <3>5 DEF LabelsInv
  <2>3. QED BY <2>1, <2>2 DEF Next
<1>3. IInv => Types BY DEF IInv
<1>4. QED BY <1>1, <1>2, <1>3, Invariant, PTL DEF Spec

\* A mutation has its own labels and those of its base about what is not labelled
\* anew and did not change, as the last object of a name tells, in whatever order
\* the scenarios are visited (LoadLabels, labels.go:67-116, 183).
THEOREM InheritedSafe == Spec => []InheritedInAnyOrder
<1>1. LabelsInv => InheritedInAnyOrder BY DEF LabelsInv, InheritedInAnyOrder, Due
<1>2. QED BY <1>1, LabelsInvariant, PTL

-----------------------------------------------------------------------------
(* Of the labels that fit a finding one is the best.                          *)

LEMMA LeastNat ==
  ASSUME NEW T \in SUBSET Nat, T # {}
  PROVE  \E x \in T : \A y \in T : x <= y
<1> DEFINE R == OpToRel(<, Nat)
<1>1. \E x \in T : \A y \in T : <<y, x>> \notin R
  <2>1. IsWellFoundedOn(R, Nat) BY NatLessThanWellFounded
  <2> HIDE DEF R
  <2>2. QED BY <2>1, WFMin
<1>2. \A x, y \in Nat : y < x => <<y, x>> \in R BY DEF OpToRel
<1> HIDE DEF R
<1>3. PICK x \in T : \A y \in T : <<y, x>> \notin R BY <1>1
<1>4. \A y \in T : ~(y < x) BY <1>2, <1>3, Zenon
<1>5. QED BY <1>4, SMT

LEMMA BestExists ==
  ASSUME NEW f, NEW ls, NEW profile, DOMAIN ls \subseteq Nat, NEW i \in DOMAIN ls, Fits(f, ls[i], profile)
  PROVE  \E b \in BestMatch(f, ls, profile) : b \in DOMAIN ls /\ Rank(ls[b].label) >= Rank(ls[i].label)
<1> DEFINE fits == {j \in DOMAIN ls : Fits(f, ls[j], profile)}
           R(j) == Rank(ls[j].label)
<1>1. \A j : R(j) \in 0 .. 3 BY DEF Rank
<1>2. i \in fits /\ fits \subseteq Nat OBVIOUS
<1>3. \A j \in fits : j \in DOMAIN ls OBVIOUS
<1>4. \A b : b \in BestMatch(f, ls, profile) <=>
             b \in fits /\ \A j \in fits \ {b} : R(j) < R(b) \/ (R(j) = R(b) /\ b < j)
  BY DEF BestMatch
<1> HIDE DEF fits, R
<1>5. PICK m \in {3 - R(j) : j \in fits} : \A k \in {3 - R(j) : j \in fits} : m <= k
  <2>1. \A j \in fits : 3 - R(j) \in Nat BY <1>1
  <2>2. {3 - R(j) : j \in fits} \in SUBSET Nat BY <2>1
  <2>3. 3 - R(i) \in {3 - R(j) : j \in fits} BY <1>2
  <2>4. QED BY <2>2, <2>3, LeastNat
<1>6. PICK h \in fits : m = 3 - R(h) BY <1>5
<1>7. \A j \in fits : R(j) <= R(h)
  <2> TAKE j \in fits
  <2>1. 3 - R(h) <= 3 - R(j) BY <1>5, <1>6
  <2>2. QED BY <1>1, <2>1
<1> DEFINE T == {j \in fits : R(j) = R(h)}
<1>8. PICK b \in T : \A j \in T : b <= j
  <2>1. T \in SUBSET Nat /\ h \in T BY <1>2
  <2>2. QED BY <2>1, LeastNat
<1>9. b \in fits /\ R(b) = R(h) OBVIOUS
<1>10. ASSUME NEW j \in fits \ {b} PROVE R(j) < R(b) \/ (R(j) = R(b) /\ b < j)
  <2>1. R(j) <= R(b) BY <1>7, <1>9
  <2>2. CASE R(j) = R(b)
    <3>1. j \in T BY <1>9, <2>2
    <3>2. b <= j /\ b # j /\ b \in Nat /\ j \in Nat BY <1>2, <1>8, <1>9, <3>1
    <3>3. QED BY <2>2, <3>2
  <2>3. CASE R(j) # R(b)
    <3>1. R(j) \in Nat /\ R(b) \in Nat BY <1>1
    <3>2. QED BY <2>1, <2>3, <3>1
  <2>4. QED BY <2>2, <2>3
<1>11. b \in BestMatch(f, ls, profile) BY <1>4, <1>9, <1>10
<1>12. R(b) >= R(i)
  <2>1. R(i) <= R(b) BY <1>2, <1>7, <1>9
  <2>2. R(i) \in Nat /\ R(b) \in Nat BY <1>1
  <2>3. QED BY <2>1, <2>2
<1>13. QED BY <1>3, <1>9, <1>11, <1>12 DEF R

\* A finding that a may label fits is no false positive, whatever other labels
\* fit it, and what is missed is no may label (bestMatch, score.go:102-116).
THEOREM MaySafe == Spec => []MayNeverCounts
<1>1. ASSUME IInv, LabelsInv, NEW it \in items, it.outcome \in {"FN", "gap"}, NEW i \in it.label
      PROVE  LabelsFor(it)[i].label # "may"
  <2>1. it \in ScoreRun(it.run, LabelsFor(it)) BY <1>1 DEF IInv, ItemsInv
  <2>2. \A g : Outcome(LabelsFor(it), BestMatch(g, LabelsFor(it), RunOf(it).profile)) \notin {"FN", "gap"}
    BY DEF Outcome
  <2>3. \E j \in DOMAIN LabelsFor(it) : it.label = {j} /\ LabelsFor(it)[j].label = "must"
    BY <1>1, <2>1, <2>2, ItemIsMade DEF RunOf
  <2>4. QED BY <2>3
<1>2. ASSUME IInv, LabelsInv, NEW it \in items, it.outcome \in {"FP", "FP-unlabel"}, NEW f \in it.finding,
             NEW i \in DOMAIN LabelsFor(it), LabelsFor(it)[i].label = "may", Fits(f, LabelsFor(it)[i], RunOf(it).profile)
      PROVE  FALSE
  <2> DEFINE ls == LabelsFor(it)
             best == BestMatch(f, ls, RunOf(it).profile)
  <2>1. it \in ScoreRun(it.run, ls) BY <1>2 DEF IInv, ItemsInv
  <2>2. it.outcome = Outcome(ls, best)
    <3>1. \E g \in RunOf(it).findings :
             it.outcome = Outcome(ls, BestMatch(g, ls, RunOf(it).profile)) /\ it.finding = {g}
      BY <1>2, <2>1, ItemIsMade DEF RunOf
    <3> HIDE DEF ls
    <3>2. QED BY <3>1
  <2>3. DOMAIN ls \subseteq Nat
    <3>1. \A name \in DOMAIN labels : DOMAIN labels[name] \subseteq Nat BY <1>2 DEF IInv, Types, LabelsInv, Names
    <3>2. QED BY <3>1 DEF LabelsFor, LabelsOf
  <2>4. PICK b \in best : Rank(ls[b].label) >= Rank(ls[i].label) BY <1>2, <2>3, BestExists
  <2>5. \A c \in best : c = b
    <3>1. \A j, k \in best : j # k => (Rank(ls[j].label) < Rank(ls[k].label)
                                        \/ (Rank(ls[j].label) = Rank(ls[k].label) /\ k < j))
      BY DEF BestMatch
    <3>2. \A j : Rank(ls[j].label) \in Nat BY DEF Rank
    <3>3. best \subseteq Nat BY <2>3 DEF BestMatch
    <3> HIDE DEF best, ls
    <3>4. \A j, k \in best : j = k
      <4> SUFFICES ASSUME NEW j \in best, NEW k \in best, j # k PROVE FALSE OBVIOUS
      <4> DEFINE x == Rank(ls[j].label)
                 y == Rank(ls[k].label)
      <4>1. (x < y \/ (x = y /\ k < j)) /\ (y < x \/ (y = x /\ j < k)) BY <3>1
      <4>2. x \in Nat /\ y \in Nat /\ j \in Nat /\ k \in Nat BY <3>2, <3>3
      <4> HIDE DEF x, y
      <4>3. QED BY <4>1, <4>2
    <3>5. QED BY <3>4
  <2>6. ls[b].label \in {"must", "may"}
    <3>1. Rank(ls[i].label) = 2 BY <1>2 DEF Rank
    <3>2. Rank(ls[b].label) >= 2 BY <2>4, <3>1
    <3>3. QED BY <3>2 DEF Rank
  <2>7. Outcome(ls, best) \in {"TP", "may"}
    <3> HIDE DEF best, ls
    <3>1. best # {} /\ (CHOOSE c \in best : TRUE) = b BY <2>5
    <3>2. QED BY <2>6, <3>1 DEF Outcome
  <2>8. QED BY <1>2, <2>2, <2>7
<1>3. IInv /\ LabelsInv => MayNeverCounts BY <1>1, <1>2 DEF MayNeverCounts
<1>4. QED BY <1>3, Invariant, LabelsInvariant, PTL

-----------------------------------------------------------------------------
(* The experiment's table.                                                    *)

LEMMA MeasuredAreRuns ==
  ASSUME IInv, NEW run \in MeasuredRuns
  PROVE  \E r \in DOMAIN corpus.runs : run = corpus.runs[r] /\ corpus \in Corpora
<1>1. PICK r \in 1 .. next - 1 : run = corpus.runs[r] BY DEF MeasuredRuns
<1>2. next \in 1 .. Len(corpus.runs) + 1 /\ Len(corpus.runs) \in Nat /\ DOMAIN corpus.runs = 1 .. Len(corpus.runs)
  BY RunsAreCounted DEF IInv, Types
<1>3. r \in DOMAIN corpus.runs BY <1>2
<1>4. QED BY <1>1, <1>3 DEF IInv, Types

LEMMA RunsAre ==
  ASSUME IInv, NEW run \in MeasuredRuns
  PROVE  /\ IsFiniteSet(run.findings) /\ \A f \in run.findings : f.class \in Implemented
         /\ run.probes \in Seq(Range(run.probes))
         /\ \A p \in Range(run.probes) :
              /\ p.basis # "not-enforced" /\ {"ns", "svc", "name"} \subseteq DOMAIN p.target
              /\ p.target.name \in Seq(Range(p.target.name))
         /\ DeniedCount(run.probes) \in Nat /\ BlockedCount(run.probes) \in Nat
<1>1. PICK r \in DOMAIN corpus.runs : run = corpus.runs[r] /\ corpus \in Corpora BY MeasuredAreRuns
<1>2. run \in Range(corpus.runs) BY <1>1 DEF Range
<1>3. DeniedCount(run.probes) \in Nat /\ BlockedCount(run.probes) \in Nat BY <1>1, CountsAssumption
<1>4. QED BY <1>1, <1>2, <1>3, RunsAssumption

\* What a run's divergences are.
Key2(run, i) == <<GroupTarget(run, run.probes[i].target), run.probes[i].basis>>
GroupOf(run, i) ==
  [target |-> {Key2(run, i)[1]}, basis |-> Key2(run, i)[2],
   probes |-> {j \in Bypasses(run) : Key2(run, j) = Key2(run, i)}]
WholeRun(run) == [target |-> {}, basis |-> "not-enforced", probes |-> Bypasses(run)]

LEMMA DivergencesAre ==
  ASSUME NEW run
  PROVE  /\ Bypasses(run) # {} /\ unenforced(run) => divergences(run) = {WholeRun(run)}
         /\ ~unenforced(run) => divergences(run) = {GroupOf(run, i) : i \in Bypasses(run)}
         /\ Bypasses(run) = {} => divergences(run) = {}
<1>1. {[target |-> {k[1]}, basis |-> k[2], probes |-> {i \in Bypasses(run) : Key2(run, i) = k}] :
          k \in {Key2(run, i) : i \in Bypasses(run)}} = {GroupOf(run, i) : i \in Bypasses(run)}
  BY DEF GroupOf
<1>2. Bypasses(run) = {} => {GroupOf(run, i) : i \in Bypasses(run)} = {} OBVIOUS
<1>3. QED BY <1>1, <1>2 DEF divergences, WholeRun, Key2

\* A finding and the divergence that it explains are of one class.
LEMMA ExplainsItsClass ==
  ASSUME NEW f, NEW d, explains(f, d), f.class \in Implemented
  PROVE  classOf(d) = {f.class}
BY DEF explains, classOf, Implemented

LEMMA DivergencesAreFinite ==
  ASSUME IInv, NEW run \in MeasuredRuns
  PROVE  IsFiniteSet(divergences(run))
<1>1. run.probes \in Seq(Range(run.probes)) BY RunsAre
<1>2. DOMAIN run.probes = 1 .. Len(run.probes) /\ Len(run.probes) \in Nat BY <1>1
<1>3. IsFiniteSet(DOMAIN run.probes) BY <1>2, FS_Interval
<1>4. Bypasses(run) \subseteq DOMAIN run.probes BY DEF Bypasses
<1>5. IsFiniteSet(Bypasses(run)) BY <1>3, <1>4, FS_Subset
<1> DEFINE groups == {GroupOf(run, i) : i \in Bypasses(run)}
           group == [i \in Bypasses(run) |-> GroupOf(run, i)]
<1>6. group \in Surjection(Bypasses(run), groups) BY DEF Surjection
<1>7. IsFiniteSet(groups) BY <1>5, <1>6, FS_Surjection
<1>8. IsFiniteSet({}) /\ IsFiniteSet({WholeRun(run)}) BY FS_EmptySet, FS_Singleton
<1>9. QED BY <1>7, <1>8, DivergencesAre

LEMMA Counted ==
  ASSUME NEW S, IsFiniteSet(S)
  PROVE  Cardinality(S) > 0 <=> S # {}
<1>1. Cardinality(S) \in Nat /\ (Cardinality(S) = 0 <=> S = {}) BY FS_CardinalityType, FS_EmptySet
<1>2. QED BY <1>1

\* Precision and recall of a class are above zero together, and each bypass is
\* counted once, although findings and divergences get their classes by
\* different functions (exp1/main.go:107-145, 351-373).
THEOREM TalliesSafe == Spec => []TalliesAgree
<1>1. ASSUME IInv, NEW run \in MeasuredRuns, NEW class \in Implemented \union {"all"}
      PROVE  Tally(run, class).TP > 0 <=> Tally(run, class).Covered > 0
  <2> DEFINE found == {f \in {g \in run.findings : class \in {g.class, "all"}} : TruePositive(run, f)}
             covered == {d \in {e \in divergences(run) : class \in classOf(e) \union {"all"}} : Covered(run, d)}
  <2>1. found \subseteq run.findings /\ covered \subseteq divergences(run) OBVIOUS
  <2>2. IsFiniteSet(run.findings) /\ IsFiniteSet(divergences(run)) BY <1>1, RunsAre, DivergencesAreFinite
  <2>3. IsFiniteSet(found) /\ IsFiniteSet(covered) BY <2>1, <2>2, FS_Subset
  <2>4. \A f \in run.findings : f.class \in Implemented BY <1>1, RunsAre
  <2>5. \A f \in run.findings : \A d \in divergences(run) : explains(f, d) =>
           (class \in {f.class, "all"} <=> class \in classOf(d) \union {"all"})
    BY <2>4, ExplainsItsClass
  <2>6. found # {} <=> covered # {} BY <2>5 DEF TruePositive, Covered
  <2>7. Tally(run, class).TP = Cardinality(found) /\ Tally(run, class).Covered = Cardinality(covered) BY DEF Tally
  <2> HIDE DEF found, covered
  <2>8. QED BY <2>3, <2>6, <2>7, Counted
<1>2. ASSUME IInv, NEW run \in MeasuredRuns, NEW i \in Bypasses(run)
      PROVE  Cardinality({d \in divergences(run) : i \in d.probes}) = 1
  <2>1. \E d : {e \in divergences(run) : i \in e.probes} = {d}
    <3>1. CASE unenforced(run)
      <4>1. divergences(run) = {WholeRun(run)} BY <3>1, DivergencesAre
      <4>2. i \in WholeRun(run).probes BY DEF WholeRun
      <4>3. QED BY <4>1, <4>2
    <3>2. CASE ~unenforced(run)
      <4>1. divergences(run) = {GroupOf(run, j) : j \in Bypasses(run)} BY <3>2, DivergencesAre
      <4>2. \A j : i \in GroupOf(run, j).probes <=> Key2(run, i) = Key2(run, j) BY DEF GroupOf
      <4>3. \A j : Key2(run, i) = Key2(run, j) => GroupOf(run, i) = GroupOf(run, j) BY DEF GroupOf
      <4>4. QED BY <4>1, <4>2, <4>3
    <3>3. QED BY <3>1, <3>2
  <2>2. QED BY <2>1, FS_Singleton
<1>3. IInv => TalliesAgree BY <1>1, <1>2 DEF TalliesAgree
<1>4. QED BY <1>3, Invariant, PTL

\* The probe behind a divergence that a finding about node addresses explains is
\* one that hack/score counts for the finding's object.
LEMMA ExplainedIsMatched ==
  ASSUME IInv, NEW run \in MeasuredRuns, NamesContinue(run), NEW f, NEW d \in divergences(run),
         d.basis = "undefined-snat", NEW t \in d.target, targetMatches(t, f.object)
  PROVE  ~Unenforced(run) /\ SnatBypasses(run.probes, f.object) # {}
<1>1. ~unenforced(run) /\ Bypasses(run) # {}
  <2>1. WholeRun(run).target = {} BY DEF WholeRun
  <2>2. QED BY <2>1, DivergencesAre
<1>2. PICK i \in Bypasses(run) : d = GroupOf(run, i) BY <1>1, DivergencesAre
<1> DEFINE p == run.probes[i]
<1>3. p.basis = "undefined-snat" /\ t = GroupTarget(run, p.target) BY <1>2 DEF GroupOf, Key2
<1>4. p \in Range(run.probes) /\ Verdict(p) = "bypass" BY DEF Bypasses, Range
<1>5. {"ns", "svc", "name"} \subseteq DOMAIN p.target /\ p.target.name \in Seq(Range(p.target.name)) BY <1>4, RunsAre
<1> HIDE DEF p
<1>6. TargetMatches(p.target, f.object)
  <2> DEFINE pods == {q \in Range(run.pods) : ~p.target.svc /\ q.ns = p.target.ns /\ q.name = p.target.name}
             pod == CHOOSE q \in pods : TRUE
  <2>1. t = [p.target EXCEPT !.name = IF pods = {} THEN @ ELSE workloadName(pod)] BY <1>3 DEF GroupTarget
  <2>2. /\ t.ns = p.target.ns /\ t.svc = p.target.svc
        /\ t.name = IF pods = {} THEN p.target.name ELSE workloadName(pod)
    <3> HIDE DEF pods, pod
    <3>1. QED BY <1>5, <2>1
  <2>3. t.ns = f.object.ns /\ t.name = f.object.name BY DEF targetMatches
  <2>4. CASE pods = {}
    <3>1. IsPrefix(p.target.name, p.target.name) BY <1>5 DEF IsPrefix
    <3>2. t.name = p.target.name BY <2>2, <2>4
    <3> HIDE DEF pods, pod
    <3>3. QED BY <2>2, <2>3, <3>1, <3>2 DEF TargetMatches
  <2>5. CASE pods # {}
    <3>1. pod \in pods BY <2>5
    <3>2. ~p.target.svc /\ pod \in Range(run.pods) /\ pod.name = p.target.name BY <3>1
    <3> HIDE DEF pods, pod
    <3>3. IsPrefix(t.name, p.target.name) BY <2>2, <2>5, <3>2 DEF NamesContinue
    <3>4. QED BY <2>2, <2>3, <3>2, <3>3 DEF TargetMatches
  <2>6. QED BY <2>4, <2>5
<1>7. p \in SnatBypasses(run.probes, f.object) BY <1>3, <1>4, <1>6 DEF SnatBypasses
<1>8. QED BY <1>1, <1>7 DEF unenforced, Unenforced, Measured

\* A divergence of a whole run is of one in which little was blocked.
LEMMA WholeIsUnenforced ==
  ASSUME IInv, NEW run \in MeasuredRuns, NEW d \in divergences(run), d.basis = "not-enforced", Measured(run.probes)
  PROVE  10 * BlockedCount(run.probes) < DeniedCount(run.probes)
<1>1. unenforced(run)
  <2> SUFFICES ASSUME ~unenforced(run) PROVE FALSE OBVIOUS
  <2>1. PICK i \in Bypasses(run) : d = GroupOf(run, i) BY DivergencesAre
  <2>2. run.probes[i].basis = "not-enforced" BY <2>1 DEF GroupOf, Key2
  <2>3. run.probes[i] \in Range(run.probes) BY DEF Bypasses, Range
  <2>4. QED BY <2>2, <2>3, RunsAre
<1>2. QED BY <1>1 DEF unenforced, Measured

\* What the experiment calls a true positive a must label says with support, and
\* a must-not label against the probes (exp1/main.go:323-402, oracle.go:42-137).
THEOREM ExperimentSafe == Spec => []ExperimentAgreesWithScore
<1>1. ASSUME IInv, NEW run \in MeasuredRuns, NEW f \in run.findings, NamesContinue(run), TruePositive(run, f),
             NEW value \in {"must", "must-not"},
             NEW l, l = [class |-> f.class, subject |-> f.object, label |-> value]
      PROVE  /\ value = "must" => Against(run, l) = {}
             /\ value = "must-not" /\ f.class = "ipblock-admits-node-ips" => Against(run, l) = {"label-contradicted"}
             /\ value = "must-not" /\ f.class = "cni-not-enforcing" /\ Measured(run.probes) =>
                   Against(run, l) = {"label-contradicted"}
  <2>1. PICK d \in divergences(run) : explains(f, d) BY <1>1 DEF TruePositive
  <2>2. l.class = f.class /\ l.subject = f.object /\ l.label = value BY <1>1
  <2>3. f.class \in Implemented BY <1>1, RunsAre
  <2> DEFINE denied == DeniedCount(run.probes)
             blocked == BlockedCount(run.probes)
  <2>4. denied \in Nat /\ blocked \in Nat BY <1>1, RunsAre
  <2>5. CASE f.class = "cni-not-enforcing"
    <3>1. Measured(run.probes) => 10 * blocked < denied BY <1>1, <2>1, <2>5, WholeIsUnenforced DEF explains
    <3>2. Measured(run.probes) => ~(10 * blocked > denied) /\ 10 * blocked < 9 * denied
      <4> HIDE DEF denied, blocked
      <4>1. QED BY <2>4, <3>1
    <3>3. QED BY <2>2, <2>5, <3>2 DEF Against
  <2>6. CASE f.class = "ipblock-admits-node-ips"
    <3>1. ~Unenforced(run) /\ SnatBypasses(run.probes, f.object) # {}
      BY <1>1, <2>1, <2>6, ExplainedIsMatched DEF explains
    <3>2. QED BY <2>2, <2>6, <3>1 DEF Against
  <2>7. CASE f.class = "hostnetwork-under-policy" BY <2>2, <2>7 DEF Against
  <2>8. QED BY <2>3, <2>5, <2>6, <2>7 DEF Implemented
<1>2. IInv => ExperimentAgreesWithScore BY <1>1 DEF ExperimentAgreesWithScore
<1>3. QED BY <1>2, Invariant, PTL

=============================================================================
