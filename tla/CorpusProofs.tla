---------------------------- MODULE CorpusProofs ----------------------------
(* What is read together was written together, and what reclassify leaves is  *)
(* what an oracle of today would write, for any directories and measurements. *)
EXTENDS Corpus, TLAPS, FiniteSetTheorems, SequenceTheorems

-----------------------------------------------------------------------------
(* Reading stored outcomes anew.                                              *)

\* The best outcome is one of those seen, or error, and none is better.
LEMMA BestIsBest ==
  ASSUME NEW S \in SUBSET Outcomes
  PROVE  /\ BestOutcome(S) \in S \union {"error"}
         /\ \A q \in S \union {"error"} : rank[q] <= rank[BestOutcome(S)]
<1> DEFINE IsBest(o) == \A q \in S \union {"error"} : rank[q] <= rank[o]
<1>1. \E o \in S \union {"error"} : IsBest(o)
  <2> USE DEF Outcomes, RawOutcomes, rank
  <2>1. CASE "open" \in S BY <2>1
  <2>2. CASE "open" \notin S /\ "refused" \in S BY <2>2
  <2>3. CASE "open" \notin S /\ "refused" \notin S /\ "node-refused" \in S BY <2>3
  <2>4. CASE S \subseteq {"timeout", "error"} /\ "timeout" \in S BY <2>4
  <2>5. CASE S \subseteq {"error"} BY <2>5
  <2>6. QED BY <2>1, <2>2, <2>3, <2>4, <2>5
<1>2. BestOutcome(S) = CHOOSE o \in S \union {"error"} : IsBest(o) BY DEF BestOutcome
<1>3. QED BY <1>1, <1>2

\* No two outcomes have one rank.
LEMMA RankIsInjective ==
  ASSUME NEW o \in Outcomes, NEW p \in Outcomes, rank[o] <= rank[p], rank[p] <= rank[o]
  PROVE  o = p
BY DEF Outcomes, RawOutcomes, rank

\* What the oracle can answer keeps its order when it is read for a target.
LEMMA AtTargetKeepsOrder ==
  ASSUME NEW kind, NEW o \in RawOutcomes, NEW p \in RawOutcomes, rank[o] <= rank[p]
  PROVE  rank[AtTarget(kind, o)] <= rank[AtTarget(kind, p)]
BY DEF RawOutcomes, Outcomes, rank, AtTarget

\* The best outcome, read for a target, is the best of those read for it.
LEMMA AtTargetOfBest ==
  ASSUME NEW kind, NEW S \in SUBSET RawOutcomes
  PROVE  AtTarget(kind, BestOutcome(S)) = BestOutcome({AtTarget(kind, o) : o \in S})
<1> DEFINE R == {AtTarget(kind, o) : o \in S}
           b == BestOutcome(S)
           c == BestOutcome(R)
<1>1. R \in SUBSET Outcomes /\ S \in SUBSET Outcomes BY DEF AtTarget, Outcomes, RawOutcomes
<1>2. b \in S \union {"error"} /\ \A q \in S \union {"error"} : rank[q] <= rank[b]
  BY <1>1, BestIsBest
<1>3. c \in R \union {"error"} /\ \A q \in R \union {"error"} : rank[q] <= rank[c]
  <2> HIDE DEF R
  <2> QED BY <1>1, BestIsBest
<1>4. AtTarget(kind, "error") = "error" BY DEF AtTarget
<1>5. "error" \in RawOutcomes BY DEF RawOutcomes
<1>6. AtTarget(kind, b) \in R \union {"error"} BY <1>2, <1>4
<1>7. PICK o \in S \union {"error"} : c = AtTarget(kind, o) BY <1>3, <1>4
<1>8. rank[AtTarget(kind, b)] <= rank[c] BY <1>3, <1>6
<1>9. rank[c] <= rank[AtTarget(kind, b)]
  BY <1>2, <1>5, <1>7, AtTargetKeepsOrder
<1>10. c \in Outcomes /\ AtTarget(kind, b) \in Outcomes BY <1>1, <1>3, <1>6 DEF Outcomes, RawOutcomes
<1> HIDE DEF R, b, c
<1>11. AtTarget(kind, b) = c BY <1>8, <1>9, <1>10, RankIsInjective
<1>12. QED BY <1>11 DEF R, b, c

\* To read for a target what was read for it changes nothing.
LEMMA AtTargetTwice ==
  ASSUME NEW kind, NEW o
  PROVE  AtTarget(kind, AtTarget(kind, o)) = AtTarget(kind, o)
BY DEF AtTarget

Attempts(m) ==
  /\ {m.raw[a] : a \in DOMAIN m.raw} \in SUBSET RawOutcomes
  /\ {m.baseRaw[a] : a \in DOMAIN m.baseRaw} \in SUBSET RawOutcomes

LEMMA MeasuredAttempts == ASSUME NEW m \in Measurements PROVE Attempts(m)
BY CorpusAssumption DEF Attempts, Range

\* collect is AtTarget of the best raw outcome.
LEMMA CollectIsAtTarget ==
  ASSUME NEW kind, NEW raw, {raw[a] : a \in DOMAIN raw} \in SUBSET RawOutcomes
  PROVE  CollectBest(kind, raw) = AtTarget(kind, Best(raw))
<1> DEFINE S == {raw[a] : a \in DOMAIN raw}
<1>1. {AtTarget(kind, o) : o \in S} = {AtTarget(kind, raw[a]) : a \in DOMAIN raw} OBVIOUS
<1>2. CollectBest(kind, raw) = BestOutcome({AtTarget(kind, o) : o \in S}) BY <1>1 DEF CollectBest
<1>3. AtTarget(kind, BestOutcome(S)) = BestOutcome({AtTarget(kind, o) : o \in S})
  <2> HIDE DEF S
  <2> QED BY AtTargetOfBest, {raw[a] : a \in DOMAIN raw} \in SUBSET RawOutcomes DEF S
<1>4. QED BY <1>2, <1>3 DEF Best

Readings(m) == {Reading(m)} \union {OldReading(m, v) : v \in OldVerdicts}

\* Read anew, what an oracle of today or an earlier one wrote of a measurement is
\* what one of today writes (reclassify, collect).
THEOREM RereadingIsExact ==
  ASSUME NEW m \in Measurements, NEW r \in Readings(m)
  PROVE  Reread(m, r) = Reading(m)
<1>1. Attempts(m) BY MeasuredAttempts
<1>2. CollectBest(m.kind, m.raw) = AtTarget(m.kind, Best(m.raw)) BY <1>1, CollectIsAtTarget DEF Attempts
<1>3. CollectBest(m.kind, m.baseRaw) = AtTarget(m.kind, Best(m.baseRaw)) BY <1>1, CollectIsAtTarget DEF Attempts
<1>4. AtTarget(m.kind, r.effective) = CollectBest(m.kind, m.raw)
  <2>1. CASE r = Reading(m) BY <2>1, <1>2, AtTargetTwice DEF Reading
  <2>2. CASE \E v \in OldVerdicts : r = OldReading(m, v) BY <2>2, <1>2 DEF OldReading
  <2>3. QED BY <2>1, <2>2 DEF Readings
<1>5. AtTarget(m.kind, r.baseline) = CollectBest(m.kind, m.baseRaw)
  <2>1. CASE r = Reading(m) BY <2>1, <1>3, AtTargetTwice DEF Reading
  <2>2. CASE \E v \in OldVerdicts : r = OldReading(m, v) BY <2>2, <1>3 DEF OldReading
  <2>3. QED BY <2>1, <2>2 DEF Readings
<1>6. QED BY <1>4, <1>5 DEF Reread, Reading

-----------------------------------------------------------------------------
(* The inductive invariant.                                                   *)

Gone == {NoFile, Torn}
ReadingSet == [effective : Outcomes, baseline : Outcomes, verdict : Verdicts \union OldVerdicts]
ReachSet == [run : Int, reading : ReadingSet]

Types ==
  /\ unfit \subseteq Dirs /\ dirs \subseteq Dirs /\ touched \subseteq Dirs /\ mixed \subseteq Dirs
  /\ data \in Seq(Measurements) /\ Len(data) <= MaxRuns
  /\ snapshot \in [Dirs -> DOMAIN data \union Gone]
  /\ reach \in [Dirs -> ReachSet]
  /\ writer \in [Dirs -> [at : Stages, run : Int]]
  /\ tool \in [kind : {"none", "read", "reclassify"}, pc : {"idle", "load", "rewrite", "done"},
               todo : SUBSET Dirs, dir : SUBSET Dirs]
  /\ loaded \in [DOMAIN loaded -> [snapshot : Int, reach : ReachSet]] /\ DOMAIN loaded \subseteq Dirs
  /\ tools \in 0 .. MaxTools

\* A file is the reading of a run.
Whole(f) == f.run \in DOMAIN data /\ f.reading \in Readings(data[f.run])

Files == \A d \in Dirs : reach[d].run \notin Gone => Whole(reach[d])

\* What a writer is at, a tool may notice; its snapshot is there until it ends.
Writers ==
  \A d \in Dirs :
    /\ writer[d].at # "idle" => d \in touched /\ writer[d].run \in DOMAIN data
    /\ writer[d].at \in {"between", "reach"} => snapshot[d] = writer[d].run

\* The files of a directory are of one run unless an oracle is between them.
Pairs ==
  \A d \in Dirs \ mixed :
    snapshot[d] \notin Gone /\ reach[d].run \notin Gone => snapshot[d] = reach[d].run

\* The directory of which only the snapshot was read.
Half == IF tool.pc = "load" THEN tool.dir ELSE {}

\* What is in the tool's memory is there on disk, where nobody else was.
Held ==
  tool.pc # "idle" => \A d \in DOMAIN loaded :
    /\ loaded[d].snapshot \notin Gone
    /\ d \notin touched => loaded[d].snapshot = snapshot[d]
    /\ d \notin Half => Whole(loaded[d].reach)
    /\ d \notin Half \union touched \union mixed => loaded[d].snapshot = loaded[d].reach.run
    /\ tool.pc = "load" /\ d \notin Half \union touched => reach[d] = loaded[d].reach

\* What reclassify has left to rewrite; the rest is exact.
Rewriting ==
  /\ tool.pc = "load" => tool.dir \subseteq tool.todo \intersect DOMAIN loaded
  /\ tool.pc = "rewrite" => /\ tool.kind = "reclassify" /\ tool.dir \subseteq tool.todo
                            /\ tool.todo \subseteq DOMAIN loaded
  /\ tool.pc = "done" /\ tool.kind = "reclassify" => tool.todo = {}
  /\ tool.pc \in {"rewrite", "done"} /\ tool.kind = "reclassify" =>
        \A d \in DOMAIN loaded \ (touched \union tool.todo) :
          reach[d].run \in DOMAIN data /\ reach[d].reading = Reading(data[reach[d].run])

IInv == Types /\ Files /\ Writers /\ Pairs /\ Held /\ Rewriting

-----------------------------------------------------------------------------
(* Types of readings.                                                         *)

LEMMA BestIsOutcome == ASSUME NEW S \in SUBSET Outcomes PROVE BestOutcome(S) \in Outcomes
BY BestIsBest DEF Outcomes, RawOutcomes

LEMMA ClassifyIsVerdict ==
  ASSUME NEW declared, NEW basis, NEW effective, NEW baseline
  PROVE  Classify(declared, basis, effective, baseline) \in Verdicts
BY DEF Classify, Verdicts

LEMMA CollectIsOutcome ==
  ASSUME NEW kind, NEW raw, {raw[a] : a \in DOMAIN raw} \in SUBSET RawOutcomes
  PROVE  CollectBest(kind, raw) \in Outcomes /\ Best(raw) \in Outcomes
<1>1. {AtTarget(kind, raw[a]) : a \in DOMAIN raw} \in SUBSET Outcomes BY DEF AtTarget, Outcomes, RawOutcomes
<1>2. {raw[a] : a \in DOMAIN raw} \in SUBSET Outcomes BY DEF Outcomes
<1>3. BestOutcome({AtTarget(kind, raw[a]) : a \in DOMAIN raw}) \in Outcomes BY <1>1, BestIsOutcome
<1>4. BestOutcome({raw[a] : a \in DOMAIN raw}) \in Outcomes BY <1>2, BestIsOutcome
<1>5. QED BY <1>3, <1>4 DEF CollectBest, Best

LEMMA ReadingsAreTyped ==
  ASSUME NEW m \in Measurements
  PROVE  Readings(m) \subseteq ReadingSet
<1>1. Attempts(m) BY MeasuredAttempts
<1>2. CollectBest(m.kind, m.raw) \in Outcomes /\ Best(m.raw) \in Outcomes
  BY <1>1, CollectIsOutcome DEF Attempts
<1>3. CollectBest(m.kind, m.baseRaw) \in Outcomes /\ Best(m.baseRaw) \in Outcomes
  BY <1>1, CollectIsOutcome DEF Attempts
<1>4. Reading(m) \in ReadingSet BY <1>2, <1>3, ClassifyIsVerdict DEF Reading, ReadingSet
<1>5. \A v \in OldVerdicts : OldReading(m, v) \in ReadingSet BY <1>2, <1>3 DEF OldReading, ReadingSet
<1>6. QED BY <1>4, <1>5 DEF Readings

LEMMA WholeIsTyped ==
  ASSUME data \in Seq(Measurements), NEW f, Whole(f)
  PROVE  data[f.run] \in Measurements /\ f.reading \in ReadingSet
BY ReadingsAreTyped DEF Whole

-----------------------------------------------------------------------------
(* The first corpus.                                                          *)

LEMMA InitInv == Init => IInv
<1> SUFFICES ASSUME Init PROVE IInv OBVIOUS
<1>1. PICK run \in Bijection(dirs, DOMAIN data), age \in [dirs -> OldVerdicts \union {"today"}] :
        /\ snapshot = [d \in Dirs |-> IF d \in dirs THEN run[d] ELSE NoFile]
        /\ reach = [d \in Dirs |->
              IF d \notin dirs THEN [run |-> NoFile, reading |-> NoReading]
              ELSE [run |-> run[d],
                    reading |-> IF age[d] = "today" THEN Reading(data[run[d]])
                                ELSE OldReading(data[run[d]], age[d])]]
  BY DEF Init
<1>2. dirs \subseteq Dirs /\ Cardinality(dirs) \in Nat /\ Cardinality(dirs) <= MaxRuns
  <2>1. dirs \in SUBSET Dirs BY DEF Init
  <2>2. IsFiniteSet(dirs) /\ Cardinality(dirs) <= Cardinality(Dirs) BY <2>1, CorpusAssumption, FS_Subset
  <2>3. Cardinality(dirs) \in Nat /\ Cardinality(Dirs) \in Nat BY <2>2, CorpusAssumption, FS_CardinalityType
  <2>4. QED BY <2>1, <2>2, <2>3, CorpusAssumption
<1>3. data \in Seq(Measurements) /\ Len(data) <= MaxRuns
  <2>1. data \in [1 .. Cardinality(dirs) -> Measurements] BY DEF Init
  <2>2. QED BY <1>2, <2>1
<1>4. \A d \in dirs : run[d] \in DOMAIN data
  BY DEF Bijection, Injection, Surjection
<1>5. \A d \in dirs : Whole(reach[d]) /\ reach[d].run = run[d] /\ snapshot[d] = run[d]
  BY <1>1, <1>2, <1>4 DEF Whole, Readings
<1>6. \A d \in Dirs \ dirs : reach[d] = [run |-> NoFile, reading |-> NoReading] /\ snapshot[d] = NoFile
  BY <1>1
<1>7. [run |-> NoFile, reading |-> NoReading] \in ReachSet
  BY DEF ReachSet, ReadingSet, NoFile, NoReading, Outcomes, RawOutcomes, Verdicts
<1>8. reach \in [Dirs -> ReachSet]
  <2>1. \A d \in dirs : reach[d] = [run |-> run[d], reading |-> reach[d].reading] BY <1>1, <1>2
  <2>2. \A d \in dirs : reach[d] \in ReachSet
    <3>1. \A d \in dirs : run[d] \in Int BY <1>4, <1>3
    <3>2. \A d \in dirs : reach[d].reading \in ReadingSet BY <1>3, <1>5, WholeIsTyped
    <3>3. SUFFICES ASSUME NEW d \in dirs PROVE reach[d] \in ReachSet OBVIOUS
    <3>4. [run |-> run[d], reading |-> reach[d].reading] \in ReachSet BY <3>1, <3>2 DEF ReachSet
    <3>5. QED BY <2>1, <3>4
  <2>3. \A d \in Dirs : reach[d] \in ReachSet BY <2>2, <1>6, <1>7
  <2>4. QED BY <1>1, <2>3
<1>9. snapshot \in [Dirs -> DOMAIN data \union Gone] BY <1>1, <1>4 DEF Gone
<1>10. DOMAIN loaded = {} /\ loaded \in [{} -> [snapshot : Int, reach : ReachSet]] BY DEF Init
<1>11. Types
  BY <1>2, <1>3, <1>8, <1>9, <1>10, CorpusAssumption DEF Init, Types, Idle, NoTool, Stages
<1>12. Files /\ Pairs BY <1>5, <1>6 DEF Files, Pairs, Gone
<1>13. Writers BY DEF Init, Writers, Idle
<1>14. Held /\ Rewriting BY DEF Init, Held, Rewriting, NoTool
<1>15. QED BY <1>11, <1>12, <1>13, <1>14 DEF IInv

-----------------------------------------------------------------------------
(* The oracle's steps.                                                        *)

\* A file that is whole stays so when a run is added.
LEMMA WholeStays ==
  ASSUME data \in Seq(Measurements), NEW m \in Measurements, data' = Append(data, m),
         NEW f, Whole(f)
  PROVE  f.run \in DOMAIN data' /\ data'[f.run] = data[f.run] /\ f.reading \in Readings(data'[f.run])
BY DEF Whole

LEMMA MakeDirStep == ASSUME IInv, NEW d \in Dirs, MakeDir(d) PROVE IInv'
<1> USE DEF MakeDir, IInv
<1>1. PICK m \in Measurements : data' = Append(data, m) OBVIOUS
<1>2. data' \in Seq(Measurements) /\ Len(data') = Len(data) + 1 /\ DOMAIN data \subseteq DOMAIN data'
      /\ Len(data') \in DOMAIN data' /\ Len(data') <= MaxRuns
  BY <1>1, CorpusAssumption DEF Types
<1>3. Types'
  <2>1. snapshot' \in [Dirs -> DOMAIN data' \union Gone] BY <1>2 DEF Types
  <2>2. writer' \in [Dirs -> [at : Stages, run : Int]] BY <1>2 DEF Types, Stages
  <2>3. QED BY <1>2, <2>1, <2>2 DEF Types
<1>4. \A f : Whole(f) => f.run \in DOMAIN data' /\ data'[f.run] = data[f.run] /\ f.reading \in Readings(data'[f.run])
  BY <1>1, WholeStays DEF Types
<1>5. Files' BY <1>4 DEF Files, Whole
<1>6. Writers' BY <1>2 DEF Types, Writers, Idle
<1>7. Pairs' BY DEF Pairs
<1>8. Held' BY <1>4 DEF Held, Half, Whole
<1>9. Rewriting' BY <1>1, <1>2 DEF Rewriting, Types
<1>10. QED BY <1>3, <1>5, <1>6, <1>7, <1>8, <1>9

\* A step of a writer touches its directory and changes only its files.
LEMMA WritesStep ==
  ASSUME IInv, NEW d \in Dirs, NEW from, NEW to \in Stages, Writes(d, from, to), UNCHANGED data,
         mixed \ {d} \subseteq mixed', mixed' \subseteq Dirs, dirs' = dirs,
         snapshot' \in [Dirs -> DOMAIN data \union Gone], reach' \in [Dirs -> ReachSet],
         \A e \in Dirs \ {d} : snapshot'[e] = snapshot[e] /\ reach'[e] = reach[e],
         reach'[d].run \notin Gone => Whole(reach'[d]),
         to \in {"between", "reach"} => snapshot'[d] = writer[d].run,
         d \notin mixed' /\ snapshot'[d] \notin Gone /\ reach'[d].run \notin Gone
            => snapshot'[d] = reach'[d].run,
         from # "idle"
  PROVE  IInv'
<1> USE DEF IInv, Writes
<1>1. Types'
  <2>1. writer' \in [Dirs -> [at : Stages, run : Int]] BY DEF Types, Stages, Idle
  <2>2. QED BY <2>1 DEF Types
<1>2. Files' BY DEF Files, Whole
<1>3. Writers' BY DEF Writers, Types, Idle
<1>4. Pairs' BY DEF Pairs
<1>5. Held' BY DEF Held, Half, Whole, Types
<1>6. Rewriting' BY DEF Rewriting, Types
<1>7. QED BY <1>1, <1>2, <1>3, <1>4, <1>5, <1>6

LEMMA TornIsTyped == [run |-> Torn, reading |-> NoReading] \in ReachSet
BY DEF ReachSet, ReadingSet, Torn, NoReading, Outcomes, RawOutcomes, Verdicts

LEMMA CreateSnapshotStep == ASSUME IInv, NEW d \in Dirs, CreateSnapshot(d) PROVE IInv'
<1> USE DEF CreateSnapshot, IInv
<1>1. snapshot' \in [Dirs -> DOMAIN data \union Gone] /\ snapshot'[d] \in Gone
      /\ \A e \in Dirs \ {d} : snapshot'[e] = snapshot[e]
  BY DEF Types, Gone
<1>2. QED BY <1>1, WritesStep, "snapshot" \in Stages DEF Types, Files, Stages

LEMMA WriteSnapshotStep == ASSUME IInv, NEW d \in Dirs, WriteSnapshot(d) PROVE IInv'
<1> USE DEF WriteSnapshot, IInv
<1>1. writer[d].run \in DOMAIN data BY DEF Writers, Writes
<1>2. snapshot' \in [Dirs -> DOMAIN data \union Gone] /\ snapshot'[d] = writer[d].run
      /\ \A e \in Dirs \ {d} : snapshot'[e] = snapshot[e]
  BY <1>1 DEF Types
<1>3. QED BY <1>2, WritesStep DEF Types, Files, Stages

LEMMA CreateReachStep == ASSUME IInv, NEW d \in Dirs, CreateReach(d) PROVE IInv'
<1> USE DEF CreateReach, IInv
<1>1. reach' \in [Dirs -> ReachSet] /\ reach'[d].run \in Gone
      /\ \A e \in Dirs \ {d} : reach'[e] = reach[e]
  BY TornIsTyped DEF Types, Gone
<1>2. snapshot[d] = writer[d].run BY DEF Writers, Writes
<1>3. QED BY <1>1, <1>2, WritesStep DEF Types, Stages

LEMMA WriteReachStep == ASSUME IInv, NEW d \in Dirs, WriteReach(d) PROVE IInv'
<1> USE DEF WriteReach, IInv
<1> DEFINE f == [run |-> writer[d].run, reading |-> Reading(data[writer[d].run])]
<1>1. writer[d].run \in DOMAIN data /\ snapshot[d] = writer[d].run BY DEF Writers, Writes
<1>2. Whole(f) BY <1>1 DEF Whole, Readings
<1>3. f.reading \in ReadingSet BY <1>2, WholeIsTyped DEF Types
<1>4. f \in ReachSet BY <1>1, <1>3 DEF ReachSet, Types
<1>5. reach' \in [Dirs -> ReachSet] /\ reach'[d] = f /\ \A e \in Dirs \ {d} : reach'[e] = reach[e]
  BY <1>4 DEF Types
<1>6. reach'[d].run = snapshot[d] BY <1>1, <1>5
<1> HIDE DEF f
<1>7. QED BY <1>1, <1>2, <1>5, <1>6, WritesStep DEF Types, Stages

LEMMA WriterStopsStep == ASSUME IInv, NEW d \in Dirs, WriterStops(d) PROVE IInv'
BY WritesStep DEF WriterStops, IInv, Types, Files, Pairs, Stages

-----------------------------------------------------------------------------
(* The tools' steps.                                                          *)

LEMMA StartStep == ASSUME IInv, NEW kind \in {"read", "reclassify"}, Start(kind) PROVE IInv'
<1> USE DEF Start, IInv, corpus
<1>1. DOMAIN loaded' = {} OBVIOUS
<1>2. Types' BY <1>1, CorpusAssumption DEF Types
<1>3. Files' /\ Pairs' BY DEF Files, Pairs, Whole
<1>4. Writers' BY DEF Writers
<1>5. Held' /\ Rewriting' BY <1>1 DEF Held, Rewriting
<1>6. QED BY <1>2, <1>3, <1>4, <1>5

LEMMA LoadSnapshotStep == ASSUME IInv, NEW d \in Dirs, LoadSnapshot(d) PROVE IInv'
<1> USE DEF LoadSnapshot, IInv, corpus
<1> DEFINE new == [snapshot |-> snapshot[d], reach |-> reach[d]]
<1>1. DOMAIN loaded' = DOMAIN loaded \union {d} /\ loaded'[d] = new
      /\ \A e \in DOMAIN loaded \ {d} : loaded'[e] = loaded[e]
  OBVIOUS
<1>2. new \in [snapshot : Int, reach : ReachSet] BY DEF Types, Gone
<1>3. Types' BY <1>1, <1>2 DEF Types
<1>4. Files' /\ Pairs' BY DEF Files, Pairs, Whole
<1>5. Writers' BY DEF Writers
<1>6. Half' = {d} /\ Half = {} BY DEF Half, Types
<1>7. Held'
  <2>1. loaded'[d].snapshot \notin Gone /\ loaded'[d].snapshot = snapshot[d] BY <1>1 DEF Gone
  <2>2. QED BY <1>1, <1>6, <2>1 DEF Held, Whole
<1>8. Rewriting' BY <1>1, <1>6 DEF Rewriting, Types
<1>9. QED BY <1>3, <1>4, <1>5, <1>7, <1>8

LEMMA LoadReachStep == ASSUME IInv, NEW d \in Dirs, LoadReach(d) PROVE IInv'
<1> USE DEF LoadReach, IInv, corpus
<1>1. d \in DOMAIN loaded BY DEF Rewriting
<1>2. DOMAIN loaded' = DOMAIN loaded /\ loaded'[d].reach = reach[d] /\ loaded'[d].snapshot = loaded[d].snapshot
      /\ \A e \in DOMAIN loaded \ {d} : loaded'[e] = loaded[e]
  BY <1>1 DEF Types
<1>3. loaded' \in [DOMAIN loaded' -> [snapshot : Int, reach : ReachSet]] BY <1>1, <1>2 DEF Types
<1>4. Types' BY <1>2, <1>3 DEF Types
<1>5. Files' /\ Pairs' BY DEF Files, Pairs, Whole
<1>6. Writers' BY DEF Writers
<1>7. Half' = {} /\ Half = {d} BY DEF Half, Types
<1>8. Whole(reach[d]) BY DEF Files, Gone
<1>9. d \notin touched \union mixed => loaded[d].snapshot = reach[d].run
  BY <1>1 DEF Held, Pairs, Gone
<1>10. Held' BY <1>1, <1>2, <1>7, <1>8, <1>9 DEF Held, Whole
<1>11. Rewriting' BY <1>2 DEF Rewriting, Types
<1>12. QED BY <1>4, <1>5, <1>6, <1>10, <1>11

\* The tool is gone, and what it had in memory.
LEMMA ToolGone ==
  ASSUME IInv, tool' = NoTool, loaded' = <<>>, UNCHANGED <<corpus, writer, tools, touched, mixed>>
  PROVE  IInv'
<1> USE DEF IInv, corpus, NoTool
<1>1. DOMAIN loaded' = {} OBVIOUS
<1>2. Types' BY <1>1 DEF Types
<1>3. Files' /\ Pairs' BY DEF Files, Pairs, Whole
<1>4. Writers' BY DEF Writers
<1>5. Held' /\ Rewriting' BY <1>1 DEF Held, Rewriting
<1>6. QED BY <1>2, <1>3, <1>4, <1>5

LEMMA LoadedStep == ASSUME IInv, Loaded PROVE IInv'
<1> USE DEF Loaded, IInv, corpus
<1> DEFINE todo == {d \in DOMAIN loaded : Changed(d)}
<1>1. tool.dir = {} BY DEF Rewriting, Types
<1>2. Half = {} /\ Half' = {} BY <1>1 DEF Half, Types
<1>3. CASE tool.kind = "reclassify"
  <2>1. tool' = [tool EXCEPT !.pc = "rewrite", !.todo = todo] BY <1>3
  <2>2. todo \in SUBSET Dirs /\ todo \subseteq DOMAIN loaded BY DEF Types
  <2>3. \A d \in DOMAIN loaded \ (touched \union todo) :
          reach[d].run \in DOMAIN data /\ reach[d].reading = Reading(data[reach[d].run])
    <3> SUFFICES ASSUME NEW d \in DOMAIN loaded, d \notin touched, d \notin todo
                 PROVE  reach[d].run \in DOMAIN data /\ reach[d].reading = Reading(data[reach[d].run])
      OBVIOUS
    <3>1. reach[d] = loaded[d].reach /\ Whole(loaded[d].reach) BY <1>2 DEF Held
    <3>2. data[reach[d].run] \in Measurements BY <3>1, WholeIsTyped DEF Types
    <3>3. Reread(data[reach[d].run], reach[d].reading) = reach[d].reading BY <3>1 DEF Changed
    <3>4. Reread(data[reach[d].run], reach[d].reading) = Reading(data[reach[d].run])
      BY <3>1, <3>2, RereadingIsExact DEF Whole
    <3>5. QED BY <3>1, <3>3, <3>4 DEF Whole
  <2> HIDE DEF todo
  <2>4. tool'.todo = todo /\ tool'.pc = "rewrite" /\ tool'.dir = {} /\ tool'.kind = "reclassify"
    BY <1>1, <1>3, <2>1 DEF Types
  <2>5. tool' \in [kind : {"none", "read", "reclassify"}, pc : {"idle", "load", "rewrite", "done"},
                   todo : SUBSET Dirs, dir : SUBSET Dirs]
    BY <2>1, <2>2 DEF Types
  <2>6. Types' BY <2>5 DEF Types
  <2>7. Rewriting' BY <2>2, <2>3, <2>4 DEF Rewriting
  <2>8. Held' BY <1>2, <2>4 DEF Held, Whole
  <2>9. QED BY <2>6, <2>7, <2>8 DEF Files, Pairs, Whole, Writers
<1>4. CASE tool.kind # "reclassify"
  <2>1. tool' = [tool EXCEPT !.pc = "done"] BY <1>4
  <2>2. tool'.pc = "done" /\ tool'.kind # "reclassify" BY <1>4, <2>1 DEF Types
  <2>3. Types' BY <2>1 DEF Types
  <2>4. Rewriting' BY <2>2 DEF Rewriting
  <2>5. Held' BY <1>2, <2>2 DEF Held, Whole
  <2>6. QED BY <2>3, <2>4, <2>5 DEF Files, Pairs, Whole, Writers
<1>5. QED BY <1>3, <1>4

LEMMA TruncateReachStep == ASSUME IInv, NEW d \in Dirs, TruncateReach(d) PROVE IInv'
<1> USE DEF TruncateReach, IInv
<1>1. reach' \in [Dirs -> ReachSet] /\ reach'[d].run \in Gone
      /\ \A e \in Dirs \ {d} : reach'[e] = reach[e]
  BY TornIsTyped DEF Types, Gone
<1>2. Types' BY <1>1 DEF Types
<1>3. Files' BY <1>1 DEF Files, Whole
<1>4. Pairs' BY <1>1 DEF Pairs
<1>5. Writers' BY DEF Writers
<1>6. Held' BY DEF Held, Half, Types, Whole
<1>7. Rewriting' BY <1>1 DEF Rewriting, Types
<1>8. QED BY <1>2, <1>3, <1>4, <1>5, <1>6, <1>7

LEMMA RewriteReachStep == ASSUME IInv, NEW d \in Dirs, RewriteReach(d) PROVE IInv'
<1> USE DEF RewriteReach, IInv
<1> DEFINE r == loaded[d].reach
           f == [run |-> r.run, reading |-> Reread(data[r.run], r.reading)]
<1>1. d \in tool.todo /\ d \in DOMAIN loaded /\ tool.kind = "reclassify" /\ Half = {} /\ Half' = {}
  BY DEF Rewriting, Half, Types
<1>2. Whole(r) /\ data[r.run] \in Measurements /\ r \in ReachSet
  BY <1>1, WholeIsTyped DEF Held, Types
<1>3. Reread(data[r.run], r.reading) = Reading(data[r.run]) BY <1>2, RereadingIsExact DEF Whole
<1>4. Whole(f) BY <1>2, <1>3 DEF Whole, Readings
<1>5. f.reading \in ReadingSet BY <1>4, WholeIsTyped DEF Types
<1>6. f \in ReachSet BY <1>2, <1>5 DEF ReachSet
<1>7. reach' \in [Dirs -> ReachSet] /\ reach'[d] = f /\ \A e \in Dirs \ {d} : reach'[e] = reach[e]
  BY <1>6 DEF Types
<1>8. reach'[d].run = r.run /\ reach'[d].reading = Reading(data[r.run]) /\ r.run \in DOMAIN data
  BY <1>2, <1>3, <1>7 DEF Whole
<1>9. d \notin mixed' => snapshot[d] = r.run
  BY <1>1 DEF Held
<1> HIDE DEF f, r
<1>10. Types' BY <1>7 DEF Types
<1>11. Files' BY <1>4, <1>7 DEF Files, Whole
<1>12. Pairs' BY <1>7, <1>8, <1>9 DEF Pairs
<1>13. Writers' BY DEF Writers
<1>14. Held' BY <1>1 DEF Held, Types, Whole
<1>15. Rewriting' BY <1>1, <1>7, <1>8 DEF Rewriting, Types
<1>16. QED BY <1>10, <1>11, <1>12, <1>13, <1>14, <1>15

LEMMA RewrittenStep == ASSUME IInv, Rewritten PROVE IInv'
<1> USE DEF Rewritten, IInv, corpus
<1>1. Types' BY DEF Types
<1>2. Files' /\ Pairs' BY DEF Files, Pairs, Whole
<1>3. Writers' BY DEF Writers
<1>4. Held' BY DEF Held, Half, Types, Whole
<1>5. Rewriting' BY DEF Rewriting, Types
<1>6. QED BY <1>1, <1>2, <1>3, <1>4, <1>5

LEMMA NextInv == IInv /\ [Next]_vars => IInv'
<1> SUFFICES ASSUME IInv, [Next]_vars PROVE IInv' OBVIOUS
<1>1. CASE \E d \in Dirs : MakeDir(d) \/ CreateSnapshot(d) \/ WriteSnapshot(d)
  BY <1>1, MakeDirStep, CreateSnapshotStep, WriteSnapshotStep
<1>2. CASE \E d \in Dirs : CreateReach(d) \/ WriteReach(d) \/ WriterStops(d)
  BY <1>2, CreateReachStep, WriteReachStep, WriterStopsStep
<1>3. CASE \E d \in Dirs : LoadSnapshot(d) \/ LoadReach(d) \/ TruncateReach(d) \/ RewriteReach(d)
  BY <1>3, LoadSnapshotStep, LoadReachStep, TruncateReachStep, RewriteReachStep
<1>4. CASE \E kind \in {"read", "reclassify"} : Start(kind) BY <1>4, StartStep
<1>5. CASE Loaded \/ Rewritten BY <1>5, LoadedStep, RewrittenStep
<1>6. CASE LoadRefused \/ ToolStops BY <1>6, ToolGone DEF LoadRefused, ToolStops
<1>7. CASE UNCHANGED vars
  BY <1>7 DEF vars, IInv, Types, Files, Writers, Pairs, Held, Half, Rewriting, Whole
<1>8. QED BY <1>1, <1>2, <1>3, <1>4, <1>5, <1>6, <1>7 DEF Next

\* The inductive invariant holds however programs interleave and are stopped.
THEOREM Invariant == Spec => []IInv
<1>1. Init => IInv BY InitInv
<1>2. IInv /\ [Next]_vars => IInv' BY NextInv
<1>3. QED BY <1>1, <1>2, PTL DEF Spec

-----------------------------------------------------------------------------
(* What it says.                                                              *)

\* Type correctness of the corpus and of the programs that use it.
THEOREM TypeCorrect == Spec => []TypeOK
<1>1. ASSUME IInv PROVE TypeOK
  <2>1. Types /\ Files BY <1>1 DEF IInv
  <2>2. DOMAIN data \subseteq Runs
    <3>1. DOMAIN data = 1 .. Len(data) /\ Len(data) \in Nat /\ Len(data) <= MaxRuns BY <2>1 DEF Types
    <3>2. QED BY <3>1, CorpusAssumption DEF Runs
  <2>3. snapshot \in [Dirs -> Runs \union {NoFile, Torn}] BY <2>1, <2>2 DEF Types, Gone
  <2>4. \A d \in Dirs : reach[d].run \in Runs \union {NoFile, Torn}
    BY <2>1, <2>2 DEF Files, Whole, Gone
  <2>5. \A d \in Dirs : writer[d].at \in Stages BY <2>1 DEF Types
  <2>6. /\ unfit \subseteq Dirs /\ dirs \subseteq Dirs /\ touched \subseteq Dirs /\ mixed \subseteq Dirs
        /\ tool.pc \in {"idle", "load", "rewrite", "done"} /\ tool.todo \subseteq Dirs
        /\ Len(data) <= MaxRuns
        /\ DOMAIN loaded \subseteq Dirs /\ tools \in 0 .. MaxTools
    BY <2>1 DEF Types
  <2>7. QED BY <2>3, <2>4, <2>5, <2>6 DEF TypeOK
<1>2. QED BY <1>1, Invariant, PTL

\* What a tool has loaded of a directory is a snapshot and the probes of one run,
\* for any directories, runs and measurements, and with any program stopped
\* anywhere (writeResults, loadRun, reclassify).
THEOREM LoadedPairSafe == Spec => []LoadedPairIsOneRun
<1>1. IInv => LoadedPairIsOneRun BY DEF IInv, Held, Half, Through, LoadedPairIsOneRun
<1>2. QED BY <1>1, Invariant, PTL

\* After a reclassify that came through, every stored probe reads as an oracle of
\* today would have written it (reclassify, collect, AtTarget).
THEOREM ReclassifySafe == Spec => []ReclassifyIsExact
<1>1. IInv => ReclassifyIsExact BY DEF IInv, Rewriting, ReclassifyIsExact
<1>2. QED BY <1>1, Invariant, PTL
=============================================================================
