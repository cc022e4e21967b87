------------------------------- MODULE Corpus -------------------------------
(* The measured corpus on disk: writeResults (hack/oracle/model.go) puts two  *)
(* files into the directory of a scenario and profile, LoadAll (internal/     *)
(* scenario/load.go) reads all of them back for the tools, and reclassify     *)
(* (hack/oracle/reclassify.go) reads stored outcomes anew and rewrites what   *)
(* changed.  Nothing locks a file, and each of the programs may stop at any   *)
(* point.                                                                     *)
(*                                                                            *)
(* What a run measured is [kind, declared, basis, raw, baseRaw], of one probe *)
(* with its attempts; a reading of it is [effective, baseline, verdict].      *)
EXTENDS Reachability, Integers, Sequences, Functions

CONSTANTS
    Dirs,          \* the directories, one for each scenario and profile
    Measurements,  \* what a run may measure
    OldVerdicts,   \* the verdicts an earlier Classify may have given
    MaxRuns,       \* bound: runs of the oracle, those of the first corpus included
    MaxTools       \* bound: runs of reclassify and of other readers

ASSUME CorpusAssumption ==
    /\ IsFiniteSet(Dirs) /\ MaxRuns \in Nat /\ Cardinality(Dirs) <= MaxRuns /\ MaxTools \in Nat
    /\ \A m \in Measurements : Range(m.raw) \union Range(m.baseRaw) \subseteq RawOutcomes

NoFile == 0
Torn == -1
NoReading == [effective |-> "error", baseline |-> "error", verdict |-> "unknown"]

VARIABLES
    unfit,     \* directories without a manifest, or named after another profile
    dirs,      \* the directories there are
    snapshot,  \* the run whose snapshot.json is there, NoFile or Torn
    reach,     \* [run, reading]: likewise of reachability.json
    data,      \* what the runs measured, in the order in which they wrote
    writer,    \* [at, run] for each directory: how far an oracle has got in it
    tool,      \* [kind, pc, todo, dir]: what a tool does
    loaded,    \* [snapshot, reach] by directory, in the tool's memory
    tools,     \* how many tools were started
    touched,   \* history: directories an oracle was at while the tool ran
    mixed      \* history: directories whose files may be of two runs

vars == <<unfit, dirs, snapshot, reach, data, writer, tool, loaded, tools, touched, mixed>>
corpus == <<unfit, dirs, snapshot, reach, data>>

-----------------------------------------------------------------------------
(* Readings *)

Best(raw) == BestOutcome({raw[a] : a \in DOMAIN raw})

\* What an oracle of today writes of a measurement.
Reading(m) ==
    LET eff == CollectBest(m.kind, m.raw)
        base == CollectBest(m.kind, m.baseRaw)
    IN  [effective |-> eff, baseline |-> base, verdict |-> Classify(m.declared, m.basis, eff, base)]

\* What an earlier one may have written: the node's answers taken for the pod's.
OldReading(m, verdict) ==
    [effective |-> Best(m.raw), baseline |-> Best(m.baseRaw), verdict |-> verdict]

\* reclassify: the stored outcomes of a probe, read anew.
Reread(m, r) ==
    LET eff == AtTarget(m.kind, r.effective)
        base == AtTarget(m.kind, r.baseline)
    IN  [effective |-> eff, baseline |-> base, verdict |-> Classify(m.declared, m.basis, eff, base)]

Changed(d) == Reread(data[loaded[d].reach.run], loaded[d].reach.reading) # loaded[d].reach.reading

Idle == [at |-> "idle", run |-> 0]
NoTool == [kind |-> "none", pc |-> "idle", todo |-> {}, dir |-> {}]

\* A corpus of complete runs, some of them read by an earlier oracle.
Init ==
    /\ dirs \in SUBSET Dirs /\ unfit \in SUBSET dirs
    /\ data \in [1 .. Cardinality(dirs) -> Measurements]
    /\ \E run \in Bijection(dirs, DOMAIN data), age \in [dirs -> OldVerdicts \union {"today"}] :
          /\ snapshot = [d \in Dirs |-> IF d \in dirs THEN run[d] ELSE NoFile]
          /\ reach = [d \in Dirs |->
                IF d \notin dirs THEN [run |-> NoFile, reading |-> NoReading]
                ELSE [run |-> run[d],
                      reading |-> IF age[d] = "today" THEN Reading(data[run[d]])
                                  ELSE OldReading(data[run[d]], age[d])]]
    /\ writer = [d \in Dirs |-> Idle] /\ tool = NoTool /\ loaded = <<>>
    /\ tools = 0 /\ touched = {} /\ mixed = {}

-----------------------------------------------------------------------------
(* An oracle writes its results *)

\* A step of the oracle in d: its next stage, and that a tool may notice.
Writes(d, from, to) ==
    /\ writer[d].at = from
    /\ writer' = [writer EXCEPT ![d] = IF to = "idle" THEN Idle ELSE [@ EXCEPT !.at = to]]
    /\ touched' = touched \union {d}
    /\ UNCHANGED <<unfit, tool, loaded, tools>>

\* The measurement is complete, and MkdirAll makes the directory.
MakeDir(d) ==
    /\ writer[d] = Idle /\ Len(data) < MaxRuns
    /\ \E m \in Measurements : data' = Append(data, m)
    /\ dirs' = dirs \union {d}
    /\ writer' = [writer EXCEPT ![d] = [at |-> "made", run |-> Len(data')]]
    /\ touched' = touched \union {d}
    /\ UNCHANGED <<unfit, snapshot, reach, tool, loaded, tools, mixed>>

\* os.Create truncates.
CreateSnapshot(d) ==
    /\ Writes(d, "made", "snapshot")
    /\ snapshot' = [snapshot EXCEPT ![d] = Torn]
    /\ UNCHANGED <<dirs, reach, data, mixed>>

WriteSnapshot(d) ==
    /\ Writes(d, "snapshot", "between")
    /\ snapshot' = [snapshot EXCEPT ![d] = writer[d].run]
    /\ mixed' = mixed \union {d}
    /\ UNCHANGED <<dirs, reach, data>>

CreateReach(d) ==
    /\ Writes(d, "between", "reach")
    /\ reach' = [reach EXCEPT ![d] = [run |-> Torn, reading |-> NoReading]]
    /\ UNCHANGED <<dirs, snapshot, data, mixed>>

WriteReach(d) ==
    /\ Writes(d, "reach", "idle")
    /\ reach' = [reach EXCEPT ![d] = [run |-> writer[d].run, reading |-> Reading(data[writer[d].run])]]
    /\ mixed' = mixed \ {d}
    /\ UNCHANGED <<dirs, snapshot, data>>

\* The oracle is killed or a call fails; what is written stays.
WriterStops(d) ==
    /\ writer[d].at # "idle"
    /\ Writes(d, writer[d].at, "idle")
    /\ UNCHANGED <<dirs, snapshot, reach, data, mixed>>

-----------------------------------------------------------------------------
(* A tool reads the corpus *)

Start(kind) ==
    /\ tool.pc \in {"idle", "done"} /\ tools < MaxTools
    /\ tools' = tools + 1
    /\ tool' = [kind |-> kind, pc |-> "load", todo |-> dirs, dir |-> {}]
    /\ loaded' = <<>>
    /\ touched' = {d \in Dirs : writer[d].at # "idle"}
    /\ UNCHANGED <<corpus, writer, mixed>>

\* loadRun reads snapshot.json of one directory after the other, ...
LoadSnapshot(d) ==
    /\ tool.pc = "load" /\ tool.dir = {} /\ d \in tool.todo
    /\ d \notin unfit /\ snapshot[d] \notin {NoFile, Torn}
    /\ tool' = [tool EXCEPT !.dir = {d}]
    /\ loaded' = [e \in DOMAIN loaded \union {d} |->
                     IF e = d THEN [snapshot |-> snapshot[d], reach |-> reach[d]] ELSE loaded[e]]
    /\ UNCHANGED <<corpus, writer, tools, touched, mixed>>

\* ... and then its reachability.json.
LoadReach(d) ==
    /\ tool.pc = "load" /\ tool.dir = {d}
    /\ reach[d].run \notin {NoFile, Torn}
    /\ tool' = [tool EXCEPT !.dir = {}, !.todo = @ \ {d}]
    /\ loaded' = [loaded EXCEPT ![d].reach = reach[d]]
    /\ UNCHANGED <<corpus, writer, tools, touched, mixed>>

\* A file is missing or torn, a directory unfit: nothing is read at all.
LoadRefused ==
    /\ tool.pc = "load"
    /\ \/ \E d \in tool.dir : reach[d].run \in {NoFile, Torn}
       \/ tool.dir = {} /\ \E d \in tool.todo : d \in unfit \/ snapshot[d] \in {NoFile, Torn}
    /\ tool' = NoTool /\ loaded' = <<>>
    /\ UNCHANGED <<corpus, writer, tools, touched, mixed>>

Loaded ==
    /\ tool.pc = "load" /\ tool.todo = {}
    /\ tool' = IF tool.kind = "reclassify"
               THEN [tool EXCEPT !.pc = "rewrite", !.todo = {d \in DOMAIN loaded : Changed(d)}]
               ELSE [tool EXCEPT !.pc = "done"]
    /\ UNCHANGED <<corpus, writer, loaded, tools, touched, mixed>>

\* os.WriteFile truncates the file of a run with a changed probe, ...
TruncateReach(d) ==
    /\ tool.pc = "rewrite" /\ tool.dir = {} /\ d \in tool.todo
    /\ tool' = [tool EXCEPT !.dir = {d}]
    /\ reach' = [reach EXCEPT ![d] = [run |-> Torn, reading |-> NoReading]]
    /\ mixed' = mixed \union ({d} \intersect touched)
    /\ UNCHANGED <<unfit, dirs, snapshot, data, writer, loaded, tools, touched>>

\* Mutant of RewriteReach: what is written is another directory's.
RewriteReachOfAnother(d) ==
    /\ tool.pc = "rewrite" /\ tool.dir = {d}
    /\ tool' = [tool EXCEPT !.dir = {}, !.todo = @ \ {d}]
    /\ \E e \in DOMAIN loaded :
          LET r == loaded[e].reach
          IN  reach' = [reach EXCEPT ![d] = [run |-> r.run, reading |-> Reread(data[r.run], r.reading)]]
    /\ mixed' = mixed \union ({d} \intersect touched)
    /\ UNCHANGED <<unfit, dirs, snapshot, data, writer, loaded, tools, touched>>

\* ... and writes what was loaded, read anew.
RewriteReach(d) ==
    /\ tool.pc = "rewrite" /\ tool.dir = {d}
    /\ tool' = [tool EXCEPT !.dir = {}, !.todo = @ \ {d}]
    /\ LET r == loaded[d].reach
       IN  reach' = [reach EXCEPT ![d] = [run |-> r.run, reading |-> Reread(data[r.run], r.reading)]]
    /\ mixed' = mixed \union ({d} \intersect touched)
    /\ UNCHANGED <<unfit, dirs, snapshot, data, writer, loaded, tools, touched>>

Rewritten ==
    /\ tool.pc = "rewrite" /\ tool.todo = {}
    /\ tool' = [tool EXCEPT !.pc = "done"]
    /\ UNCHANGED <<corpus, writer, loaded, tools, touched, mixed>>

\* The tool is killed or a write fails.
ToolStops ==
    /\ tool.pc \in {"load", "rewrite"}
    /\ tool' = NoTool /\ loaded' = <<>>
    /\ UNCHANGED <<corpus, writer, tools, touched, mixed>>

Next ==
    \/ \E d \in Dirs :
          \/ MakeDir(d) \/ CreateSnapshot(d) \/ WriteSnapshot(d) \/ CreateReach(d) \/ WriteReach(d)
          \/ WriterStops(d)
          \/ LoadSnapshot(d) \/ LoadReach(d) \/ TruncateReach(d) \/ RewriteReach(d)
    \/ \E kind \in {"read", "reclassify"} : Start(kind)
    \/ LoadRefused \/ Loaded \/ Rewritten \/ ToolStops

Spec == Init /\ [][Next]_vars

-----------------------------------------------------------------------------
(* Properties *)

Runs == 1 .. MaxRuns
Stages == {"idle", "made", "snapshot", "between", "reach"}

TypeOK ==
    /\ unfit \subseteq Dirs /\ dirs \subseteq Dirs /\ touched \subseteq Dirs /\ mixed \subseteq Dirs
    /\ snapshot \in [Dirs -> Runs \union {NoFile, Torn}]
    /\ \A d \in Dirs : reach[d].run \in Runs \union {NoFile, Torn}
    /\ \A d \in Dirs : writer[d].at \in Stages
    /\ tool.pc \in {"idle", "load", "rewrite", "done"} /\ tool.todo \subseteq Dirs
    /\ Len(data) <= MaxRuns
    /\ DOMAIN loaded \subseteq Dirs /\ tools \in 0 .. MaxTools

Through == tool.pc \in {"rewrite", "done"}

\* What a tool has loaded of a directory is a snapshot and the probes of one run,
\* unless an oracle was at it meanwhile, or one died after the first file and
\* before it had opened the second, or reclassify wrote over a newer one
\* (writeResults, model.go:298-315; loadRun, load.go:77-104).
LoadedPairIsOneRun ==
    Through => \A d \in DOMAIN loaded \ (touched \union mixed) :
                   loaded[d].snapshot = loaded[d].reach.run

\* After a reclassify that came through, whatever others left half done before
\* it, the stored outcomes and verdicts are what an oracle of today would write
\* of the same attempts, although only the best of them was kept (reclassify.go,
\* collect, main.go:255-278).
ReclassifyIsExact ==
    tool.pc = "done" /\ tool.kind = "reclassify" =>
        \A d \in DOMAIN loaded \ touched : reach[d].reading = Reading(data[reach[d].run])
=============================================================================
