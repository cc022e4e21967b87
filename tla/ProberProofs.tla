---------------------------- MODULE ProberProofs ----------------------------
(***************************************************************************)
(* Proofs about Prober, for any number of sources, jobs and slots: what    *)
(* run returns is complete, no slot leaks, a pod never runs more than      *)
(* `parallelism` connects, and the goroutines implement ProbeRun.          *)
(***************************************************************************)
EXTENDS Prober, FiniteSetTheorems, TLAPS

(* The inductive invariant: the two counters count goroutines, ...         *)
Unfinished == {s \in Sources : worker[s] \notin {"idle", "done"}}

CountInv == sem = Cardinality(Holders) /\ wg = Cardinality(Unfinished)

(* ... a source is launched once and stores what its jobs printed, ...     *)
AnswersInv ==
  /\ returned => todo = {} /\ Unfinished = {}
  /\ \A s \in Sources :
       /\ s \in todo => worker[s] = "idle"
       /\ worker[s] = "idle" /\ s \in Planned => s \in todo
       /\ worker[s] # "idle" => s \in Planned
       /\ \A i \in Jobs(s) : job[s][i] = "done" => out[s][i] # "-"
       /\ worker[s] \notin {"idle", "running"} =>
            s \in failures \/ \A i \in Wanted(s) : out[s][i] # "-"
       /\ worker[s] \in {"idle", "running", "answered"} => results[s] = <<>>
       /\ worker[s] \in {"stored", "released", "done"} => results[s] = Parsed(s)
       /\ s \in Dialed => \A i \in Jobs(s) : out[s][i] # ""

(* ... and a job that is under way had its turn, for good.                 *)
TurnInv ==
  \A s \in Sources : \A i \in Connecting(s) : i \in Wanted(s) /\ Turn(s, i)

IInv == TypeOK /\ CountInv /\ AnswersInv /\ TurnInv

(* Sets of sources are finite.                                             *)
LEMMA FiniteSources == ASSUME NEW T \in SUBSET Sources PROVE IsFiniteSet(T)
BY SourcesAssumption, FS_Subset

(* A goroutine that moves from one step to the next changes the counts by  *)
(* the sets it leaves and enters.                                          *)
LEMMA WorkerMoves ==
  ASSUME TypeOK, CountInv, NEW s \in Sources, NEW to, worker' = [worker EXCEPT ![s] = to]
  PROVE  /\ Cardinality(Holders') =
              IF s \in Holders THEN IF s \in Holders' THEN sem ELSE sem - 1
                               ELSE IF s \in Holders' THEN sem + 1 ELSE sem
         /\ Cardinality(Unfinished') =
              IF s \in Unfinished THEN IF s \in Unfinished' THEN wg ELSE wg - 1
                                  ELSE IF s \in Unfinished' THEN wg + 1 ELSE wg
         /\ s \in Holders => sem >= 1
         /\ s \in Unfinished => wg >= 1
         /\ s \in Holders' <=> to \in {"running", "answered", "stored"}
         /\ s \in Unfinished' <=> to \notin {"idle", "done"}
<1>1. worker'[s] = to /\ \A t \in Sources \ {s} : worker'[t] = worker[t] BY DEF TypeOK
<1>2. Holders' \in {Holders, Holders \cup {s}, Holders \ {s}} BY <1>1 DEF Holders
<1>3. Unfinished' \in {Unfinished, Unfinished \cup {s}, Unfinished \ {s}} BY <1>1 DEF Unfinished
<1>4. IsFiniteSet(Holders) /\ IsFiniteSet(Unfinished) BY FiniteSources DEF Holders, Unfinished
<1>5. Cardinality(Holders \ {s}) = IF s \in Holders THEN sem - 1 ELSE sem
  BY <1>4, FS_RemoveElement DEF CountInv
<1>6. Cardinality(Holders \cup {s}) = IF s \in Holders THEN sem ELSE sem + 1
  BY <1>4, FS_AddElement DEF CountInv
<1>7. Cardinality(Unfinished \ {s}) = IF s \in Unfinished THEN wg - 1 ELSE wg
  BY <1>4, FS_RemoveElement DEF CountInv
<1>8. Cardinality(Unfinished \cup {s}) = IF s \in Unfinished THEN wg ELSE wg + 1
  BY <1>4, FS_AddElement DEF CountInv
<1>9. s \in Holders => sem >= 1
  BY <1>4, FS_EmptySet, FS_CardinalityType DEF CountInv, TypeOK
<1>10. s \in Unfinished => wg >= 1
  BY <1>4, FS_EmptySet, FS_CardinalityType DEF CountInv, TypeOK
<1>11. Cardinality(Holders) = sem /\ Cardinality(Unfinished) = wg BY DEF CountInv
<1>12. (s \in Holders' <=> to \in {"running", "answered", "stored"})
       /\ (s \in Unfinished' <=> to \notin {"idle", "done"})
  BY <1>1 DEF Holders, Unfinished
<1>13. Cardinality(Holders') =
         IF s \in Holders THEN IF s \in Holders' THEN sem ELSE sem - 1
                          ELSE IF s \in Holders' THEN sem + 1 ELSE sem
  <2>1. Holders' = IF s \in Holders' THEN Holders \cup {s} ELSE Holders \ {s} BY <1>2
  <2>2. QED BY <1>5, <1>6, <2>1
<1>14. Cardinality(Unfinished') =
         IF s \in Unfinished THEN IF s \in Unfinished' THEN wg ELSE wg - 1
                             ELSE IF s \in Unfinished' THEN wg + 1 ELSE wg
  <2>1. Unfinished' = IF s \in Unfinished' THEN Unfinished \cup {s} ELSE Unfinished \ {s} BY <1>3
  <2>2. QED BY <1>7, <1>8, <2>1
<1>15. QED BY <1>9, <1>10, <1>12, <1>13, <1>14

(* What is stored for a source depends on what its jobs printed.           *)
LEMMA ParsedKept ==
  ASSUME NEW s \in Sources, out'[s] = out[s] PROVE Parsed(s)' = Parsed(s)
BY DEF Parsed, Jobs

LEMMA ParsedType ==
  ASSUME TypeOK, NEW s \in Sources
  PROVE  /\ Parsed(s) \in [Jobs(s) -> Answers \cup {"-"}]
         /\ s \in Planned => Parsed(s) # <<>>
<1>1. \A i \in Jobs(s) : out[s][i] \in Lines \cup {"-"} BY DEF TypeOK
<1>2. Parsed(s) \in [Jobs(s) -> Answers \cup {"-"}] BY <1>1 DEF Parsed, Lines
<1>3. s \in Planned => 1 \in Jobs(s) BY SourcesAssumption DEF Planned, Jobs
<1> QED BY <1>2, <1>3

-----------------------------------------------------------------------------
(* Every step keeps the types and the counts.                              *)
LEMMA TypeStep == ASSUME IInv, [Next]_vars PROVE TypeOK' /\ CountInv'
<1> USE DEF IInv
<1>0. \A t \in Sources : out'[t] = out[t] => Parsed(t)' = Parsed(t) BY ParsedKept
<1>1. ASSUME NEW s \in Sources, Launch(s) PROVE TypeOK' /\ CountInv'
  <2>1. s \notin Holders /\ s \notin Unfinished BY <1>1 DEF Launch, AnswersInv, Holders, Unfinished
  <2>2. CountInv' BY <1>1, <2>1, WorkerMoves DEF Launch, CountInv
  <2>3. sem' \in 0..Sem BY <1>1, LimitsAssumption DEF Launch, SlotFree, TypeOK
  <2>4. QED BY <1>0, <1>1, <2>2, <2>3 DEF Launch, TypeOK, Jobs
<1>2. ASSUME NEW s \in Sources, NEW i \in Jobs(s), StartJob(s, i) PROVE TypeOK' /\ CountInv'
  <2>1. CountInv' BY <1>2 DEF StartJob, CountInv, Holders, Unfinished
  <2>2. job'[s] = [job[s] EXCEPT ![i] = "first"] /\ \A t \in Sources \ {s} : job'[t] = job[t]
    BY <1>2 DEF StartJob, TypeOK
  <2>3. DOMAIN job' = Sources BY <1>2 DEF StartJob, TypeOK
  <2>4. \A t \in Sources : job'[t] \in [Jobs(t) -> {"todo", "first", "second", "done"}]
    BY <2>2 DEF TypeOK
  <2>5. QED BY <1>0, <1>2, <2>1, <2>3, <2>4 DEF StartJob, TypeOK, Jobs
<1>3. ASSUME NEW s \in Sources, NEW i \in Jobs(s), NEW o \in Lines, EndJob(s, i, o)
      PROVE  TypeOK' /\ CountInv'
  <2>1. CountInv' BY <1>3 DEF EndJob, CountInv, Holders, Unfinished
  <2>2. PICK st \in {"second", "done"} : job' = [job EXCEPT ![s][i] = st] BY <1>3 DEF EndJob
  <2>3. /\ DOMAIN job' = Sources
        /\ job'[s] = [job[s] EXCEPT ![i] = st] /\ \A t \in Sources \ {s} : job'[t] = job[t]
    BY <2>2 DEF TypeOK
  <2>4. \A t \in Sources : job'[t] \in [Jobs(t) -> {"todo", "first", "second", "done"}]
    BY <2>3 DEF TypeOK
  <2>5. out' = out \/ out' = [out EXCEPT ![s][i] = o] BY <1>3 DEF EndJob
  <2>6. /\ DOMAIN out' = Sources
        /\ out'[s] = out[s] \/ out'[s] = [out[s] EXCEPT ![i] = o]
        /\ \A t \in Sources \ {s} : out'[t] = out[t]
    BY <2>5 DEF TypeOK
  <2>7. \A t \in Sources : out'[t] \in [Jobs(t) -> Lines \cup {"-"}]
    BY <2>6 DEF TypeOK
  <2>8. results' = results /\ results[s] = <<>> BY <1>3 DEF EndJob, AnswersInv
  <2>9. \A t \in Sources : results'[t] = <<>> \/ results'[t] = Parsed(t)'
    BY <1>0, <2>6, <2>8 DEF TypeOK
  <2>10. QED BY <1>3, <2>1, <2>3, <2>4, <2>6, <2>7, <2>8, <2>9 DEF EndJob, TypeOK, Jobs
<1>4. ASSUME NEW s \in Sources, ScriptEnds(s) PROVE TypeOK' /\ CountInv'
  <2>1. s \in Holders /\ s \in Unfinished BY <1>4 DEF ScriptEnds, Holders, Unfinished
  <2>2. CountInv' BY <1>4, <2>1, WorkerMoves DEF ScriptEnds, CountInv
  <2>3. QED BY <1>0, <1>4, <2>2 DEF ScriptEnds, TypeOK, Jobs
<1>5. ASSUME NEW s \in Sources, ExecFails(s) PROVE TypeOK' /\ CountInv'
  <2>1. s \in Holders /\ s \in Unfinished BY <1>5 DEF ExecFails, Holders, Unfinished
  <2>2. CountInv' BY <1>5, <2>1, WorkerMoves DEF ExecFails, CountInv
  <2>3. QED BY <1>0, <1>5, <2>2 DEF ExecFails, TypeOK, Jobs
<1>6. ASSUME NEW s \in Sources, StoreResults(s) PROVE TypeOK' /\ CountInv'
  <2>1. s \in Holders /\ s \in Unfinished BY <1>6 DEF StoreResults, Holders, Unfinished
  <2>2. CountInv' BY <1>6, <2>1, WorkerMoves DEF StoreResults, CountInv
  <2>3. DOMAIN results' = Sources /\ \A t \in Sources : results'[t] \in {results[t], Parsed(t)'}
    BY <1>0, <1>6 DEF StoreResults, TypeOK
  <2>4. QED BY <1>0, <1>6, <2>2, <2>3 DEF StoreResults, TypeOK, Jobs
<1>7. ASSUME NEW s \in Sources, ReleaseSlot(s) PROVE TypeOK' /\ CountInv'
  <2>1. s \in Holders /\ s \in Unfinished BY <1>7 DEF ReleaseSlot, Holders, Unfinished
  <2>2. CountInv'
    <3>1. /\ worker' = [worker EXCEPT ![s] = "released"]
          /\ sem' = sem - 1 /\ wg' = wg
      BY <1>7 DEF ReleaseSlot
    <3>2. s \notin Holders' /\ s \in Unfinished'
      <4>1. worker'[s] = "released" BY <3>1 DEF TypeOK
      <4>2. QED BY <4>1 DEF Holders, Unfinished
    <3>3. Cardinality(Holders') = sem - 1 /\ Cardinality(Unfinished') = wg
      BY <2>1, <3>1, <3>2, WorkerMoves
    <3>4. QED BY <3>1, <3>3 DEF CountInv
  <2>3. sem >= 1 BY <1>7, <2>1, WorkerMoves DEF ReleaseSlot
  <2>4. QED BY <1>0, <1>7, <2>2, <2>3, LimitsAssumption DEF ReleaseSlot, TypeOK, Jobs
<1>8. ASSUME NEW s \in Sources, WorkerDone(s) PROVE TypeOK' /\ CountInv'
  <2>1. s \notin Holders /\ s \in Unfinished BY <1>8 DEF WorkerDone, Holders, Unfinished
  <2>2. CountInv' BY <1>8, <2>1, WorkerMoves DEF WorkerDone, CountInv
  <2>3. wg >= 1 BY <1>8, <2>1, WorkerMoves DEF WorkerDone
  <2>4. QED BY <1>0, <1>8, <2>2, <2>3 DEF WorkerDone, TypeOK, Jobs
<1>9. CASE Return BY <1>0, <1>9 DEF Return, TypeOK, CountInv, Holders, Unfinished, Jobs
<1>10. CASE UNCHANGED vars BY <1>0, <1>10 DEF vars, TypeOK, CountInv, Holders, Unfinished, Jobs
<1>11. QED
  BY <1>1, <1>2, <1>3, <1>4, <1>5, <1>6, <1>7, <1>8, <1>9, <1>10 DEF Next, WorkerStep, Finished

(* Every step keeps a returned answer complete.                            *)
LEMMA AnswersStep == ASSUME IInv, [Next]_vars PROVE AnswersInv'
<1> USE DEF IInv, AnswersInv, Unfinished, Jobs, Wanted, Planned
<1>00. \A t \in Sources : out'[t] = out[t] => Parsed(t)' = Parsed(t) BY ParsedKept
<1>0. IsFiniteSet(Unfinished) BY FiniteSources DEF Unfinished
<1>1. ASSUME NEW s \in Sources, Launch(s) PROVE AnswersInv'
  BY <1>00, <1>1 DEF Launch, TypeOK
<1>2. ASSUME NEW s \in Sources, NEW i \in Jobs(s), StartJob(s, i) PROVE AnswersInv'
  <2>0. job[s] \in [Jobs(s) -> {"todo", "first", "second", "done"}] BY DEF TypeOK
  <2>1. /\ \A t \in Sources \ {s} : job'[t] = job[t]
        /\ \A j \in Jobs(s) \ {i} : job'[s][j] = job[s][j]
        /\ job'[s][i] = "first"
    BY <1>2, <2>0 DEF StartJob, TypeOK
  <2>2. \A t \in Sources : \A j \in Jobs(t) : job'[t][j] = "done" => job[t][j] = "done" BY <2>1
  <2>3. QED BY <1>00, <1>2, <2>2 DEF StartJob
<1>3. ASSUME NEW s \in Sources, NEW i \in Jobs(s), NEW o \in Lines, EndJob(s, i, o)
      PROVE  AnswersInv'
  <2>1. o # "-" /\ (s \in Dialed => o # "") BY <1>3, AnswersAssumption DEF Lines, EndJob
  <2>2. job[s] \in [Jobs(s) -> {"todo", "first", "second", "done"}]
        /\ out[s] \in [Jobs(s) -> Lines \cup {"-"}] BY DEF TypeOK
  <2>3. /\ \A t \in Sources \ {s} : job'[t] = job[t] /\ out'[t] = out[t]
        /\ \A j \in Jobs(s) \ {i} : job'[s][j] = job[s][j] /\ out'[s][j] = out[s][j]
        /\ job'[s][i] = "done" => out'[s][i] = o
        /\ out'[s][i] \in {out[s][i], o}
    <3>1. CASE Retried(s, i, o)
      <4>1. job' = [job EXCEPT ![s][i] = "second"] /\ out' = out BY <1>3, <3>1 DEF EndJob
      <4>2. QED BY <2>2, <4>1 DEF TypeOK
    <3>2. CASE ~Retried(s, i, o)
      <4>1. job' = [job EXCEPT ![s][i] = "done"] /\ out' = [out EXCEPT ![s][i] = o]
        BY <1>3, <3>2 DEF EndJob
      <4>2. QED BY <2>2, <4>1 DEF TypeOK
    <3>3. QED BY <3>1, <3>2
  <2>4. \A t \in Sources : \A j \in Jobs(t) : job'[t][j] = "done" => out'[t][j] # "-"
    <3>1. \A t \in Sources : \A j \in Jobs(t) : job[t][j] = "done" => out[t][j] # "-" OBVIOUS
    <3> HIDE DEF IInv, AnswersInv, Jobs
    <3>2. ASSUME NEW t \in Sources, NEW j \in Jobs(t), job'[t][j] = "done", t # s
          PROVE  out'[t][j] # "-"
      BY <2>3, <3>1, <3>2
    <3>3. ASSUME NEW j \in Jobs(s), job'[s][j] = "done" PROVE out'[s][j] # "-"
      BY <2>1, <2>3, <3>1, <3>3
    <3>4. QED BY <3>2, <3>3
  <2>5. worker[s] = "running" /\ UNCHANGED <<todo, worker, results, failures, returned>>
    BY <1>3 DEF EndJob
  <2>6. \A t \in Dialed : \A j \in Jobs(t) : out'[t][j] # ""
    <3>1. \A t \in Dialed : t \in Sources BY SourcesAssumption
    <3>2. \A t \in Dialed : \A j \in Jobs(t) : out[t][j] # "" BY <3>1
    <3> HIDE DEF IInv, AnswersInv, Jobs
    <3>3. QED BY <2>1, <2>3, <3>1, <3>2
  <2>7. \A t \in Sources : t # s => Parsed(t)' = Parsed(t) BY <1>00, <2>3
  <2>8. \A t \in Sources : worker[t] \notin {"idle", "running"} => t # s BY <2>5
  <2>9. ASSUME NEW t \in Sources, worker'[t] \notin {"idle", "running"}
        PROVE  /\ t \in failures' \/ \A j \in Wanted(t) : out'[t][j] # "-"
               /\ worker'[t] \in {"stored", "released", "done"} => results'[t] = Parsed(t)'
    <3>1. out'[t] = out[t] /\ Parsed(t)' = Parsed(t) BY <2>3, <2>5, <2>7, <2>8, <2>9
    <3>2. QED BY <2>5, <2>9, <3>1
  <2>10. QED BY <2>4, <2>5, <2>6, <2>9
<1>4. ASSUME NEW s \in Sources, ScriptEnds(s) PROVE AnswersInv'
  <2>1. /\ worker[s] = "running" /\ worker'[s] = "answered"
        /\ \A t \in Sources \ {s} : worker'[t] = worker[t]
    BY <1>4 DEF ScriptEnds, TypeOK
  <2>2. ~returned BY <2>1
  <2>3. UNCHANGED <<todo, job, out, results, failures, returned>> /\ \A i \in Wanted(s) : out[s][i] # "-" BY <1>4 DEF ScriptEnds
  <2>4. QED BY <1>00, <2>1, <2>2, <2>3
<1>5. ASSUME NEW s \in Sources, ExecFails(s) PROVE AnswersInv'
  <2>1. /\ worker[s] = "running" /\ worker'[s] = "answered"
        /\ \A t \in Sources \ {s} : worker'[t] = worker[t]
    BY <1>5 DEF ExecFails, TypeOK
  <2>2. ~returned BY <2>1
  <2>3. UNCHANGED <<todo, job, out, results, returned>> /\ failures' = failures \cup {s} BY <1>5 DEF ExecFails
  <2>4. QED BY <1>00, <2>1, <2>2, <2>3
<1>6. ASSUME NEW s \in Sources, StoreResults(s) PROVE AnswersInv'
  <2>1. /\ worker[s] = "answered" /\ worker'[s] = "stored"
        /\ \A t \in Sources \ {s} : worker'[t] = worker[t]
    BY <1>6 DEF StoreResults, TypeOK
  <2>2. ~returned BY <2>1
  <2>3. /\ UNCHANGED <<todo, job, out, failures, returned>>
        /\ results'[s] = Parsed(s) /\ \A t \in Sources \ {s} : results'[t] = results[t]
    BY <1>6 DEF StoreResults, TypeOK
  <2>4. QED BY <1>00, <2>1, <2>2, <2>3
<1>7. ASSUME NEW s \in Sources, ReleaseSlot(s) PROVE AnswersInv'
  <2>1. /\ worker[s] = "stored" /\ worker'[s] = "released"
        /\ \A t \in Sources \ {s} : worker'[t] = worker[t]
    BY <1>7 DEF ReleaseSlot, TypeOK
  <2>2. ~returned BY <2>1
  <2>3. UNCHANGED <<todo, job, out, results, failures, returned>> BY <1>7 DEF ReleaseSlot
  <2>4. QED BY <1>00, <2>1, <2>2, <2>3
<1>8. ASSUME NEW s \in Sources, WorkerDone(s) PROVE AnswersInv'
  <2>1. /\ worker[s] = "released" /\ worker'[s] = "done"
        /\ \A t \in Sources \ {s} : worker'[t] = worker[t]
    BY <1>8 DEF WorkerDone, TypeOK
  <2>2. ~returned BY <2>1
  <2>3. UNCHANGED <<todo, job, out, results, failures, returned>> BY <1>8 DEF WorkerDone
  <2>4. QED BY <1>00, <2>1, <2>2, <2>3
<1>9. CASE Return
  <2>1. Unfinished = {} BY <1>0, <1>9, FS_EmptySet DEF Return, CountInv
  <2>2. QED BY <1>00, <1>9, <2>1 DEF Return
<1>10. CASE UNCHANGED vars BY <1>00, <1>10 DEF vars
<1>11. QED
  BY <1>1, <1>2, <1>3, <1>4, <1>5, <1>6, <1>7, <1>8, <1>9, <1>10 DEF Next, WorkerStep, Finished

(* A turn, once had, stays: jobs that are done stay done.                  *)
LEMMA TurnStep == ASSUME IInv, [Next]_vars PROVE TurnInv'
<1> USE DEF IInv, TurnInv, Turn, Connecting, Jobs, Wanted
<1>1. ASSUME NEW s \in Sources, NEW i \in Jobs(s), StartJob(s, i) PROVE TurnInv'
  <2>1. job[s] \in [Jobs(s) -> {"todo", "first", "second", "done"}] BY DEF TypeOK
  <2>2. /\ \A t \in Sources \ {s} : job'[t] = job[t]
        /\ \A j \in Jobs(s) \ {i} : job'[s][j] = job[s][j]
        /\ job'[s][i] = "first" /\ job[s][i] = "todo" /\ i \in Wanted(s) /\ Turn(s, i)
    BY <1>1, <2>1 DEF StartJob, TypeOK
  <2>3. QED BY <2>2
<1>2. ASSUME NEW s \in Sources, NEW i \in Jobs(s), NEW o \in Lines, EndJob(s, i, o)
      PROVE  TurnInv'
  <2>1. job[s] \in [Jobs(s) -> {"todo", "first", "second", "done"}] BY DEF TypeOK
  <2>2. PICK st \in {"second", "done"} : job' = [job EXCEPT ![s][i] = st] BY <1>2 DEF EndJob
  <2>3. /\ \A t \in Sources \ {s} : job'[t] = job[t]
        /\ \A j \in Jobs(s) \ {i} : job'[s][j] = job[s][j]
        /\ job'[s][i] = st /\ job[s][i] \in {"first", "second"}
    BY <1>2, <2>1, <2>2 DEF EndJob, TypeOK
  <2>4. QED BY <2>3
<1>3. CASE job' = job BY <1>3
<1>4. QED BY <1>1, <1>2, <1>3
  DEF Next, WorkerStep, Finished, vars, Launch, ScriptEnds, ExecFails, StoreResults,
      ReleaseSlot, WorkerDone, Return

(* IInv is an inductive invariant of run.                                  *)
THEOREM Invariant == Spec => []IInv
<1>1. Init => IInv
  <2> SUFFICES ASSUME Init PROVE IInv OBVIOUS
  <2>1. Holders = {} /\ Unfinished = {} BY DEF Init, Holders, Unfinished
  <2>2. CountInv BY <2>1, FS_EmptySet DEF Init, CountInv
  <2>3. TypeOK
    <3>1. \A s \in Sources :
            /\ job[s] \in [Jobs(s) -> {"todo", "first", "second", "done"}]
            /\ out[s] \in [Jobs(s) -> Lines \cup {"-"}]
            /\ results[s] = <<>>
      BY DEF Init
    <3>2. DOMAIN job = Sources /\ DOMAIN out = Sources /\ DOMAIN results = Sources BY DEF Init
    <3>3. sem \in 0..Sem /\ wg \in Nat BY LimitsAssumption DEF Init
    <3>4. QED BY <3>1, <3>2, <3>3 DEF Init, TypeOK
  <2>4. AnswersInv BY <2>1 DEF Init, AnswersInv, Planned
  <2>5. TurnInv BY DEF Init, TurnInv, Connecting
  <2>6. QED BY <2>2, <2>3, <2>4, <2>5 DEF IInv
<1>2. IInv /\ [Next]_vars => IInv' BY TypeStep, AnswersStep, TurnStep DEF IInv
<1>3. QED BY <1>1, <1>2, PTL DEF Spec

(* Type correctness of run.                                                *)
THEOREM TypeCorrect == Spec => []TypeOK
<1>1. IInv => TypeOK BY DEF IInv
<1>2. QED BY <1>1, Invariant, PTL

(* No slot of the semaphore leaks.                                         *)
THEOREM SlotsSafe == Spec => []SlotsAreHeld
<1>1. IInv => SlotsAreHeld BY DEF IInv, CountInv, SlotsAreHeld
<1>2. QED BY <1>1, Invariant, PTL

(* What run returns has a stored answer per source, and its only gaps are  *)
(* those of failed sources and of jobs killed in a pod.                    *)
THEOREM ReturnedSafe == Spec => []ReturnedIsComplete
<1>1. IInv => ReturnedIsComplete
  <2> SUFFICES ASSUME IInv, returned, NEW s \in Planned
               PROVE  /\ results[s] # <<>>
                      /\ \A i \in Wanted(s) :
                           results[s][i] = "-" => \/ s \in failures
                                                  \/ s \notin Dialed /\ out[s][i] = ""
    BY DEF ReturnedIsComplete
  <2>1. s \in Sources /\ 1 \in Jobs(s) BY SourcesAssumption DEF Planned, Jobs
  <2>2. worker[s] = "done" BY <2>1 DEF IInv, AnswersInv, Unfinished
  <2>3. results[s] = Parsed(s) BY <2>1, <2>2 DEF IInv, AnswersInv
  <2>4. results[s] # <<>> BY <2>1, <2>3, ParsedType DEF IInv
  <2>5. s \in failures \/ \A i \in Wanted(s) : out[s][i] # "-"
    BY <2>1, <2>2 DEF IInv, AnswersInv
  <2>6. \A i \in Wanted(s) : i \in Jobs(s) BY DEF Wanted
  <2>7. \A i \in Jobs(s) : results[s][i] = "-" => out[s][i] \in {"-", ""} BY <2>3 DEF Parsed
  <2>8. s \in Dialed => \A i \in Jobs(s) : out[s][i] # "" BY <2>1 DEF IInv, AnswersInv
  <2>9. QED BY <2>4, <2>5, <2>6, <2>7, <2>8
<1>2. QED BY <1>1, Invariant, PTL

-----------------------------------------------------------------------------
(* Batches are intervals of `parallelism` jobs.                            *)
LEMMA BatchBounds ==
  ASSUME NEW i \in Nat \ {0}
  PROVE  /\ Batch(i) \in Nat
         /\ Batch(i) * Parallelism + 1 <= i /\ i <= Batch(i) * Parallelism + Parallelism
BY LimitsAssumption DEF Batch

LEMMA BatchesAreOrdered ==
  ASSUME NEW i \in Nat \ {0}, NEW j \in Nat \ {0}, i < j PROVE Batch(i) <= Batch(j)
<1> SUFFICES ASSUME Batch(j) < Batch(i) PROVE FALSE BY BatchBounds
<1>1. \A x, y, n \in Nat : x < y => x * n + n <= y * n OBVIOUS
<1>2. Batch(j) * Parallelism + Parallelism <= Batch(i) * Parallelism
  BY <1>1, BatchBounds, LimitsAssumption
<1>3. /\ Batch(i) * Parallelism \in Nat /\ Batch(j) * Parallelism \in Nat
      /\ Batch(i) * Parallelism + 1 <= i /\ j <= Batch(j) * Parallelism + Parallelism
  BY BatchBounds, LimitsAssumption
<1>4. QED BY <1>2, <1>3, LimitsAssumption

(* A pod never runs more connects at a time than --parallelism allows: the *)
(* jobs under way all belong to one batch.                                 *)
THEOREM PressureSafe == Spec => []PodPressure
<1>1. IInv => PodPressure
  <2> SUFFICES ASSUME IInv, NEW s \in Sources
               PROVE  Cardinality(Connecting(s)) <= Parallelism
    BY DEF PodPressure
  <2> DEFINE C == Connecting(s)
  <2>1. \A i \in C : i \in Nat \ {0} BY SourcesAssumption DEF Connecting, Jobs
  <2>2. \A i, j \in C : Batch(i) = Batch(j)
    <3> SUFFICES ASSUME NEW i \in C, NEW j \in C, i < j PROVE Batch(i) = Batch(j)
      BY <2>1
    <3>1. Batch(i) <= Batch(j) BY <2>1, BatchesAreOrdered
    <3>2. i \in Wanted(s) /\ job[s][i] # "done" /\ Turn(s, j)
      BY DEF IInv, TurnInv, Connecting
    <3>3. ~(Batch(i) < Batch(j)) BY <3>2 DEF Turn
    <3>4. Batch(i) \in Nat /\ Batch(j) \in Nat BY <2>1, BatchBounds
    <3>5. QED BY <3>1, <3>3, <3>4
  <2>3. CASE C = {} BY <2>3, FS_EmptySet, LimitsAssumption
  <2>4. ASSUME NEW c \in C PROVE Cardinality(C) <= Parallelism
    <3> DEFINE b == Batch(c) * Parallelism
    <3>1. b \in Nat BY <2>1, BatchBounds, LimitsAssumption
    <3>2. C \in SUBSET ((b + 1)..(b + Parallelism)) BY <2>1, <2>2, <3>1, BatchBounds
    <3> HIDE DEF b
    <3>3. IsFiniteSet((b + 1)..(b + Parallelism))
          /\ Cardinality((b + 1)..(b + Parallelism)) = Parallelism
      BY <3>1, LimitsAssumption, FS_Interval
    <3>4. QED BY <3>2, <3>3, FS_Subset
  <2>5. QED BY <2>3, <2>4
<1>2. QED BY <1>1, Invariant, PTL

-----------------------------------------------------------------------------
(* A step of run is a step of the contract or changes nothing in it.       *)
KilledSoFar == [s \in Planned |-> IF results[s] = <<>> THEN {} ELSE Killed(s)]

LEMMA RefinementStep ==
  ASSUME IInv, IInv', [Next]_vars
  PROVE  [Abstract!Next]_(<<[s \in Planned |-> results[s]], KilledSoFar,
                            {s \in failures : results[s] # <<>>}, returned>>)
<1> DEFINE answers == [s \in Planned |-> results[s]]
           failed  == {s \in failures : results[s] # <<>>}
<1>1. CASE UNCHANGED <<results, out, failures, returned>> BY <1>1 DEF KilledSoFar, Killed, Jobs
<1>2. ASSUME NEW s \in Sources, ExecFails(s)
      PROVE UNCHANGED <<answers, KilledSoFar, failed, returned>>
  <2>1. results[s] = <<>> BY <1>2 DEF ExecFails, IInv, AnswersInv
  <2>2. QED BY <1>2, <2>1 DEF ExecFails, KilledSoFar, Killed, Jobs
<1>3. ASSUME NEW s \in Sources, NEW i \in Jobs(s), NEW o \in Lines, EndJob(s, i, o)
      PROVE UNCHANGED <<answers, KilledSoFar, failed, returned>>
  <2>1. worker[s] = "running" /\ UNCHANGED <<results, failures, returned>> BY <1>3 DEF EndJob
  <2>2. results[s] = <<>> BY <2>1 DEF IInv, AnswersInv
  <2>3. \A t \in Sources \ {s} : out'[t] = out[t] BY <1>3 DEF EndJob, IInv, TypeOK
  <2>4. \A t \in Planned : t \in Sources BY DEF Planned
  <2>5. KilledSoFar' = KilledSoFar BY <2>1, <2>2, <2>3, <2>4 DEF KilledSoFar, Killed, Jobs
  <2>6. QED BY <2>1, <2>5
<1>4. ASSUME NEW s \in Sources, StoreResults(s) PROVE Abstract!AnswerSource(s) /\ s \in Planned
  <2> USE DEF IInv
  <2> DEFINE f == Parsed(s)
             K == Killed(s)
  <2>1. /\ worker[s] = "answered" /\ results' = [results EXCEPT ![s] = f]
        /\ UNCHANGED <<failures, returned, out>>
    BY <1>4 DEF StoreResults
  <2>2. s \in Planned /\ results[s] = <<>> BY <2>1 DEF AnswersInv
  <2>3. ~returned BY <2>1 DEF AnswersInv, Unfinished
  <2>4. f \in [Jobs(s) -> Answers \cup {"-"}] /\ f # <<>> BY <2>2, ParsedType
  <2>5. f # <<>> BY <2>4
  <2>6. K \in SUBSET (IF s \in Dialed THEN {} ELSE Jobs(s)) BY DEF Killed, AnswersInv
  <2>7. \A i \in K : f[i] = "-" BY DEF Killed, Parsed
  <2>8. s \notin failures => \A i \in Wanted(s) : f[i] = "-" => i \in K
    <3>1. \A i \in Wanted(s) : i \in Jobs(s) BY DEF Wanted
    <3>2. s \notin failures => \A i \in Wanted(s) : out[s][i] # "-" BY <2>1 DEF AnswersInv
    <3>3. QED BY <3>1, <3>2 DEF Killed, Parsed
  <2>9. results'[s] = f /\ \A t \in Sources \ {s} : results'[t] = results[t]
    BY <2>1 DEF TypeOK
  <2>10. KilledSoFar' = [KilledSoFar EXCEPT ![s] = K]
    BY <2>1, <2>2, <2>5, <2>9 DEF KilledSoFar, Killed, Jobs, Planned
  <2> HIDE DEF f, K
  <2>11. answers' = [answers EXCEPT ![s] = f] BY <2>2, <2>9 DEF Planned
  <2>12. s \in failures => failed' = failed \cup {s} BY <2>1, <2>2, <2>5, <2>9 DEF TypeOK
  <2>13. s \notin failures => failed' = failed BY <2>1, <2>2, <2>9 DEF TypeOK
  <2>14. QED
    BY <2>1, <2>2, <2>3, <2>4, <2>6, <2>7, <2>8, <2>10, <2>11, <2>12, <2>13
    DEF Abstract!AnswerSource, Abstract!Complete, KilledSoFar
<1>5. CASE Return
  <2>1. \A s \in Planned : results[s] # <<>>
    <3> SUFFICES ASSUME NEW s \in Planned PROVE results[s] # <<>> OBVIOUS
    <3>1. s \in Sources /\ 1 \in Jobs(s) BY SourcesAssumption DEF Planned, Jobs
    <3>2. worker'[s] = "done" /\ results' = results /\ out' = out
      BY <1>5, <3>1 DEF Return, IInv, AnswersInv, Unfinished
    <3>3. results[s] = Parsed(s)
      BY <3>1, <3>2, ParsedKept DEF IInv, AnswersInv
    <3>4. QED BY <3>1, <3>3, ParsedType DEF IInv
  <2>2. KilledSoFar' = KilledSoFar BY <1>5 DEF Return, KilledSoFar, Killed, Jobs
  <2>3. Abstract!Return BY <1>5, <2>1, <2>2 DEF Return, Abstract!Return, KilledSoFar
  <2>4. QED BY <2>3 DEF Abstract!Next
<1>6. QED BY <1>1, <1>2, <1>3, <1>4, <1>5
  DEF Next, WorkerStep, Finished, vars, Launch, StartJob, ScriptEnds, ReleaseSlot,
      WorkerDone, Abstract!Next, KilledSoFar

(* The goroutines of prober.run implement the contract its caller uses.    *)
THEOREM Refinement == Spec => ImplementsProbeRun
<1>1. Init => Abstract!Init
  BY DEF Init, Abstract!Init, Planned
<1>2. QED BY <1>1, Invariant, RefinementStep, PTL
  DEF Spec, ImplementsProbeRun, Abstract!Spec, KilledSoFar
=============================================================================
