------------------------------- MODULE Prober -------------------------------
(***************************************************************************)
(* prober.run of hack/oracle/prober.go: one goroutine per source behind a  *)
(* counting semaphore, each running its jobs from a shell script inside    *)
(* the source's pod, in batches of `parallelism`; results collected under  *)
(* a mutex, and a WaitGroup that run waits for.                            *)
(***************************************************************************)
EXTENDS Integers, FiniteSets

CONSTANTS
  Sources,
  JobCount,     \* Sources -> how many jobs the plan has for it
  Identity,     \* Sources -> the numbers of its /clientip jobs
  Dialed,       \* "external" without a container: the oracle host dials
  Sem,          \* capacity of the semaphore; 8 in the code
  Parallelism,  \* --parallelism
  Answers       \* what a job can answer, "timeout" among them

ASSUME SourcesAssumption ==
  /\ IsFiniteSet(Sources)
  /\ JobCount \in [Sources -> Nat]
  /\ \A s \in Sources : Identity[s] \subseteq 1..JobCount[s]
  /\ Dialed \subseteq Sources
ASSUME LimitsAssumption ==
  Sem \in Nat \ {0} /\ Parallelism \in Nat \ {0}
ASSUME AnswersAssumption ==
  /\ "timeout" \in Answers /\ Answers \subseteq STRING
  /\ "-" \notin Answers /\ "" \notin Answers

VARIABLES
  todo,      \* sources the loop of run has not launched yet
  worker,    \* source -> where its goroutine is
  sem, wg,   \* slots taken; goroutines not yet Done
  job,       \* source -> job -> "todo", "first", "second" connect, "done"
  out,       \* source -> job -> what it printed after its key: "-" so far
             \* nothing, "" nothing because it was killed
  results,   \* source -> job -> answer, "-" for none; <<>> before it is stored
  failures,  \* p.failures
  returned   \* run has returned the map

vars == <<todo, worker, sem, wg, job, out, results, failures, returned>>

Jobs(s)  == 1..JobCount[s]
Planned  == {s \in Sources : JobCount[s] > 0}

\* What a job leaves behind: an answer, or nothing if it was killed.
Lines == Answers \cup {""}

\* The host does not fetch /clientip: it has no way to stand in the cluster.
Wanted(s) == IF s \in Dialed THEN Jobs(s) \ Identity[s] ELSE Jobs(s)

Init ==
  /\ todo = Planned
  /\ worker = [s \in Sources |-> "idle"]
  /\ sem = 0 /\ wg = 0
  /\ job = [s \in Sources |-> [i \in Jobs(s) |-> "todo"]]
  /\ out = [s \in Sources |-> [i \in Jobs(s) |-> "-"]]
  /\ results = [s \in Sources |-> <<>>]
  /\ failures = {}
  /\ returned = FALSE

-----------------------------------------------------------------------------
(* Mutant of SlotFree: off by one.                                         *)
SlotFreeOffByOne == sem <= Sem

(* A send on the semaphore's channel goes through.                         *)
SlotFree == sem < Sem

(* The loop over the plan, in the random order of a Go map: wg.Add, a slot *)
(* of the semaphore, go.                                                   *)
Launch(s) ==
  /\ s \in todo /\ SlotFree
  /\ todo' = todo \ {s}
  /\ wg' = wg + 1 /\ sem' = sem + 1
  /\ worker' = [worker EXCEPT ![s] = "running"]
  /\ UNCHANGED <<job, out, results, failures, returned>>

Batch(i) == (i - 1) \div Parallelism

(* Mutant of Turn: the script does not wait between batches.               *)
TurnAtOnce(s, i) == TRUE

(* The script starts the jobs of a batch at once and waits for all of them *)
(* before the next; the host dials one address after the other.            *)
Turn(s, i) ==
  \A j \in Wanted(s) :
    j < i /\ (s \in Dialed \/ Batch(j) < Batch(i)) => job[s][j] = "done"

StartJob(s, i) ==
  /\ worker[s] = "running" /\ i \in Wanted(s) /\ job[s][i] = "todo"
  /\ Turn(s, i)
  /\ job' = [job EXCEPT ![s][i] = "first"]
  /\ UNCHANGED <<todo, worker, sem, wg, out, results, failures, returned>>

(* A script's connect that times out is made once more.                    *)
Retried(s, i, o) ==
  o = "timeout" /\ job[s][i] = "first" /\ s \notin Dialed /\ i \notin Identity[s]

(* Mutant of EndJob: a connect that times out is queued again, for good.   *)
EndJobRequeues(s, i, o) ==
  /\ worker[s] = "running" /\ job[s][i] = "first"
  /\ job' = [job EXCEPT ![s][i] = IF o = "timeout" THEN "todo" ELSE "done"]
  /\ out' = [out EXCEPT ![s][i] = IF o = "timeout" THEN @ ELSE o]
  /\ UNCHANGED <<todo, worker, sem, wg, results, failures, returned>>

(* A job ends.  In a pod that is over its memory limit it may be killed:   *)
(* its line is then empty after the key, or missing.                       *)
EndJob(s, i, o) ==
  /\ worker[s] = "running" /\ job[s][i] \in {"first", "second"}
  /\ o = "" => s \notin Dialed
  /\ IF Retried(s, i, o)
       THEN /\ job' = [job EXCEPT ![s][i] = "second"]
            /\ UNCHANGED out
       ELSE /\ job' = [job EXCEPT ![s][i] = "done"]
            /\ out' = [out EXCEPT ![s][i] = o]
  /\ UNCHANGED <<todo, worker, sem, wg, results, failures, returned>>

ScriptEnds(s) ==
  /\ worker[s] = "running" /\ \A i \in Wanted(s) : job[s][i] = "done"
  /\ worker' = [worker EXCEPT ![s] = "answered"]
  /\ UNCHANGED <<todo, sem, wg, job, out, results, failures, returned>>

(* Mutant of ExecFails: the failure is only logged.                        *)
ExecFailsSilently(s) ==
  /\ worker[s] = "running" /\ s \notin Dialed
  /\ worker' = [worker EXCEPT ![s] = "answered"]
  /\ UNCHANGED <<todo, sem, wg, job, out, results, failures, returned>>

(* The exec breaks off: what was printed so far is kept, and the source is *)
(* put on record.                                                          *)
ExecFails(s) ==
  /\ worker[s] = "running" /\ s \notin Dialed
  /\ failures' = failures \cup {s}
  /\ worker' = [worker EXCEPT ![s] = "answered"]
  /\ UNCHANGED <<todo, sem, wg, job, out, results, returned>>

(* The loop over stdout: TrimSpace, and Cut at the space.  A line that has *)
(* nothing after its key is dropped, and nothing is put on record.         *)
Parsed(s) == [i \in Jobs(s) |-> IF out[s][i] = "" THEN "-" ELSE out[s][i]]

StoreResults(s) ==
  /\ worker[s] = "answered"
  /\ results' = [results EXCEPT ![s] = Parsed(s)]
  /\ worker' = [worker EXCEPT ![s] = "stored"]
  /\ UNCHANGED <<todo, sem, wg, job, out, failures, returned>>

(* Mutant of ReleaseSlot: the slot is not given back.                      *)
ReleaseSlotLeaks(s) ==
  /\ worker[s] = "stored"
  /\ worker' = [worker EXCEPT ![s] = "released"]
  /\ UNCHANGED <<todo, sem, wg, job, out, results, failures, returned>>

(* The deferred calls, last registered first: the slot, then wg.Done.      *)
ReleaseSlot(s) ==
  /\ worker[s] = "stored"
  /\ sem' = sem - 1
  /\ worker' = [worker EXCEPT ![s] = "released"]
  /\ UNCHANGED <<todo, wg, job, out, results, failures, returned>>

WorkerDone(s) ==
  /\ worker[s] = "released"
  /\ wg' = wg - 1
  /\ worker' = [worker EXCEPT ![s] = "done"]
  /\ UNCHANGED <<todo, sem, job, out, results, failures, returned>>

(* Mutant of Return: run does not wait.                                    *)
ReturnEarly ==
  /\ todo = {} /\ ~returned
  /\ returned' = TRUE
  /\ UNCHANGED <<todo, worker, sem, wg, job, out, results, failures>>

(* wg.Wait, then return results.                                           *)
Return ==
  /\ todo = {} /\ wg = 0 /\ ~returned
  /\ returned' = TRUE
  /\ UNCHANGED <<todo, worker, sem, wg, job, out, results, failures>>

Finished == returned /\ UNCHANGED vars

WorkerStep(s) ==
  \/ \E i \in Jobs(s) : StartJob(s, i) \/ \E o \in Lines : EndJob(s, i, o)
  \/ ScriptEnds(s) \/ ExecFails(s)
  \/ StoreResults(s) \/ ReleaseSlot(s) \/ WorkerDone(s)

Next ==
  \/ \E s \in Sources : Launch(s) \/ WorkerStep(s)
  \/ Return \/ Finished

(* Goroutines are scheduled, and every job ends: the connect's and wget's  *)
(* timeouts bound it.  That the exec itself ends or fails is an assumption *)
(* about the API server: it gets no deadline.                              *)
Fairness ==
  /\ WF_vars(\E s \in Sources : Launch(s))
  /\ \A s \in Sources : WF_vars(WorkerStep(s))
  /\ WF_vars(Return)

Spec == Init /\ [][Next]_vars
FairSpec == Spec /\ Fairness

-----------------------------------------------------------------------------
TypeOK ==
  /\ todo \subseteq Planned
  /\ worker \in [Sources -> {"idle", "running", "answered", "stored", "released", "done"}]
  /\ sem \in 0..Sem /\ wg \in Nat
  /\ DOMAIN job = Sources /\ DOMAIN out = Sources /\ DOMAIN results = Sources
  /\ \A s \in Sources :
       /\ job[s] \in [Jobs(s) -> {"todo", "first", "second", "done"}]
       /\ out[s] \in [Jobs(s) -> Lines \cup {"-"}]
       /\ results[s] = <<>> \/ results[s] = Parsed(s)
  /\ failures \subseteq Sources
  /\ returned \in BOOLEAN

Connecting(s) == {i \in Jobs(s) : job[s][i] \in {"first", "second"}}

(* "parallelism caps concurrent connects inside one source pod" (they      *)
(* share the pod's memory limit with the app): whatever the batches and    *)
(* retries, never more than that many processes of a running script.       *)
PodPressure ==
  \A s \in Sources : worker[s] = "running" => Cardinality(Connecting(s)) <= Parallelism

(* What a caller may rely on when run returns: every planned source has    *)
(* its results stored, and a job without an answer belongs to a source     *)
(* that is on record as failed, or was killed inside a pod.  The second    *)
(* kind of gap leaves no trace (prober.go:92-96), so the refusal at        *)
(* main.go:189-193 does not see it.                                        *)
ReturnedIsComplete ==
  returned => \A s \in Planned :
    /\ results[s] # <<>>
    /\ \A i \in Wanted(s) :
         results[s][i] = "-" => \/ s \in failures
                                \/ s \notin Dialed /\ out[s][i] = ""

Holders == {s \in Sources : worker[s] \in {"running", "answered", "stored"}}

(* Slots of the semaphore are exactly the goroutines that hold one, so no  *)
(* more than Sem execs run and no slot leaks.                              *)
SlotsAreHeld == sem = Cardinality(Holders)

(* The run returns, whatever answers the jobs get and whichever execs fail. *)
RunReturns == <>returned

Killed(s) == {i \in Jobs(s) : out[s][i] = ""}

Abstract == INSTANCE ProbeRun WITH
  JobsOf   <- [s \in Planned |-> Jobs(s)],
  Due      <- [s \in Planned |-> Wanted(s)],
  Mortal   <- [s \in Planned |-> IF s \in Dialed THEN {} ELSE Jobs(s)],
  NoAnswer <- "-",
  answers  <- [s \in Planned |-> results[s]],
  killed   <- [s \in Planned |-> IF results[s] = <<>> THEN {} ELSE Killed(s)],
  failed   <- {s \in failures : results[s] # <<>>}

(* The goroutines implement the plain contract the oracle's run relies on. *)
ImplementsProbeRun == Abstract!Spec
=============================================================================
