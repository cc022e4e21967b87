------------------------------ MODULE ProbeRun ------------------------------
(***************************************************************************)
(* What the rest of the oracle relies on when it calls prober.run: every   *)
(* planned source is answered once, either as a failed source or with an   *)
(* answer to each job that is due, but for the jobs that were killed in    *)
(* their pod, in any order; and the call returns only when all of them     *)
(* are.  Nothing tells the caller which jobs were killed.                  *)
(* The goroutines, the semaphore and the scripts are in Prober.            *)
(***************************************************************************)
EXTENDS Naturals, FiniteSets

CONSTANTS
  Planned,   \* sources with at least one job
  JobsOf,    \* Planned -> the jobs of the source
  Due,       \* Planned -> those of them that must have an answer
  Mortal,    \* Planned -> those of them that a script runs
  Answers,   \* what a job can answer
  NoAnswer   \* in place of an answer: no line for the job's key

VARIABLES
  answers,   \* source -> job -> outcome; <<>> before the source is answered
  killed,    \* source -> jobs that were killed; the caller does not see it
  failed,    \* answered sources whose exec failed
  returned

Init ==
  /\ answers = [s \in Planned |-> <<>>] /\ killed = [s \in Planned |-> {}]
  /\ failed = {} /\ returned = FALSE

Complete(s, f, K) == \A i \in Due[s] : f[i] = NoAnswer => i \in K

AnswerSource(s) ==
  /\ ~returned /\ answers[s] = <<>>
  /\ \E f \in [JobsOf[s] -> Answers \cup {NoAnswer}], K \in SUBSET Mortal[s] :
       /\ answers' = [answers EXCEPT ![s] = f]
       /\ killed' = [killed EXCEPT ![s] = K]
       /\ \A i \in K : f[i] = NoAnswer
       /\ \/ Complete(s, f, K) /\ failed' = failed
          \/ failed' = failed \cup {s}
  /\ UNCHANGED returned

Return ==
  /\ ~returned /\ \A s \in Planned : answers[s] # <<>>
  /\ returned' = TRUE
  /\ UNCHANGED <<answers, killed, failed>>

Next == (\E s \in Planned : AnswerSource(s)) \/ Return

Spec == Init /\ [][Next]_<<answers, killed, failed, returned>>
=============================================================================
