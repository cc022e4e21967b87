--------------------------- MODULE PathProbeProofs ---------------------------
(***************************************************************************)
(* Proofs about PathProbe: what a verdict rests on, for any number of      *)
(* backends and attempts.                                                  *)
(***************************************************************************)
EXTENDS PathProbe, SequenceTheorems, TLAPS

(* BestOutcome picks a best member, or "error" when there is nothing else. *)
LEMMA BestOutcomeIsBest ==
  ASSUME NEW S \in SUBSET Outcomes
  PROVE  /\ BestOutcome(S) \in S \cup {"error"}
         /\ \A q \in S : rank[q] <= rank[BestOutcome(S)]
<1> DEFINE T == S \cup {"error"}
           IsBest(o) == \A q \in T : rank[q] <= rank[o]
<1>1. \E o \in T : IsBest(o)
  <2> USE DEF Outcomes, RawOutcomes, rank
  <2>1. CASE "open" \in T BY <2>1
  <2>2. CASE "open" \notin T /\ "refused" \in T BY <2>2
  <2>3. CASE "open" \notin T /\ "refused" \notin T /\ "node-refused" \in T BY <2>3
  <2>4. CASE "open" \notin T /\ "refused" \notin T /\ "node-refused" \notin T /\ "timeout" \in T
    BY <2>4
  <2>5. CASE T = {"error"} BY <2>5
  <2>6. QED BY <2>1, <2>2, <2>3, <2>4, <2>5
<1>2. BestOutcome(S) = CHOOSE o \in T : IsBest(o) BY DEF BestOutcome
<1>3. QED BY <1>1, <1>2

LEMMA CollectBestIsBest ==
  ASSUME NEW kind, NEW f, \A a \in DOMAIN f : f[a] \in RawOutcomes
  PROVE  /\ \/ CollectBest(kind, f) = "error"
            \/ \E a \in DOMAIN f : CollectBest(kind, f) = AtTarget(kind, f[a])
         /\ \A a \in DOMAIN f : rank[AtTarget(kind, f[a])] <= rank[CollectBest(kind, f)]
<1> DEFINE S == {AtTarget(kind, f[a]) : a \in DOMAIN f}
<1>1. S \in SUBSET Outcomes BY DEF AtTarget, Outcomes
<1>2. CollectBest(kind, f) = BestOutcome(S) BY DEF CollectBest
<1>3. QED BY <1>1, <1>2, BestOutcomeIsBest

-----------------------------------------------------------------------------
(* The inductive invariant.  What each outcome so far says about the path; *)
(* a first connect that timed out has met a lost packet, a dead backend or *)
(* the CNI.                                                                *)
Nobody == ~path.mapped \/ path.backends = {}

EffectiveInv == \A a \in DOMAIN raw["effective"] :
  LET o == raw["effective"][a]
  IN  /\ o = "open" => a \in touched
      /\ o = "refused" => \/ a \in touched /\ path.closed # {}
                          \/ a \in blocked /\ path.reject # {}
                          \/ Nobody
      /\ o = "timeout" /\ path.exec /\ MaxLost <= 1 => a \in blocked \/ path.dead # {}

BaselineInv == \A a \in DOMAIN raw["baseline"] :
  LET o == raw["baseline"][a]
  IN  /\ o = "open" => path.mapped /\ \E b \in path.backends : b \notin path.closed \cup path.dead
      /\ o = "refused" => (\E b \in path.closed : b \notin path.dead) \/ Nobody
      /\ o = "timeout" /\ path.exec /\ MaxLost <= 1 => path.dead # {}

(* What dial returns is never read.                                        *)
DialInv == ~path.exec =>
  \A ph \in {"effective", "baseline"} : \A a \in DOMAIN raw[ph] : raw[ph][a] = "error"

TryInv ==
  /\ try = 0 => lost = 0
  /\ try = 1 => path.exec /\ lost \in {0, 1} /\ Probing
  /\ try = 1 /\ lost = 0 /\ phase = "effective" => Now \in blocked \/ path.dead # {}
  /\ try = 1 /\ lost = 0 /\ phase = "baseline" => path.dead # {}

PhaseInv ==
  /\ phase = "effective" => raw["baseline"] = <<>>
  /\ Probing => Now \in Attempts(path.kind)
  /\ phase # "effective" => DOMAIN raw["effective"] = Attempts(path.kind)
  /\ phase \in {"classify", "judged"} => DOMAIN raw["baseline"] = Attempts(path.kind)
  /\ phase # "judged" => result = NoResult
  /\ phase = "judged" =>
       /\ result.verdict =
            Classify(DeclaredFor({IF b \in path.denies THEN "deny" ELSE "allow" : b \in path.backends}),
                     path.basis,
                     CollectBest(path.kind, raw["effective"]),
                     CollectBest(path.kind, raw["baseline"]))
       /\ result.hits = CollectHits(path.kind, raw["effective"], raw["baseline"])
       /\ result = [verdict |-> result.verdict, hits |-> result.hits]

IInv == TypeOK /\ EffectiveInv /\ BaselineInv /\ DialInv /\ TryInv /\ PhaseInv

-----------------------------------------------------------------------------
(* collect reads what a script printed for what it was, and dial's words   *)
(* as errors.                                                              *)
LEMMA OutcomeIs ==
  ASSUME NEW o \in RawOutcomes
  PROVE  Outcome(o) = IF path.exec THEN o ELSE "error"
BY DEF Outcome, Said, agnhost, classifyOutput, RawOutcomes

(* What settling an attempt with outcome o leaves: a second connect to     *)
(* make, or the outcome on record as that of attempt Now.                  *)
Repeats(o) ==
  /\ Retried(o)
  /\ try' = 1 /\ raw' = raw /\ phase' = phase

Records(o) ==
  /\ ~Retried(o)
  /\ try' = 0
  /\ raw' \in [{"effective", "baseline"} -> Seq(RawOutcomes)]
  /\ \A ph \in {"effective", "baseline"} : ph # phase => raw'[ph] = raw[ph]
  /\ DOMAIN raw'[phase] = DOMAIN raw[phase] \cup {Now}
  /\ \A a \in DOMAIN raw[phase] : a # Now /\ raw'[phase][a] = raw[phase][a]
  /\ raw'[phase][Now] = IF path.exec THEN o ELSE "error"
  /\ phase' = PhaseAfter
  /\ Len(raw'[phase]) = Now /\ Now \in Nat /\ Now >= 1

LEMMA SettleCases ==
  ASSUME TypeOK, Probing, NEW o \in RawOutcomes, Settle(o)
  PROVE  Repeats(o) \/ Records(o)
<1>1. CASE Retried(o)
  BY <1>1 DEF Settle, Repeats
<1>2. CASE ~Retried(o)
  <2> DEFINE s == raw[phase]
             w == IF path.exec THEN o ELSE "error"
  <2>0. w \in RawOutcomes /\ Outcome(o) = w BY OutcomeIs DEF RawOutcomes
  <2>1. s \in Seq(RawOutcomes) /\ phase \in {"effective", "baseline"} BY DEF TypeOK, Probing
  <2> HIDE DEF w
  <2>2. /\ Append(s, w) \in Seq(RawOutcomes)
        /\ Len(Append(s, w)) = Len(s) + 1
        /\ \A i \in 1..Len(s) : Append(s, w)[i] = s[i]
        /\ Append(s, w)[Len(s) + 1] = w
    BY <2>0, <2>1, AppendProperties
  <2>3. DOMAIN s = 1..Len(s) /\ DOMAIN Append(s, w) = 1..(Len(s) + 1) /\ Len(s) \in Nat
    BY <2>0, <2>1, <2>2, LenProperties
  <2>4. raw' = [raw EXCEPT ![phase] = Append(s, w)] BY <1>2, <2>0 DEF Settle
  <2>5. raw'[phase] = Append(s, w) /\ \A ph \in {"effective", "baseline"} : ph # phase => raw'[ph] = raw[ph]
    BY <2>1, <2>4 DEF TypeOK
  <2>6. raw' \in [{"effective", "baseline"} -> Seq(RawOutcomes)] BY <2>1, <2>2, <2>4 DEF TypeOK
  <2>7. QED BY <1>2, <2>2, <2>3, <2>5, <2>6 DEF Settle, Records, Now, w
<1>3. QED BY <1>1, <1>2

(* The last attempt of a phase completes its record.                       *)
LEMMA LastAttempt ==
  ASSUME TypeOK, Probing, Now \in Attempts(path.kind), Now + 1 \notin Attempts(path.kind),
         NEW o \in RawOutcomes, Records(o)
  PROVE  DOMAIN raw'[phase] = Attempts(path.kind)
<1>1. DOMAIN raw'[phase] = 1..Now BY LenProperties DEF Records, Probing
<1>2. ASSUME NEW n \in Nat, Now \in 1..n, Now + 1 \notin 1..n, Now \in Nat PROVE n = Now
  BY <1>2
<1>3. Attempts(path.kind) = 1..Now BY <1>2, AttemptsAssumption DEF Attempts, Records
<1>4. QED BY <1>1, <1>3

(* One connect, whatever the network does with it: the facts the steps     *)
(* below share.                                                            *)
LEMMA TypeAfterConnect ==
  ASSUME IInv, Probing, NEW o \in RawOutcomes, Settle(o), UNCHANGED <<path, result>>,
         lost' \in 0..MaxLost,
         touched' \in {touched, touched \cup {Now}}, blocked' \in {blocked, blocked \cup {Now}}
  PROVE  TypeOK'
<1>1. Now \in Attempts(path.kind) BY DEF IInv, PhaseInv
<1>2. Repeats(o) \/ Records(o) BY SettleCases DEF IInv
<1>3. CASE Repeats(o) BY <1>1, <1>3 DEF IInv, TypeOK, Repeats
<1>4. CASE Records(o) BY <1>1, <1>4 DEF IInv, TypeOK, Records, Probing, PhaseAfter
<1>5. QED BY <1>2, <1>3, <1>4

LEMMA PhaseAfterConnect ==
  ASSUME IInv, Probing, NEW o \in RawOutcomes, Settle(o), UNCHANGED <<path, result>>
  PROVE  PhaseInv'
<1> USE DEF IInv, PhaseInv, Probing
<1>1. Repeats(o) \/ Records(o) BY SettleCases
<1>2. CASE Repeats(o) BY <1>2 DEF Repeats, Now
<1>3. CASE Records(o)
  <2> USE DEF Records, PhaseAfter
  <2>1. CASE Now + 1 \in Attempts(path.kind)
    <3>1. phase' = phase /\ Now' = Now + 1 BY <1>3, <2>1 DEF Now
    <3>2. QED BY <1>3, <2>1, <3>1
  <2>2. CASE Now + 1 \notin Attempts(path.kind) /\ phase = "effective"
    <3>1. phase' = "baseline" /\ raw'["baseline"] = <<>> BY <1>3, <2>2
    <3>2. Now' = 1 BY <3>1 DEF Now
    <3>3. 1 \in Attempts(path.kind) BY AttemptsAssumption DEF Attempts
    <3>4. DOMAIN raw'["effective"] = Attempts(path.kind) BY <1>3, <2>2, LastAttempt
    <3>5. QED BY <1>3, <2>2, <3>1, <3>2, <3>3, <3>4
  <2>3. CASE Now + 1 \notin Attempts(path.kind) /\ phase = "baseline"
    <3>1. phase' = "classify" /\ raw'["effective"] = raw["effective"] BY <1>3, <2>3
    <3>2. DOMAIN raw'["baseline"] = Attempts(path.kind) BY <1>3, <2>3, LastAttempt
    <3>3. QED BY <1>3, <2>3, <3>1, <3>2
  <2>4. QED BY <2>1, <2>2, <2>3
<1>4. QED BY <1>1, <1>2, <1>3

(* A new outcome joins EffectiveInv or BaselineInv if it keeps them itself. *)
LEMMA OutcomesAfterConnect ==
  ASSUME IInv, Probing, NEW o \in RawOutcomes, Settle(o), UNCHANGED <<path, result>>,
         touched \subseteq touched', blocked \subseteq blocked',
         phase = "effective" /\ o = "open" => Now \in touched',
         phase = "effective" /\ o = "refused" =>
           \/ Now \in touched' /\ path.closed # {}
           \/ Now \in blocked' /\ path.reject # {}
           \/ Nobody,
         phase = "effective" /\ o = "timeout" /\ path.exec /\ MaxLost <= 1 /\ try = 1 =>
           Now \in blocked' \/ path.dead # {},
         phase = "baseline" /\ o = "open" => path.mapped /\ \E b \in path.backends : b \notin path.closed \cup path.dead,
         phase = "baseline" /\ o = "refused" => (\E b \in path.closed : b \notin path.dead) \/ Nobody,
         phase = "baseline" /\ o = "timeout" /\ path.exec /\ MaxLost <= 1 /\ try = 1 => path.dead # {}
  PROVE  EffectiveInv' /\ BaselineInv' /\ DialInv'
<1> USE DEF IInv, EffectiveInv, BaselineInv, Nobody
<1>1. Repeats(o) \/ Records(o) BY SettleCases
<1>2. ASSUME Repeats(o) PROVE EffectiveInv' /\ BaselineInv' BY <1>2 DEF Repeats
<1>3. ASSUME Records(o) PROVE EffectiveInv' /\ BaselineInv'
  <2> USE DEF Records, Retried
  <2>0. try \in {0, 1} BY DEF TypeOK
  <2>1. CASE phase = "effective"
    <3>1. raw'["baseline"] = raw["baseline"] BY <1>3, <2>1
    <3>2. BaselineInv' BY <3>1
    <3>3. EffectiveInv' BY <1>3, <2>0, <2>1
    <3>4. QED BY <3>2, <3>3
  <2>2. CASE phase = "baseline"
    <3>1. raw'["effective"] = raw["effective"] BY <1>3, <2>2
    <3>2. EffectiveInv' BY <3>1
    <3>3. BaselineInv' BY <1>3, <2>0, <2>2
    <3>4. QED BY <3>2, <3>3
  <2>3. QED BY <2>1, <2>2 DEF Probing
<1>4. DialInv'
  <2>1. CASE Repeats(o) BY <2>1 DEF Repeats, DialInv
  <2>2. CASE Records(o) BY <2>2 DEF Records, DialInv, Probing
  <2>3. QED BY <1>1, <2>1, <2>2
<1>5. QED BY <1>1, <1>2, <1>3, <1>4

LEMMA ConnectStep == ASSUME IInv, NEW b \in Backends, Connect(b) PROVE IInv'
<1> DEFINE o == AtBackend(b)
<1>0. /\ Probing /\ path.mapped /\ b \in path.backends /\ Settle(o)
      /\ UNCHANGED <<path, result>>
      /\ touched' = IF phase = "effective" /\ b \notin path.dead /\ ~Stopped(b)
                      THEN touched \cup {Now} ELSE touched
      /\ blocked' = IF b \notin path.dead /\ Stopped(b) THEN blocked \cup {Now} ELSE blocked
      /\ lost' = IF try' = 0 THEN 0 ELSE lost
  BY DEF Connect
<1>1. o \in RawOutcomes BY DEF AtBackend, RawOutcomes
<1>2. lost' \in 0..MaxLost BY <1>0, MaxLostAssumption DEF IInv, TypeOK
<1>3. TypeOK' BY <1>0, <1>1, <1>2, TypeAfterConnect
<1>4. PhaseInv' BY <1>0, <1>1, PhaseAfterConnect
<1>5. EffectiveInv' /\ BaselineInv' /\ DialInv'
  <2>1. o = "open" => b \notin path.dead /\ b \notin path.closed /\ ~Stopped(b) BY DEF AtBackend
  <2>2. o = "refused" => \/ b \notin path.dead /\ b \in path.closed /\ ~Stopped(b)
                         \/ b \notin path.dead /\ b \in path.reject /\ Stopped(b)
    BY DEF AtBackend, Stopped
  <2>3. o = "timeout" => b \in path.dead \/ Stopped(b) BY DEF AtBackend
  <2>4. Stopped(b) => phase = "effective" BY DEF Stopped
  <2>5. QED BY <1>0, <1>1, <2>1, <2>2, <2>3, <2>4, OutcomesAfterConnect
<1>6. TryInv'
  <2>1. Repeats(o) \/ Records(o) BY <1>0, <1>1, SettleCases DEF IInv
  <2>2. CASE Records(o) BY <1>0, <2>2 DEF Records, TryInv
  <2>3. CASE Repeats(o)
    <3>1. Now' = Now BY <2>3 DEF Repeats, Now
    <3>2. b \in path.dead \/ Stopped(b) BY <2>3 DEF Repeats, Retried, AtBackend
    <3>3. QED BY <1>0, <2>3, <3>1, <3>2 DEF IInv, TryInv, Repeats, Retried, Probing, Stopped
  <2>4. QED BY <2>1, <2>2, <2>3
<1>7. QED BY <1>3, <1>4, <1>5, <1>6 DEF IInv

LEMMA ConnectNowhereStep == ASSUME IInv, ConnectNowhere PROVE IInv'
<1>0. /\ Probing /\ Nobody /\ Settle("refused") /\ lost' = 0
      /\ UNCHANGED <<path, touched, blocked, result>>
  BY DEF ConnectNowhere, Nobody
<1>1. "refused" \in RawOutcomes BY DEF RawOutcomes
<1>2. lost' \in 0..MaxLost BY <1>0, MaxLostAssumption
<1>3. TypeOK' BY <1>0, <1>1, <1>2, TypeAfterConnect
<1>4. PhaseInv' BY <1>0, <1>1, PhaseAfterConnect
<1>5. EffectiveInv' /\ BaselineInv' /\ DialInv' BY <1>0, <1>1, OutcomesAfterConnect
<1>6. TryInv'
  <2>1. try' = 0 BY <1>0 DEF Settle, Retried
  <2>2. QED BY <1>0, <2>1 DEF TryInv
<1>7. QED BY <1>3, <1>4, <1>5, <1>6 DEF IInv

(* The network loses at most one connect of an attempt, so a second one    *)
(* that times out follows a first that met a dead backend or the CNI.      *)
LEMMA LoseConnectStep == ASSUME IInv, LoseConnect PROVE IInv'
<1>0. /\ Probing /\ lost < MaxLost /\ Settle("timeout")
      /\ lost' = IF try' = 0 THEN 0 ELSE lost + 1
      /\ UNCHANGED <<path, touched, blocked, result>>
  BY DEF LoseConnect
<1>1. "timeout" \in RawOutcomes BY DEF RawOutcomes
<1>2. lost' \in 0..MaxLost BY <1>0, MaxLostAssumption DEF IInv, TypeOK
<1>3. TypeOK' BY <1>0, <1>1, <1>2, TypeAfterConnect
<1>4. PhaseInv' BY <1>0, <1>1, PhaseAfterConnect
<1>5. EffectiveInv' /\ BaselineInv' /\ DialInv'
  <2>1. MaxLost <= 1 => lost = 0 BY <1>0, MaxLostAssumption DEF IInv, TypeOK
  <2>2. QED BY <1>0, <1>1, <2>1, OutcomesAfterConnect DEF IInv, TryInv
<1>6. TryInv'
  <2>1. Repeats("timeout") \/ Records("timeout") BY <1>0, <1>1, SettleCases DEF IInv
  <2>2. CASE Records("timeout") BY <1>0, <2>2 DEF Records, TryInv
  <2>3. CASE Repeats("timeout")
    BY <1>0, <2>3 DEF IInv, TryInv, Repeats, Retried, Probing
  <2>4. QED BY <2>1, <2>2, <2>3
<1>7. QED BY <1>3, <1>4, <1>5, <1>6 DEF IInv

LEMMA ConnectErrsStep == ASSUME IInv, ConnectErrs PROVE IInv'
<1>0. /\ Probing /\ Settle("error") /\ lost' = 0
      /\ UNCHANGED <<path, touched, blocked, result>>
  BY DEF ConnectErrs
<1>1. "error" \in RawOutcomes BY DEF RawOutcomes
<1>2. lost' \in 0..MaxLost BY <1>0, MaxLostAssumption
<1>3. TypeOK' BY <1>0, <1>1, <1>2, TypeAfterConnect
<1>4. PhaseInv' BY <1>0, <1>1, PhaseAfterConnect
<1>5. EffectiveInv' /\ BaselineInv' /\ DialInv' BY <1>0, <1>1, OutcomesAfterConnect
<1>6. TryInv'
  <2>1. try' = 0 BY <1>0 DEF Settle, Retried
  <2>2. QED BY <1>0, <2>1 DEF TryInv
<1>7. QED BY <1>3, <1>4, <1>5, <1>6 DEF IInv

(* Classify always answers with a verdict.                                 *)
LEMMA ClassifyRange ==
  ASSUME NEW d, NEW b, NEW e, NEW base PROVE Classify(d, b, e, base) \in Verdicts
BY DEF Classify, Verdicts

LEMMA ClassifyPairStep == ASSUME IInv, ClassifyPair PROVE IInv'
<1> USE DEF IInv, ClassifyPair
<1>1. TypeOK' BY ClassifyRange DEF TypeOK
<1>2. EffectiveInv' /\ BaselineInv' /\ DialInv' BY DEF EffectiveInv, BaselineInv, DialInv, Nobody
<1>3. TryInv' BY DEF TryInv, Probing
<1>4. PhaseInv' BY DEF PhaseInv, Probing
<1>5. QED BY <1>1, <1>2, <1>3, <1>4

(* IInv is an inductive invariant of a pair's measurement.                 *)
THEOREM Invariant == Spec => []IInv
<1>1. Init => IInv
  <2> SUFFICES ASSUME Init PROVE IInv OBVIOUS
  <2>1. TypeOK
    <3>1. <<>> \in Seq(RawOutcomes) BY EmptySeq
    <3>2. ASSUME NEW R, <<>> \in R
          PROVE  [effective |-> <<>>, baseline |-> <<>>] \in [{"effective", "baseline"} -> R]
      BY <3>2
    <3>3. lost \in 0..MaxLost BY MaxLostAssumption DEF Init
    <3>4. result.verdict = "none" BY DEF Init, NoResult
    <3>5. raw \in [{"effective", "baseline"} -> Seq(RawOutcomes)] BY <3>1, <3>2 DEF Init
    <3>6. QED BY <3>3, <3>4, <3>5 DEF Init, TypeOK
  <2>2. EffectiveInv /\ BaselineInv /\ DialInv BY DEF Init, EffectiveInv, BaselineInv, DialInv
  <2>3. TryInv BY DEF Init, TryInv
  <2>4. PhaseInv BY AttemptsAssumption DEF Init, PhaseInv, Now, Attempts, Probing, NoResult
  <2>5. QED BY <2>1, <2>2, <2>3, <2>4 DEF IInv
<1>2. IInv /\ [Next]_vars => IInv'
  <2> SUFFICES ASSUME IInv, [Next]_vars PROVE IInv' OBVIOUS
  <2>1. CASE UNCHANGED vars
    BY <2>1 DEF vars, IInv, TypeOK, EffectiveInv, BaselineInv, DialInv,
         TryInv, PhaseInv, Probing, Now, Nobody
  <2>2. QED
    BY <2>1, ConnectStep, ConnectNowhereStep, LoseConnectStep, ConnectErrsStep, ClassifyPairStep DEF Next
<1>3. QED BY <1>1, <1>2, PTL DEF Spec

\* The states of a probed pair are of their types.
THEOREM TypeCorrect == Spec => []TypeOK
<1>1. IInv => TypeOK BY DEF IInv
<1>2. QED BY <1>1, Invariant, PTL

-----------------------------------------------------------------------------
(* What the rank of a best outcome says about it.                          *)
LEMMA RankOfBest ==
  ASSUME NEW kind, NEW f, \A a \in DOMAIN f : f[a] \in RawOutcomes,
         NEW a \in DOMAIN f
  PROVE  /\ f[a] = "open" => CollectBest(kind, f) = "open"
         /\ f[a] = "refused" /\ kind \notin NodeAddressed => CollectBest(kind, f) \in {"open", "refused"}
<1> DEFINE e == CollectBest(kind, f)
<1>1. rank[AtTarget(kind, f[a])] <= rank[e] BY CollectBestIsBest
<1>2. e \in Outcomes BY CollectBestIsBest DEF AtTarget, Outcomes, RawOutcomes
<1>3. \A o \in Outcomes : /\ rank[o] >= 4 => o = "open"
                          /\ rank[o] >= 3 => o \in {"open", "refused"}
                          /\ rank[o] \in Nat
  BY DEF rank, Outcomes, RawOutcomes
<1>4. rank["open"] = 4 /\ rank["refused"] = 3 BY DEF rank, Outcomes, RawOutcomes
<1>5. CASE f[a] = "open"
  <2>1. AtTarget(kind, f[a]) = "open" BY <1>5 DEF AtTarget
  <2>2. rank[e] >= 4 BY <1>1, <1>2, <1>3, <1>4, <2>1
  <2>3. QED BY <1>2, <1>3, <1>5, <2>2
<1>6. CASE f[a] = "refused" /\ kind \notin NodeAddressed
  <2>1. AtTarget(kind, f[a]) = "refused" BY <1>6 DEF AtTarget
  <2>2. rank[e] >= 3 BY <1>1, <1>2, <1>3, <1>4, <2>1
  <2>3. QED BY <1>2, <1>3, <1>6, <2>2
<1>7. QED BY <1>5, <1>6

(* A best outcome that counts comes from an attempt that saw it.           *)
LEMMA BestComesFrom ==
  ASSUME NEW kind, NEW f, \A a \in DOMAIN f : f[a] \in RawOutcomes
  PROVE  /\ CollectBest(kind, f) = "open" => \E a \in DOMAIN f : f[a] = "open"
         /\ CollectBest(kind, f) = "refused" =>
              kind \notin NodeAddressed /\ \E a \in DOMAIN f : f[a] = "refused"
BY CollectBestIsBest DEF AtTarget, RawOutcomes

(* When Classify gives each verdict, and what is declared for the backends. *)
LEMMA VerdictCases ==
  ASSUME NEW d, NEW b, NEW e, NEW base, NEW v, v = Classify(d, b, e, base)
  PROVE  /\ v = "unreachable" <=> ~BaselineReachable(base)
         /\ v \in {"bypass", "spec-exception"} => d = "deny" /\ Reachable(e, base)
         /\ v = "overblock" => d = "allow" /\ ~Reachable(e, base)
         /\ v = "match" /\ d = "allow" => Reachable(e, base)
         /\ v = "match" /\ d = "deny" => ~Reachable(e, base)
BY DEF Classify

LEMMA DeclaredCases ==
  ASSUME NEW B, NEW D \in SUBSET B, NEW d,
         d = DeclaredFor({IF b \in D THEN "deny" ELSE "allow" : b \in B})
  PROVE  /\ d = "deny" => B # {}
         /\ d = "allow" => B # {}
         /\ B # {} /\ D = B => d = "deny"
         /\ B # {} /\ D = {} => d = "allow"
<1> DEFINE W == {IF b \in D THEN "deny" ELSE "allow" : b \in B}
<1>1. B = {} => W = {} OBVIOUS
<1>2. B # {} /\ D = B => W = {"deny"} OBVIOUS
<1>3. B # {} /\ D = {} => W = {"allow"} OBVIOUS
<1>4. QED BY <1>1, <1>2, <1>3 DEF DeclaredFor

(* The three sections below work on one judged pair.                       *)
Eff  == CollectBest(path.kind, raw["effective"])
Base == CollectBest(path.kind, raw["baseline"])

LEMMA Judged ==
  ASSUME IInv, result.verdict # "none"
  PROVE  /\ 1 \in DOMAIN raw["effective"] /\ 1 \in DOMAIN raw["baseline"]
         /\ \A ph \in {"effective", "baseline"} :
              \A a \in DOMAIN raw[ph] : raw[ph][a] \in RawOutcomes
         /\ result.verdict = "unreachable" <=> ~BaselineReachable(Base)
         /\ SaysReached => path.backends # {} /\ Reachable(Eff, Base)
         /\ SaysBlocked => path.backends # {} /\ ~Reachable(Eff, Base)
<1>1. phase = "judged" BY DEF IInv, PhaseInv, NoResult
<1>2. ASSUME NEW s \in Seq(RawOutcomes), NEW a \in DOMAIN s PROVE s[a] \in RawOutcomes
  BY <1>2, ElementOfSeq, LenProperties
<1>3. \A ph \in {"effective", "baseline"} : \A a \in DOMAIN raw[ph] : raw[ph][a] \in RawOutcomes
  BY <1>2 DEF IInv, TypeOK
<1> DEFINE d == DeclaredFor({IF b \in path.denies THEN "deny" ELSE "allow" : b \in path.backends})
<1>4. result.verdict = Classify(d, path.basis, Eff, Base)
  BY <1>1 DEF IInv, PhaseInv, Eff, Base
<1>5. path.denies \subseteq path.backends BY DEF IInv, TypeOK, Paths
<1>6. /\ d = "deny" => path.backends # {}
      /\ d = "allow" => path.backends # {}
      /\ Deny => d = "deny"
      /\ Allow => d = "allow"
  BY <1>5, DeclaredCases DEF Deny, Allow
<1> HIDE DEF d
<1>7. /\ result.verdict = "unreachable" <=> ~BaselineReachable(Base)
      /\ SaysReached => path.backends # {} /\ Reachable(Eff, Base)
      /\ SaysBlocked => path.backends # {} /\ ~Reachable(Eff, Base)
  BY <1>4, <1>6, VerdictCases DEF SaysReached, SaysBlocked, Allow, Deny
<1>8. QED BY <1>1, <1>3, <1>7, AttemptsAssumption DEF IInv, PhaseInv, Attempts

(* A pair is called reached only on the strength of a packet that reached  *)
(* a backend pod, however many backends, attempts and lost connects.       *)
THEOREM ReachSafe == Spec => []ReachVerdictIsWitnessed
<1>1. IInv => ReachVerdictIsWitnessed
  <2> SUFFICES ASSUME IInv, SaysReached, RejectIsTold PROVE touched # {}
    BY DEF ReachVerdictIsWitnessed
  <2>1. result.verdict # "none" BY DEF SaysReached
  <2>2. path.backends # {} /\ Reachable(Eff, Base) BY <2>1, Judged
  <2>3. CASE Eff = "open"
    <3>1. PICK a \in DOMAIN raw["effective"] : raw["effective"][a] = "open"
      BY <2>1, <2>3, Judged, BestComesFrom DEF Eff
    <3>2. QED BY <3>1 DEF IInv, EffectiveInv
  <2>4. CASE Eff = "refused" /\ Base = "refused"
    <3>1. path.kind \notin NodeAddressed BY <2>1, <2>4, Judged, BestComesFrom DEF Eff
    <3>2. path.mapped /\ ~Nobody BY <2>2, <3>1 DEF IInv, TypeOK, Paths, Nobody
    <3>3. PICK a \in DOMAIN raw["effective"] : raw["effective"][a] = "refused"
      BY <2>1, <2>4, Judged, BestComesFrom DEF Eff
    <3>4. PICK c \in DOMAIN raw["baseline"] : raw["baseline"][c] = "refused"
      BY <2>1, <2>4, Judged, BestComesFrom DEF Base
    <3>5. path.closed # {} BY <3>2, <3>4 DEF IInv, BaselineInv
    <3>6. path.reject = {} BY <3>5 DEF RejectIsTold
    <3>7. QED BY <3>2, <3>3, <3>6 DEF IInv, EffectiveInv
  <2>5. QED BY <2>2, <2>3, <2>4 DEF Reachable
<1>2. QED BY <1>1, Invariant, PTL

(* Every attempt that a record counts as a hit had a packet at a backend   *)
(* pod, whichever backends the two phases met.                             *)
THEOREM HitsSafe == Spec => []HitsAreWitnessed
<1>1. IInv => HitsAreWitnessed
  <2> SUFFICES ASSUME IInv, RejectIsTold, path.backends # {}, NEW a \in result.hits
               PROVE  a \in touched
    BY DEF HitsAreWitnessed
  <2> DEFINE e == raw["effective"][a]
             o == raw["baseline"][a]
  <2>1. phase = "judged" BY DEF IInv, PhaseInv, NoResult
  <2>2. /\ a \in DOMAIN raw["effective"] /\ a \in DOMAIN raw["baseline"]
        /\ Reachable(AtTarget(path.kind, e), AtTarget(path.kind, o))
    BY <2>1 DEF IInv, PhaseInv, CollectHits
  <2>3. CASE e = "open" BY <2>2, <2>3 DEF IInv, EffectiveInv
  <2>4. CASE e = "refused" /\ o = "refused" /\ path.kind \notin NodeAddressed
    <3>1. path.mapped /\ ~Nobody BY <2>4 DEF IInv, TypeOK, Paths, Nobody
    <3>2. path.closed # {} BY <2>2, <2>4, <3>1 DEF IInv, BaselineInv
    <3>3. QED BY <2>2, <2>4, <3>1, <3>2 DEF IInv, EffectiveInv, RejectIsTold
  <2>5. QED BY <2>2, <2>3, <2>4 DEF Reachable, AtTarget
<1>2. QED BY <1>1, Invariant, PTL

(* A script's pair is called unreachable by an orderly probe only for a    *)
(* dead backend or for a RST at a node address; a pair the oracle host     *)
(* dials always is, and has no hit, whatever the network does.             *)
THEOREM UnreachableSafe == Spec => []UnreachableIsExplained
<1>1. ASSUME IInv, path.exec, result.verdict = "unreachable", Orderly, path.dead = {}
      PROVE  /\ path.kind \in NodeAddressed
             /\ ~path.mapped \/ path.closed # {} \/ path.backends = {}
  <2> DEFINE o == raw["baseline"][1]
  <2>1. /\ 1 \in DOMAIN raw["baseline"] /\ o \in RawOutcomes
        /\ \A a \in DOMAIN raw["baseline"] : raw["baseline"][a] \in RawOutcomes
        /\ ~BaselineReachable(Base)
    BY <1>1, Judged
  <2>2. o = "refused"
    <3>1. o # "open" BY <2>1, RankOfBest DEF Base, BaselineReachable
    <3>2. o # "timeout" /\ o # "error" BY <1>1, <2>1 DEF IInv, BaselineInv, Orderly
    <3>3. QED BY <2>1, <3>1, <3>2 DEF RawOutcomes
  <2>3. path.kind \in NodeAddressed
    BY <2>1, <2>2, RankOfBest DEF Base, BaselineReachable
  <2>4. path.closed # {} \/ Nobody BY <1>1, <2>1, <2>2 DEF IInv, BaselineInv
  <2>5. QED BY <2>3, <2>4 DEF Nobody
<1>2. ASSUME IInv, phase = "judged", ~path.exec
      PROVE  result = [verdict |-> "unreachable", hits |-> {}]
  <2>1. \A ph \in {"effective", "baseline"} : \A a \in DOMAIN raw[ph] : raw[ph][a] = "error"
    BY <1>2 DEF IInv, DialInv
  <2>2. Base = "error" BY <2>1, CollectBestIsBest DEF Base, AtTarget, RawOutcomes
  <2>3. result.verdict = "unreachable"
    BY <1>2, <2>2, VerdictCases DEF IInv, PhaseInv, Base, BaselineReachable
  <2>4. result.hits = {}
    <3>1. ASSUME NEW a \in CollectHits(path.kind, raw["effective"], raw["baseline"]) PROVE FALSE
      BY <2>1, <3>1 DEF CollectHits, Reachable, AtTarget
    <3>2. QED BY <1>2, <3>1 DEF IInv, PhaseInv
  <2>5. result = [verdict |-> result.verdict, hits |-> result.hits] BY <1>2 DEF IInv, PhaseInv
  <2>6. QED BY <2>3, <2>4, <2>5
<1>3. IInv => UnreachableIsExplained BY <1>1, <1>2 DEF UnreachableIsExplained
<1>4. QED BY <1>3, Invariant, PTL

(* An orderly probe calls a pair whose backends answer alike blocked only  *)
(* on the strength of a packet the CNI stopped.                            *)
THEOREM BlockSafe == Spec => []BlockVerdictIsWitnessed
<1>1. IInv => BlockVerdictIsWitnessed
  <2> SUFFICES ASSUME IInv, SaysBlocked, Uniform, Orderly, blocked = {}
               PROVE  FALSE
    BY DEF BlockVerdictIsWitnessed
  <2> DEFINE o == raw["effective"][1]
  <2>1. result.verdict \notin {"none", "unreachable"} BY DEF SaysBlocked
  <2>2. /\ 1 \in DOMAIN raw["effective"] /\ o \in RawOutcomes
        /\ \A a \in DOMAIN raw["effective"] : raw["effective"][a] \in RawOutcomes
        /\ \A a \in DOMAIN raw["baseline"] : raw["baseline"][a] \in RawOutcomes
        /\ BaselineReachable(Base) /\ ~Reachable(Eff, Base) /\ path.backends # {}
    BY <2>1, Judged
  <2>3. o # "open" BY <2>2, RankOfBest DEF Eff, Reachable
  <2>4. path.closed \subseteq path.backends BY DEF IInv, TypeOK, Paths
  <2>5. CASE Base = "open"
    <3>1. PICK c \in DOMAIN raw["baseline"] : raw["baseline"][c] = "open"
      BY <2>2, <2>5, BestComesFrom DEF Base
    <3>2. path.mapped /\ path.closed = {} /\ path.dead = {}
      BY <3>1 DEF IInv, BaselineInv, Uniform
    <3>3. o # "refused" BY <2>2, <3>2 DEF IInv, EffectiveInv, Nobody
    <3>4. o # "timeout" /\ o # "error" BY <2>2, <3>2 DEF IInv, EffectiveInv, DialInv, Orderly
    <3>5. QED BY <2>2, <2>3, <3>3, <3>4 DEF RawOutcomes
  <2>6. CASE Base = "refused"
    <3>1. path.kind \notin NodeAddressed BY <2>2, <2>6, BestComesFrom DEF Base
    <3>2. ~Nobody BY <2>2, <3>1 DEF IInv, TypeOK, Paths, Nobody
    <3>3. PICK c \in DOMAIN raw["baseline"] : raw["baseline"][c] = "refused"
      BY <2>2, <2>6, BestComesFrom DEF Base
    <3>4. path.dead = {} BY <2>4, <3>2, <3>3 DEF IInv, BaselineInv, Uniform
    <3>5. o # "refused" BY <2>2, <2>6, <3>1, RankOfBest DEF Eff, Reachable
    <3>6. o # "timeout" /\ o # "error" BY <2>2, <3>4 DEF IInv, EffectiveInv, DialInv, Orderly
    <3>7. QED BY <2>2, <2>3, <3>5, <3>6 DEF RawOutcomes
  <2>7. QED BY <2>2, <2>5, <2>6 DEF BaselineReachable
<1>2. QED BY <1>1, Invariant, PTL
=============================================================================
