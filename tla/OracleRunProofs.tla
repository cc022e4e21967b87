--------------------------- MODULE OracleRunProofs ---------------------------
(***************************************************************************)
(* Proofs about OracleRun, for every scenario, cluster and number of runs, *)
(* faults and crashes.                                                     *)
(***************************************************************************)
EXTENDS OracleRun, TLAPS

(* The inductive invariant.  Where the policies are at each step of a run: *)
(* all there before removePolicies, exactly the pending ones, the last of  *)
(* the list, while it deletes, none until the restore, and exactly the     *)
(* ones that are not pending, the first of the list, while the restore     *)
(* recreates them.                                                         *)
Before  == {"collect", "setup", "inject", "effective", "list"}
Without == {"waitOpen", "shadow", "unshadow", "baseline", "drop"}
Back    == {"waitBlocked", "check", "write"}

PoliciesInv ==
  /\ pc \in Before => policies = Policies /\ ~armed
  /\ pc = "delete" => policies = pending /\ LastOnes(policies) /\ ~armed
  /\ pc \in Without => policies = {} /\ armed
  /\ pc = "restore" => policies = Policies \ pending /\ FirstOnes(policies) /\ armed
  /\ pc = "deferRestore" =>
       /\ armed /\ FirstOnes(policies)
       /\ policies = Policies \ pending \/ (createFault /\ pending = Policies)
  /\ pc \in Back => policies = Policies /\ ~armed
  /\ pc \in {"teardown", "exited"} =>
       \/ policies = Policies \/ ending = "crash"
       \/ deleteFault /\ ending = "remove" /\ LastOnes(policies)
       \/ createFault /\ FirstOnes(policies)
  /\ pc \in {"delete", "restore"} \cup Without => saved = Policies

(* How a run ends, and which shadows it still holds.                       *)
EndingInv ==
  /\ pc \in Before \cup {"delete", "restore"} \cup Without \cup Back => ending = "none"
  /\ ending = "ok" => pc \in {"deferRestore", "teardown", "exited", "idle"}
  /\ pc \in Steps \ {"shadow", "unshadow", "baseline", "drop", "idle", "exited"}
       \/ Exited => made = {}

ShadowsInv ==
  /\ pc # "idle" /\ ending # "crash" =>
       /\ leftover \subseteq shadows /\ leftover \cap made = {}
       /\ serviceFault \/ shadows = leftover \cup made
  /\ pc \in {"baseline", "drop", "restore"} \cup Back => leftover = {}
  /\ ending = "ok" => leftover = {}

(* What has been measured: the truth if every probe met a dataplane that   *)
(* was up to date.                                                         *)
AfterEffective == {"list", "delete", "restore"} \cup Without \cup Back
AfterBaseline  == {"drop", "restore"} \cup Back

Blocked(p) == Denied[p] \cap Honoured # {}

MeasuredInv ==
  /\ pc \in {"setup", "inject", "effective"} \cup AfterEffective => snap = Policies
  /\ pc \in AfterEffective => \A p \in Paths : eff[p] # "none"
  /\ pc \in AfterBaseline => \A p \in Paths : base[p] # "none"
  /\ \A p \in Paths :
       /\ ~failures => eff[p] # "error" /\ base[p] # "error"
       /\ settled => eff[p] \in {"none", "error",
                                 IF p \in Live /\ ~Blocked(p) THEN "open" ELSE "timeout"}
       /\ settled => base[p] \in {"none", "error", IF p \in Live THEN "open" ELSE "timeout"}
       /\ eff[p] # "refused" /\ base[p] # "refused"
  /\ pc = "write" => ~failures
  /\ ending = "ok" =>
       /\ ~failures /\ snap = Policies
       /\ \A p \in Paths : eff[p] # "none" /\ base[p] # "none"
       /\ \A p \in Paths : reachabilityJSON[p] = Verdict(p)

IInv == TypeOK /\ PoliciesInv /\ EndingInv /\ ShadowsInv /\ MeasuredInv

(* A fault stays within its bound.                                         *)
LEMMA FaultType ==
  ASSUME TypeOK, Fault
  PROVE  runs' \in 0..MaxRuns /\ faults' \in 0..MaxFaults /\ crashes' \in 0..MaxCrashes
BY BoundsAssumption DEF TypeOK, Fault

(* Every step keeps the types.                                             *)
LEMMA TypeStep == ASSUME TypeOK, [Next]_vars PROVE TypeOK'
<1> USE PathsAssumption, FlagsAssumption
    DEF TypeOK, Steps, Endings, Leave, AfterRestore, First, Before, Without, Back,
        vars, cluster, loop, defers, measure, results, bounds, history
<1>1. CASE CollectSnapshot BY <1>1 DEF CollectSnapshot
<1>2. CASE SetupOracle BY <1>2 DEF SetupOracle
<1>3. CASE SetupForbidden BY <1>3 DEF SetupForbidden
<1>4. CASE InjectProbes BY <1>4 DEF InjectProbes
<1>5. ASSUME NEW p \in Paths, ProbeEffective(p) PROVE TypeOK'
  BY <1>5, FaultType DEF ProbeEffective, ProbeAnswer
<1>6. ASSUME NEW p \in Paths, ProbeBaseline(p) PROVE TypeOK'
  BY <1>6, FaultType DEF ProbeBaseline, ProbeAnswer
<1>7. CASE PickCanary BY <1>7 DEF PickCanary
<1>8. CASE ListPolicies BY <1>8 DEF ListPolicies
<1>9. CASE PoliciesRemoved BY <1>9 DEF PoliciesRemoved
<1>10. ASSUME NEW p \in Policies, DeletePolicy(p) PROVE TypeOK'
  BY <1>10 DEF DeletePolicy
<1>11. ASSUME NEW p \in Policies, RestorePolicy(p) PROVE TypeOK'
  BY <1>11 DEF RestorePolicy
<1>12. ASSUME NEW p \in Policies, RestoreStops(p) PROVE TypeOK'
  BY <1>12, FaultType DEF RestoreStops
<1>13. ASSUME NEW how \in {"canary", "timeout", "blind"}, WaitOpen(how) PROVE TypeOK'
  BY <1>13, FaultType DEF WaitOpen, PollAnswer
<1>14. ASSUME NEW v \in Services, CreateShadow(v) PROVE TypeOK'
  BY <1>14 DEF CreateShadow
<1>15. ASSUME NEW v \in Services, CreateShadowFails(v) PROVE TypeOK'
  BY <1>15, FaultType DEF CreateShadowFails
<1>16. ASSUME NEW v \in Services, DropShadow(v) PROVE TypeOK'
  BY <1>16, FaultType DEF DropShadow
<1>17. CASE ShadowsReady BY <1>17 DEF ShadowsReady
<1>18. CASE ShadowsUndone BY <1>18 DEF ShadowsUndone
<1>19. CASE BaselineDone BY <1>19 DEF BaselineDone
<1>20. CASE ShadowsDropped BY <1>20 DEF ShadowsDropped
<1>21. CASE Restored BY <1>21 DEF Restored
<1>22. CASE WaitBlocked BY <1>22, FaultType DEF WaitBlocked, PollAnswer
<1>23. CASE RefuseFailures BY <1>23 DEF RefuseFailures
<1>24. CASE WriteSnapshot BY <1>24 DEF WriteSnapshot
<1>25. CASE WriteReachability BY <1>25 DEF WriteReachability, Verdict, Classify, Verdicts, RawOutcomes
<1>26. CASE TeardownOracle BY <1>26, FaultType DEF TeardownOracle
<1>27. CASE EarlyFailure BY <1>27, FaultType DEF EarlyFailure
<1>28. CASE DeleteFails BY <1>28, FaultType DEF DeleteFails
<1>29. CASE WriteFails BY <1>29, FaultType DEF WriteFails
<1>30. CASE Crash BY <1>30, BoundsAssumption DEF Crash
<1>31. CASE Start
  <2>1. runs' \in 0..MaxRuns BY <1>31, BoundsAssumption DEF Start
  <2>2. eff' \in [Paths -> RawOutcomes \cup {"none"}] /\ base' \in [Paths -> RawOutcomes \cup {"none"}]
    BY <1>31 DEF Start
  <2>3. QED BY <1>31, <2>1, <2>2 DEF Start
<1>32. CASE Cleanup BY <1>32 DEF Cleanup
<1>33. CASE NamespaceGone BY <1>33 DEF NamespaceGone
<1>34. ASSUME NEW n \in Nodes, CNISync(n) PROVE TypeOK'
  BY <1>34 DEF CNISync, UpToDate
<1>35. CASE UNCHANGED vars BY <1>35
<1>36. QED
  BY <1>1, <1>2, <1>3, <1>4, <1>5, <1>6, <1>7, <1>8, <1>9, <1>10, <1>11, <1>12,
     <1>13, <1>14, <1>15, <1>16, <1>17, <1>18, <1>19, <1>20, <1>21, <1>22, <1>23, <1>24,
     <1>25, <1>26, <1>27, <1>28, <1>29, <1>30, <1>31, <1>32, <1>33, <1>34, <1>35
  DEF Next, Oracle

(* Every step keeps the policies where PoliciesInv says they are.          *)
LEMMA PoliciesStep == ASSUME TypeOK, PoliciesInv, [Next]_vars PROVE PoliciesInv'
<1> USE PathsAssumption
    DEF TypeOK, PoliciesInv, FirstOnes, LastOnes, Leave, AfterRestore, First, Before, Without, Back,
        vars, cluster, loop, defers, measure, results, bounds, history
<1>1. CASE CollectSnapshot BY <1>1 DEF CollectSnapshot
<1>2. CASE SetupOracle BY <1>2 DEF SetupOracle
<1>3. CASE SetupForbidden BY <1>3 DEF SetupForbidden
<1>4. CASE InjectProbes BY <1>4 DEF InjectProbes
<1>5. ASSUME NEW p \in Paths, ProbeEffective(p) PROVE PoliciesInv'
  BY <1>5 DEF ProbeEffective
<1>6. ASSUME NEW p \in Paths, ProbeBaseline(p) PROVE PoliciesInv'
  BY <1>6 DEF ProbeBaseline
<1>7. CASE PickCanary BY <1>7 DEF PickCanary
<1>8. CASE ListPolicies BY <1>8 DEF ListPolicies
<1>9. CASE PoliciesRemoved BY <1>9 DEF PoliciesRemoved
<1>10. ASSUME NEW p \in Policies, DeletePolicy(p) PROVE PoliciesInv'
  BY <1>10 DEF DeletePolicy
<1>11. ASSUME NEW p \in Policies, RestorePolicy(p) PROVE PoliciesInv'
  <2>1. /\ pc \in {"restore", "deferRestore"} /\ p \in pending /\ p \notin policies
        /\ \A q \in pending : p <= q
        /\ policies' = policies \cup {p} /\ pending' = pending \ {p}
        /\ UNCHANGED <<pc, saved, armed, createFault, deleteFault, ending>>
    BY <1>11 DEF RestorePolicy
  <2>2. policies = Policies \ pending
    <3>1. CASE pc = "restore" BY <3>1
    <3>2. CASE pc = "deferRestore" /\ pending = Policies
      <4>1. \A q \in policies : q < p BY <2>1, <3>2
      <4>2. policies = {} BY <2>1, <3>2, <4>1
      <4>3. QED BY <3>2, <4>2
    <3>3. QED BY <2>1, <3>1, <3>2
  <2>3. policies' = Policies \ pending' BY <2>1, <2>2
  <2>4. FirstOnes(policies)'
    <3>1. \A q \in Policies \ policies' : p < q BY <2>1, <2>3
    <3>2. FirstOnes(policies) BY <2>1
    <3>3. QED BY <2>1, <3>1, <3>2
  <2>5. CASE pc = "restore" BY <2>1, <2>3, <2>4, <2>5
  <2>6. CASE pc = "deferRestore" BY <2>1, <2>3, <2>4, <2>6
  <2>7. QED BY <2>1, <2>5, <2>6
<1>12. ASSUME NEW p \in Policies, RestoreStops(p) PROVE PoliciesInv'
  BY <1>12 DEF RestoreStops, Fault
<1>13. ASSUME NEW how \in {"canary", "timeout", "blind"}, WaitOpen(how) PROVE PoliciesInv'
  BY <1>13 DEF WaitOpen
<1>14. ASSUME NEW v \in Services, CreateShadow(v) PROVE PoliciesInv'
  BY <1>14 DEF CreateShadow
<1>15. ASSUME NEW v \in Services, CreateShadowFails(v) PROVE PoliciesInv'
  BY <1>15 DEF CreateShadowFails
<1>16. ASSUME NEW v \in Services, DropShadow(v) PROVE PoliciesInv'
  BY <1>16 DEF DropShadow
<1>17. CASE ShadowsReady BY <1>17 DEF ShadowsReady
<1>18. CASE ShadowsUndone BY <1>18 DEF ShadowsUndone
<1>19. CASE BaselineDone BY <1>19 DEF BaselineDone
<1>20. CASE ShadowsDropped BY <1>20 DEF ShadowsDropped
<1>21. CASE Restored BY <1>21 DEF Restored
<1>22. CASE WaitBlocked BY <1>22 DEF WaitBlocked
<1>23. CASE RefuseFailures BY <1>23 DEF RefuseFailures
<1>24. CASE WriteSnapshot BY <1>24 DEF WriteSnapshot
<1>25. CASE WriteReachability BY <1>25 DEF WriteReachability
<1>26. CASE TeardownOracle BY <1>26 DEF TeardownOracle
<1>27. CASE EarlyFailure BY <1>27 DEF EarlyFailure, Fault
<1>28. CASE DeleteFails BY <1>28 DEF DeleteFails, Fault
<1>29. CASE WriteFails BY <1>29 DEF WriteFails
<1>30. CASE Crash BY <1>30 DEF Crash
<1>31. CASE Start BY <1>31 DEF Start
<1>32. CASE Cleanup BY <1>32 DEF Cleanup
<1>33. CASE NamespaceGone BY <1>33 DEF NamespaceGone
<1>34. ASSUME NEW n \in Nodes, CNISync(n) PROVE PoliciesInv'
  BY <1>34 DEF CNISync
<1>35. CASE UNCHANGED vars BY <1>35
<1>36. QED
  BY <1>1, <1>2, <1>3, <1>4, <1>5, <1>6, <1>7, <1>8, <1>9, <1>10, <1>11, <1>12,
     <1>13, <1>14, <1>15, <1>16, <1>17, <1>18, <1>19, <1>20, <1>21, <1>22, <1>23, <1>24,
     <1>25, <1>26, <1>27, <1>28, <1>29, <1>30, <1>31, <1>32, <1>33, <1>34, <1>35
  DEF Next, Oracle

(* Every step keeps EndingInv.                                             *)
LEMMA EndingStep == ASSUME TypeOK, EndingInv, [Next]_vars PROVE EndingInv'
<1> USE DEF TypeOK, EndingInv, Exited, Steps, Leave, AfterRestore, First, Before, Without, Back,
        vars, cluster, loop, defers, measure, results, bounds, history
<1>1. CASE CollectSnapshot BY <1>1 DEF CollectSnapshot
<1>2. CASE SetupOracle BY <1>2 DEF SetupOracle
<1>3. CASE SetupForbidden BY <1>3 DEF SetupForbidden
<1>4. CASE InjectProbes BY <1>4 DEF InjectProbes
<1>5. ASSUME NEW p \in Paths, ProbeEffective(p) PROVE EndingInv'
  BY <1>5 DEF ProbeEffective
<1>6. ASSUME NEW p \in Paths, ProbeBaseline(p) PROVE EndingInv'
  BY <1>6 DEF ProbeBaseline
<1>7. CASE PickCanary BY <1>7 DEF PickCanary
<1>8. CASE ListPolicies BY <1>8 DEF ListPolicies
<1>9. CASE PoliciesRemoved BY <1>9 DEF PoliciesRemoved
<1>10. ASSUME NEW p \in Policies, DeletePolicy(p) PROVE EndingInv'
  BY <1>10 DEF DeletePolicy
<1>11. ASSUME NEW p \in Policies, RestorePolicy(p) PROVE EndingInv'
  BY <1>11 DEF RestorePolicy
<1>12. ASSUME NEW p \in Policies, RestoreStops(p) PROVE EndingInv'
  BY <1>12 DEF RestoreStops
<1>13. ASSUME NEW how \in {"canary", "timeout", "blind"}, WaitOpen(how) PROVE EndingInv'
  BY <1>13 DEF WaitOpen
<1>14. ASSUME NEW v \in Services, CreateShadow(v) PROVE EndingInv'
  BY <1>14 DEF CreateShadow
<1>15. ASSUME NEW v \in Services, CreateShadowFails(v) PROVE EndingInv'
  BY <1>15 DEF CreateShadowFails
<1>16. ASSUME NEW v \in Services, DropShadow(v) PROVE EndingInv'
  BY <1>16 DEF DropShadow
<1>17. CASE ShadowsReady BY <1>17 DEF ShadowsReady
<1>18. CASE ShadowsUndone BY <1>18 DEF ShadowsUndone
<1>19. CASE BaselineDone BY <1>19 DEF BaselineDone
<1>20. CASE ShadowsDropped BY <1>20 DEF ShadowsDropped
<1>21. CASE Restored BY <1>21 DEF Restored
<1>22. CASE WaitBlocked BY <1>22 DEF WaitBlocked
<1>23. CASE RefuseFailures BY <1>23 DEF RefuseFailures
<1>24. CASE WriteSnapshot BY <1>24 DEF WriteSnapshot
<1>25. CASE WriteReachability BY <1>25 DEF WriteReachability
<1>26. CASE TeardownOracle BY <1>26 DEF TeardownOracle
<1>27. CASE EarlyFailure BY <1>27 DEF EarlyFailure
<1>28. CASE DeleteFails BY <1>28 DEF DeleteFails
<1>29. CASE WriteFails BY <1>29 DEF WriteFails
<1>30. CASE Crash BY <1>30 DEF Crash
<1>31. CASE Start BY <1>31 DEF Start
<1>32. CASE Cleanup BY <1>32 DEF Cleanup
<1>33. CASE NamespaceGone BY <1>33 DEF NamespaceGone
<1>34. ASSUME NEW n \in Nodes, CNISync(n) PROVE EndingInv'
  BY <1>34 DEF CNISync
<1>35. CASE UNCHANGED vars BY <1>35
<1>36. QED
  BY <1>1, <1>2, <1>3, <1>4, <1>5, <1>6, <1>7, <1>8, <1>9, <1>10, <1>11, <1>12,
     <1>13, <1>14, <1>15, <1>16, <1>17, <1>18, <1>19, <1>20, <1>21, <1>22, <1>23, <1>24,
     <1>25, <1>26, <1>27, <1>28, <1>29, <1>30, <1>31, <1>32, <1>33, <1>34, <1>35
  DEF Next, Oracle

(* Every step keeps ShadowsInv.                                            *)
LEMMA ShadowsStep == ASSUME TypeOK, EndingInv, ShadowsInv, [Next]_vars PROVE ShadowsInv'
<1> USE DEF TypeOK, EndingInv, ShadowsInv, Exited, Steps, Leave, AfterRestore, First, Before, Without, Back,
        vars, cluster, loop, defers, measure, results, bounds, history
<1>1. CASE CollectSnapshot BY <1>1 DEF CollectSnapshot
<1>2. CASE SetupOracle BY <1>2 DEF SetupOracle
<1>3. CASE SetupForbidden BY <1>3 DEF SetupForbidden
<1>4. CASE InjectProbes BY <1>4 DEF InjectProbes
<1>5. ASSUME NEW p \in Paths, ProbeEffective(p) PROVE ShadowsInv'
  BY <1>5 DEF ProbeEffective
<1>6. ASSUME NEW p \in Paths, ProbeBaseline(p) PROVE ShadowsInv'
  BY <1>6 DEF ProbeBaseline
<1>7. CASE PickCanary BY <1>7 DEF PickCanary
<1>8. CASE ListPolicies BY <1>8 DEF ListPolicies
<1>9. CASE PoliciesRemoved BY <1>9 DEF PoliciesRemoved
<1>10. ASSUME NEW p \in Policies, DeletePolicy(p) PROVE ShadowsInv'
  BY <1>10 DEF DeletePolicy
<1>11. ASSUME NEW p \in Policies, RestorePolicy(p) PROVE ShadowsInv'
  BY <1>11 DEF RestorePolicy
<1>12. ASSUME NEW p \in Policies, RestoreStops(p) PROVE ShadowsInv'
  BY <1>12 DEF RestoreStops
<1>13. ASSUME NEW how \in {"canary", "timeout", "blind"}, WaitOpen(how) PROVE ShadowsInv'
  BY <1>13 DEF WaitOpen
<1>14. ASSUME NEW v \in Services, CreateShadow(v) PROVE ShadowsInv'
  BY <1>14 DEF CreateShadow
<1>15. ASSUME NEW v \in Services, CreateShadowFails(v) PROVE ShadowsInv'
  BY <1>15 DEF CreateShadowFails
<1>16. ASSUME NEW v \in Services, DropShadow(v) PROVE ShadowsInv'
  BY <1>16 DEF DropShadow
<1>17. CASE ShadowsReady BY <1>17 DEF ShadowsReady
<1>18. CASE ShadowsUndone BY <1>18 DEF ShadowsUndone
<1>19. CASE BaselineDone BY <1>19 DEF BaselineDone
<1>20. CASE ShadowsDropped BY <1>20 DEF ShadowsDropped
<1>21. CASE Restored BY <1>21 DEF Restored
<1>22. CASE WaitBlocked BY <1>22 DEF WaitBlocked
<1>23. CASE RefuseFailures BY <1>23 DEF RefuseFailures
<1>24. CASE WriteSnapshot BY <1>24 DEF WriteSnapshot
<1>25. CASE WriteReachability BY <1>25 DEF WriteReachability
<1>26. CASE TeardownOracle BY <1>26 DEF TeardownOracle
<1>27. CASE EarlyFailure BY <1>27 DEF EarlyFailure
<1>28. CASE DeleteFails BY <1>28 DEF DeleteFails
<1>29. CASE WriteFails BY <1>29 DEF WriteFails
<1>30. CASE Crash BY <1>30 DEF Crash
<1>31. CASE Start BY <1>31 DEF Start
<1>32. CASE Cleanup BY <1>32 DEF Cleanup
<1>33. CASE NamespaceGone BY <1>33 DEF NamespaceGone
<1>34. ASSUME NEW n \in Nodes, CNISync(n) PROVE ShadowsInv'
  BY <1>34 DEF CNISync
<1>35. CASE UNCHANGED vars BY <1>35
<1>36. QED
  BY <1>1, <1>2, <1>3, <1>4, <1>5, <1>6, <1>7, <1>8, <1>9, <1>10, <1>11, <1>12,
     <1>13, <1>14, <1>15, <1>16, <1>17, <1>18, <1>19, <1>20, <1>21, <1>22, <1>23, <1>24,
     <1>25, <1>26, <1>27, <1>28, <1>29, <1>30, <1>31, <1>32, <1>33, <1>34, <1>35
  DEF Next, Oracle

(* What a connect meets on a node that is up to date, with all policies    *)
(* deployed and with none.                                                 *)
LEMMA OutcomeWithPolicies ==
  ASSUME policies = Policies, NEW p \in Paths, UpToDate(NodeOf[p])
  PROVE  Outcome(p) = IF p \in Live /\ ~Blocked(p) THEN "open" ELSE "timeout"
<1>1. Policies \cap Honoured = Honoured BY PathsAssumption
<1>2. QED BY <1>1 DEF UpToDate, Outcome, Blocked

LEMMA OutcomeWithoutPolicies ==
  ASSUME policies = {}, NEW p \in Paths, UpToDate(NodeOf[p])
  PROVE  Outcome(p) = IF p \in Live THEN "open" ELSE "timeout"
<1>1. enforced[NodeOf[p]] = {} BY DEF UpToDate
<1>2. QED BY <1>1 DEF Outcome

LEMMA OutcomeRange == ASSUME NEW p PROVE Outcome(p) \in {"open", "timeout"}
BY DEF Outcome

(* Every step keeps MeasuredInv.                                           *)
LEMMA MeasuredStep == ASSUME TypeOK, PoliciesInv, EndingInv, MeasuredInv, [Next]_vars PROVE MeasuredInv'
<1> USE DEF TypeOK, PoliciesInv, EndingInv, MeasuredInv, Blocked, Declared, Verdict,
        AfterEffective, AfterBaseline, Leave, AfterRestore, First, Before, Without, Back,
        vars, cluster, loop, defers, measure, results, bounds, history
<1>1. CASE CollectSnapshot BY <1>1 DEF CollectSnapshot
<1>2. CASE SetupOracle BY <1>2 DEF SetupOracle
<1>3. CASE SetupForbidden BY <1>3 DEF SetupForbidden
<1>4. CASE InjectProbes BY <1>4 DEF InjectProbes
<1>5. ASSUME NEW p \in Paths, ProbeEffective(p) PROVE MeasuredInv'
  <2>1. PICK o \in RawOutcomes : ProbeAnswer(p, o) /\ eff' = [eff EXCEPT ![p] = o]
    BY <1>5 DEF ProbeEffective
  <2>2. CASE o = "error" /\ failures' /\ UNCHANGED settled
    BY <1>5, <2>1, <2>2 DEF ProbeEffective
  <2>3. CASE o = Outcome(p) /\ settled' = (settled /\ UpToDate(NodeOf[p])) /\ failures' = failures
    BY <1>5, <2>1, <2>3, OutcomeWithPolicies, OutcomeRange DEF ProbeEffective
  <2>4. QED BY <2>1, <2>2, <2>3 DEF ProbeAnswer
<1>6. ASSUME NEW p \in Paths, ProbeBaseline(p) PROVE MeasuredInv'
  <2>1. PICK o \in RawOutcomes : ProbeAnswer(p, o) /\ base' = [base EXCEPT ![p] = o]
    BY <1>6 DEF ProbeBaseline
  <2>2. CASE o = "error" /\ failures' /\ UNCHANGED settled
    BY <1>6, <2>1, <2>2 DEF ProbeBaseline
  <2>3. CASE o = Outcome(p) /\ settled' = (settled /\ UpToDate(NodeOf[p])) /\ failures' = failures
    BY <1>6, <2>1, <2>3, OutcomeWithoutPolicies, OutcomeRange DEF ProbeBaseline
  <2>4. QED BY <2>1, <2>2, <2>3 DEF ProbeAnswer
<1>7. CASE PickCanary BY <1>7 DEF PickCanary
<1>8. CASE ListPolicies BY <1>8 DEF ListPolicies
<1>9. CASE PoliciesRemoved BY <1>9 DEF PoliciesRemoved
<1>10. ASSUME NEW p \in Policies, DeletePolicy(p) PROVE MeasuredInv'
  BY <1>10 DEF DeletePolicy
<1>11. ASSUME NEW p \in Policies, RestorePolicy(p) PROVE MeasuredInv'
  BY <1>11 DEF RestorePolicy
<1>12. ASSUME NEW p \in Policies, RestoreStops(p) PROVE MeasuredInv'
  BY <1>12 DEF RestoreStops
<1>13. ASSUME NEW how \in {"canary", "timeout", "blind"}, WaitOpen(how) PROVE MeasuredInv'
  BY <1>13 DEF WaitOpen, PollAnswer
<1>14. ASSUME NEW v \in Services, CreateShadow(v) PROVE MeasuredInv'
  BY <1>14 DEF CreateShadow
<1>15. ASSUME NEW v \in Services, CreateShadowFails(v) PROVE MeasuredInv'
  BY <1>15 DEF CreateShadowFails
<1>16. ASSUME NEW v \in Services, DropShadow(v) PROVE MeasuredInv'
  BY <1>16 DEF DropShadow
<1>17. CASE ShadowsReady BY <1>17 DEF ShadowsReady
<1>18. CASE ShadowsUndone BY <1>18 DEF ShadowsUndone
<1>19. CASE BaselineDone BY <1>19 DEF BaselineDone
<1>20. CASE ShadowsDropped BY <1>20 DEF ShadowsDropped
<1>21. CASE Restored BY <1>21 DEF Restored
<1>22. CASE WaitBlocked BY <1>22 DEF WaitBlocked, PollAnswer
<1>23. CASE RefuseFailures BY <1>23 DEF RefuseFailures
<1>24. CASE WriteSnapshot BY <1>24 DEF WriteSnapshot
<1>25. CASE WriteReachability BY <1>25 DEF WriteReachability
<1>26. CASE TeardownOracle BY <1>26 DEF TeardownOracle
<1>27. CASE EarlyFailure BY <1>27 DEF EarlyFailure
<1>28. CASE DeleteFails BY <1>28 DEF DeleteFails
<1>29. CASE WriteFails BY <1>29 DEF WriteFails
<1>30. CASE Crash BY <1>30 DEF Crash
<1>31. CASE Start BY <1>31 DEF Start
<1>32. CASE Cleanup BY <1>32 DEF Cleanup
<1>33. CASE NamespaceGone BY <1>33 DEF NamespaceGone
<1>34. ASSUME NEW n \in Nodes, CNISync(n) PROVE MeasuredInv'
  BY <1>34 DEF CNISync
<1>35. CASE UNCHANGED vars BY <1>35
<1>36. QED
  BY <1>1, <1>2, <1>3, <1>4, <1>5, <1>6, <1>7, <1>8, <1>9, <1>10, <1>11, <1>12,
     <1>13, <1>14, <1>15, <1>16, <1>17, <1>18, <1>19, <1>20, <1>21, <1>22, <1>23, <1>24,
     <1>25, <1>26, <1>27, <1>28, <1>29, <1>30, <1>31, <1>32, <1>33, <1>34, <1>35
  DEF Next, Oracle

-----------------------------------------------------------------------------
(* IInv is an inductive invariant of the run.                              *)
LEMMA InvariantInit == Init => IInv
<1> SUFFICES ASSUME Init PROVE IInv OBVIOUS
<1>1. TypeOK
  <2>1. 0 \in 0..MaxRuns /\ 0 \in 0..MaxFaults /\ 0 \in 0..MaxCrashes BY BoundsAssumption
  <2>2. QED BY <2>1 DEF Init, TypeOK, Steps, Endings
<1>2. PoliciesInv BY DEF Init, PoliciesInv, Before, Without, Back
<1>3. EndingInv BY DEF Init, EndingInv, Exited, Before, Without, Back, Steps
<1>4. ShadowsInv BY DEF Init, ShadowsInv, Before, Without, Back
<1>5. MeasuredInv
  BY DEF Init, MeasuredInv, AfterEffective, AfterBaseline, Before, Without, Back
<1>6. QED BY <1>1, <1>2, <1>3, <1>4, <1>5 DEF IInv

\* The inductive invariant holds in every state of the runs, with any faults and kills.
THEOREM Invariant == Spec => []IInv
<1>1. Init => IInv BY InvariantInit
<1>2. IInv /\ [Next]_vars => IInv'
  BY TypeStep, PoliciesStep, EndingStep, ShadowsStep, MeasuredStep DEF IInv
<1>3. QED BY <1>1, <1>2, PTL DEF Spec

(* Type correctness of the run.                                            *)
THEOREM TypeCorrect == Spec => []TypeOK
<1>1. IInv => TypeOK BY DEF IInv
<1>2. QED BY <1>1, Invariant, PTL

(* Whichever return run takes, what is left is known: all the policies; or *)
(* the last ones of the list, if a Delete failed in removePolicies; or the *)
(* first ones, if a Create failed in the restore (kube.go:257-293).        *)
THEOREM PoliciesSafe == Spec => []PoliciesBackOnExit
<1>1. IInv => PoliciesBackOnExit
  BY DEF IInv, PoliciesInv, PoliciesBackOnExit, Exited
<1>2. QED BY <1>1, Invariant, PTL

(* Results are written only when the policies are back and the shadows     *)
(* dealt with.                                                             *)
THEOREM ResultsSafe == Spec => ResultsAfterRestore
<1> DEFINE Safe == results' # results => policies = Policies /\ made = {} /\ ~armed
<1>1. ASSUME IInv, [Next]_vars PROVE Safe
  <2>1. CASE WriteSnapshot \/ WriteReachability
    BY <1>1, <2>1 DEF IInv, PoliciesInv, EndingInv, Back, Steps, WriteSnapshot, WriteReachability
  <2>2. CASE ~(WriteSnapshot \/ WriteReachability)
    <3>1. UNCHANGED results
      BY <1>1, <2>2 DEF Next, Oracle, vars, results,
        CollectSnapshot, SetupOracle, SetupForbidden, InjectProbes, ProbeEffective, ProbeBaseline,
        PickCanary, ListPolicies, PoliciesRemoved, DeletePolicy, RestorePolicy, RestoreStops, WaitOpen,
        CreateShadow, CreateShadowFails, DropShadow, ShadowsReady, ShadowsUndone, BaselineDone,
        ShadowsDropped, Restored, WaitBlocked, RefuseFailures, TeardownOracle, EarlyFailure,
        DeleteFails, WriteFails, Crash, Start, Cleanup, NamespaceGone, CNISync
    <3>2. QED BY <3>1
  <2>3. QED BY <2>1, <2>2
<1>2. QED BY <1>1, Invariant, PTL DEF Spec, ResultsAfterRestore

(* What is published was answered by the network, never by a failed exec.  *)
THEOREM FailedSourceSafe == Spec => []FailedSourceNotPublished
<1>1. IInv => FailedSourceNotPublished
  BY DEF IInv, TypeOK, MeasuredInv, FailedSourceNotPublished, Published, RawOutcomes
<1>2. QED BY <1>1, Invariant, PTL

(* A run all of whose probes met a dataplane that was up to date publishes *)
(* the truth about every path.                                             *)
THEOREM SettledSafe == Spec => []SettledRunIsExact
<1>1. ASSUME IInv, Published, settled, NEW p \in Paths PROVE reachabilityJSON[p] = TrueVerdict(p)
  <2>1. eff[p] = (IF p \in Live /\ ~Blocked(p) THEN "open" ELSE "timeout")
    BY <1>1 DEF IInv, MeasuredInv, Published
  <2>2. base[p] = (IF p \in Live THEN "open" ELSE "timeout")
    BY <1>1 DEF IInv, MeasuredInv, Published
  <2>3. Declared(p) = (IF Denied[p] # {} THEN "deny" ELSE "allow")
    <3>1. snap = Policies BY <1>1 DEF IInv, MeasuredInv, Published
    <3>2. Denied[p] \subseteq Policies BY PathsAssumption
    <3>3. QED BY <3>1, <3>2 DEF Declared
  <2>4. reachabilityJSON[p] = Verdict(p)
    BY <1>1 DEF IInv, MeasuredInv, Published
  <2>5. QED BY <2>1, <2>2, <2>3, <2>4 DEF TrueVerdict, Verdict, Blocked
<1>2. IInv => SettledRunIsExact BY <1>1 DEF SettledRunIsExact
<1>3. QED BY <1>2, Invariant, PTL

(* A run that began with a shadow of an earlier one publishes nothing.     *)
THEOREM LeftoverSafe == Spec => []LeftoverShadowRefused
<1>1. IInv => LeftoverShadowRefused
  BY DEF IInv, ShadowsInv, LeftoverShadowRefused, Published
<1>2. QED BY <1>1, Invariant, PTL

(* A run leaves no shadow behind unless a call about a shadow failed.      *)
THEOREM ShadowsSafe == Spec => []ShadowsGoneOnExit
<1>1. IInv => ShadowsGoneOnExit
  BY DEF IInv, ShadowsInv, EndingInv, ShadowsGoneOnExit, Exited
<1>2. QED BY <1>1, Invariant, PTL
-----------------------------------------------------------------------------
(* The canary.  If it opened, it stays open as long as the policies are    *)
(* away, whatever the CNI still has to catch up with: catching up takes    *)
(* policies off a dataplane then, and adds none.                           *)
BeforeWait == Before \cup {"delete", "waitOpen"}

CanaryInv ==
  /\ pc \in BeforeWait => waited = "no" /\ \A p \in Paths : base[p] = "none"
  /\ waited = "canary" =>
       /\ pc \in Without => \A p \in canary : Outcome(p) = "open"
       /\ \A p \in canary : base[p] \in {"none", "error", "open"}
  /\ \A p, q \in canary : p = q

(* The rest of the run does not touch what CanaryInv is about.             *)
LEMMA CanaryKept ==
  ASSUME CanaryInv, UNCHANGED <<enforced, waited, canary, base>>,
         pc' \in BeforeWait => pc \in BeforeWait,
         pc' \in Without => pc \in Without
  PROVE  CanaryInv'
BY DEF CanaryInv, Outcome

LEMMA CanaryStep == ASSUME IInv, IInv', CanaryInv, [Next]_vars PROVE CanaryInv'
<1> DEFINE Kept == /\ UNCHANGED <<enforced, waited, canary, base>>
                   /\ pc' \in BeforeWait => pc \in BeforeWait
                   /\ pc' \in Without => pc \in Without
<1> USE DEF Leave, AfterRestore, BeforeWait, Before, Without,
        vars, cluster, loop, defers, measure, results, bounds, history
<1>1. CASE CollectSnapshot \/ SetupOracle \/ SetupForbidden \/ InjectProbes \/ ListPolicies
  <2>1. Kept BY <1>1 DEF CollectSnapshot, SetupOracle, SetupForbidden, InjectProbes, ListPolicies
  <2>2. QED BY <2>1, CanaryKept
<1>2. CASE \E p \in Paths : ProbeEffective(p)
  <2>1. Kept BY <1>2 DEF ProbeEffective
  <2>2. QED BY <2>1, CanaryKept
<1>3. ASSUME NEW p \in Paths, ProbeBaseline(p) PROVE CanaryInv'
  <2>1. PICK o \in RawOutcomes : ProbeAnswer(p, o) /\ base' = [base EXCEPT ![p] = o]
    BY <1>3 DEF ProbeBaseline
  <2>2. o = Outcome(p) \/ o = "error" BY <2>1 DEF ProbeAnswer
  <2>3. waited = "canary" /\ p \in canary => o \in {"open", "error"}
    BY <1>3, <2>2 DEF CanaryInv, ProbeBaseline
  <2>4. UNCHANGED <<enforced, waited, canary, pc>> /\ pc = "baseline" BY <1>3 DEF ProbeBaseline
  <2>5. base \in [Paths -> RawOutcomes \cup {"none"}] /\ canary \subseteq Paths
    BY PathsAssumption DEF IInv, TypeOK
  <2>6. \A q \in canary : base'[q] = (IF q = p THEN o ELSE base[q]) BY <2>1, <2>5
  <2>7. QED BY <2>3, <2>4, <2>6 DEF CanaryInv, Outcome
<1>4. CASE PickCanary
  <2>1. waited = "no" BY <1>4 DEF CanaryInv, PickCanary
  <2>2. pc' = "list" /\ waited' = "no" /\ base' = base BY <1>4, <2>1 DEF PickCanary
  <2>3. \A p, q \in canary' : p = q BY <1>4, PathsAssumption DEF PickCanary, First
  <2>4. \A p \in Paths : base[p] = "none" BY <1>4 DEF CanaryInv, PickCanary
  <2>5. QED BY <2>2, <2>3, <2>4 DEF CanaryInv
<1>5. CASE PoliciesRemoved
  <2>1. UNCHANGED <<enforced, waited, canary, base>> /\ pc = "delete" BY <1>5 DEF PoliciesRemoved
  <2>2. waited' = "no" BY <2>1 DEF CanaryInv
  <2>3. QED BY <2>1, <2>2 DEF CanaryInv
<1>6. CASE \E p \in Policies : DeletePolicy(p) \/ RestorePolicy(p) \/ RestoreStops(p)
  <2>1. Kept BY <1>6 DEF DeletePolicy, RestorePolicy, RestoreStops
  <2>2. QED BY <2>1, CanaryKept
<1>7. ASSUME NEW how \in {"canary", "timeout", "blind"}, WaitOpen(how) PROVE CanaryInv'
  <2>1. UNCHANGED <<enforced, canary, base>> /\ pc = "waitOpen" /\ pc' = "shadow" /\ waited' = how
    BY <1>7 DEF WaitOpen
  <2>2. how = "canary" => \A p \in canary : Outcome(p) = "open"
    BY <1>7 DEF CanaryInv, WaitOpen, WaitOver
  <2>3. \A p \in Paths : base[p] = "none" BY <2>1 DEF CanaryInv
  <2>4. canary \subseteq Paths BY PathsAssumption DEF IInv, TypeOK
  <2>5. \A p \in canary : base'[p] = "none" BY <2>1, <2>3, <2>4
  <2>6. \A p, q \in canary' : p = q BY <2>1 DEF CanaryInv
  <2>7. how = "canary" => \A p \in canary' : (Outcome(p))' = "open" BY <2>1, <2>2 DEF Outcome
  <2>8. QED BY <2>1, <2>5, <2>6, <2>7 DEF CanaryInv
<1>8. CASE \E v \in Services : CreateShadow(v) \/ CreateShadowFails(v) \/ DropShadow(v)
  <2>1. Kept BY <1>8 DEF CreateShadow, CreateShadowFails, DropShadow
  <2>2. QED BY <2>1, CanaryKept
<1>9. CASE ShadowsReady \/ ShadowsUndone \/ BaselineDone \/ ShadowsDropped \/ Restored
  <2>1. Kept BY <1>9 DEF ShadowsReady, ShadowsUndone, BaselineDone, ShadowsDropped, Restored
  <2>2. QED BY <2>1, CanaryKept
<1>10. CASE WaitBlocked \/ RefuseFailures \/ WriteSnapshot \/ WriteReachability \/ TeardownOracle
  <2>1. Kept BY <1>10 DEF WaitBlocked, RefuseFailures, WriteSnapshot, WriteReachability, TeardownOracle
  <2>2. QED BY <2>1, CanaryKept
<1>11. CASE EarlyFailure \/ DeleteFails \/ WriteFails \/ Crash \/ NamespaceGone
  <2>1. Kept BY <1>11 DEF EarlyFailure, DeleteFails, WriteFails, Crash, NamespaceGone
  <2>2. QED BY <2>1, CanaryKept
<1>12. CASE Start BY <1>12 DEF Start, CanaryInv
<1>13. CASE Cleanup
  <2>1. Kept BY <1>13 DEF Cleanup
  <2>2. QED BY <2>1, CanaryKept
<1>14. ASSUME NEW n \in Nodes, CNISync(n) PROVE CanaryInv'
  <2>1. UNCHANGED <<waited, canary, base, pc>> BY <1>14 DEF CNISync
  <2>2. pc \in Without => policies = {} BY DEF IInv, PoliciesInv
  <2>3. pc \in Without => \A p \in canary : Outcome(p) = "open" => (Outcome(p))' = "open"
    <3>1. enforced \in [Nodes -> SUBSET Policies] BY DEF IInv, TypeOK
    <3>2. enforced' = [enforced EXCEPT ![n] = policies \cap Honoured] BY <1>14 DEF CNISync
    <3>3. pc \in Without => \A m \in Nodes : enforced'[m] \subseteq enforced[m] BY <2>2, <3>1, <3>2
    <3>4. \A p \in canary : NodeOf[p] \in Nodes BY PathsAssumption DEF IInv, TypeOK
    <3>5. QED BY <3>3, <3>4 DEF Outcome
  <2>4. QED BY <2>1, <2>3 DEF CanaryInv
<1>15. CASE UNCHANGED vars BY <1>15, CanaryKept
<1>16. QED
  BY <1>1, <1>2, <1>3, <1>4, <1>5, <1>6, <1>7, <1>8, <1>9, <1>10, <1>11, <1>12, <1>13, <1>14, <1>15
  DEF Next, Oracle

(* The canary is worth its wait: a run whose canary opened never calls it  *)
(* unreachable (waitCanary, main.go:310-328).                              *)
THEOREM CanarySafe == Spec => []CanaryIsJudged
<1>1. Init => CanaryInv BY DEF Init, CanaryInv, BeforeWait, Before
<1>2. IInv /\ IInv' /\ CanaryInv /\ [Next]_vars => CanaryInv' BY CanaryStep
<1>3. ASSUME IInv, CanaryInv, Published, waited = "canary", NEW p \in canary
      PROVE  reachabilityJSON[p] # "unreachable"
  <2>1. p \in Paths BY PathsAssumption, <1>3 DEF IInv, TypeOK
  <2>2. base[p] = "open"
    BY <2>1, <1>3 DEF IInv, MeasuredInv, CanaryInv, Published
  <2>3. reachabilityJSON[p] = Verdict(p) BY <2>1, <1>3 DEF IInv, MeasuredInv, Published
  <2>4. QED BY <2>2, <2>3 DEF Verdict, Classify, BaselineReachable
<1>4. IInv /\ CanaryInv => CanaryIsJudged BY <1>3 DEF CanaryIsJudged
<1>5. QED BY <1>1, <1>2, <1>4, Invariant, PTL DEF Spec
=============================================================================
