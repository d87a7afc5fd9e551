-------------------------- MODULE AgentGraphProofs --------------------------
(* Proofs about AgentGraph, for any lockfile, any bound on retries, and      *)
(* whatever the drafter answers.                                             *)
EXTENDS AgentGraph, TLAPS

(* The counters of a finding are numbers, and only candidates have any.      *)
LEMMA Counters ==
  ASSUME TypeOK, EachFindingOnce, NEW f \in Findings
  PROVE  /\ retry[f] \in Nat /\ retry[f] <= MaxRetries
         /\ verified[f] \in Nat /\ rejected[f] \in Nat
         /\ billed[f] \in Nat /\ fabricated[f] \in Nat
         /\ f \in impacted => f \in candidates /\ verified[f] = 0 /\ rejected[f] = 0
         /\ f \notin candidates => verified[f] = 0 /\ rejected[f] = 0
<1>1. retry[f] \in Nat /\ retry[f] <= MaxRetries
  BY MaxRetriesAssumption DEF TypeOK
<1>2. /\ verified[f] \in Nat /\ rejected[f] \in Nat
      /\ billed[f] \in Nat /\ fabricated[f] \in Nat
  BY DEF TypeOK
<1>3. f \in impacted => f \in candidates
  BY DEF TypeOK
<1>4. verified[f] + rejected[f] + (IF f \in impacted THEN 1 ELSE 0)
        = (IF f \in candidates THEN 1 ELSE 0)
  BY DEF EachFindingOnce
<1> QED
  BY <1>1, <1>2, <1>3, <1>4

(* Before the feeds are loaded every list is empty and every count is 0.     *)
LEMMA IInvInit == Init => IInv
  BY MaxRetriesAssumption
  DEF Init, IInv, TypeOK, Nodes, Ended, Sources, Zero, EachFindingOnce,
      VerifiedStillPasses, DroppedOnlyForForeignCitations, SpendBounded,
      SuperstepsBounded, PassesSoFar, StepsSoFar, Bookkeeping

(* The feeds are loaded, and nothing else has happened.                      *)
LEMMA LoadFeedsStep == IInv /\ LoadFeeds => IInv'
<1> SUFFICES ASSUME IInv, LoadFeeds PROVE IInv'
  OBVIOUS
<1> USE MaxRetriesAssumption, Counters DEF IInv, TypeOK, LoadFeeds, findingVars, listVars
<1>1. TypeOK'
  BY DEF Nodes, Ended
<1>2. EachFindingOnce'
  BY DEF EachFindingOnce
<1>3. VerifiedStillPasses'
  BY DEF VerifiedStillPasses, Passes
<1>4. DroppedOnlyForForeignCitations'
  BY DEF DroppedOnlyForForeignCitations
<1>5. SpendBounded'
  BY DEF SpendBounded
<1>6. SuperstepsBounded'
  BY DEF SuperstepsBounded, StepsSoFar, StepsOfNode
<1>7. PassesSoFar'
  BY DEF PassesSoFar, Bookkeeping
<1>8. StepsSoFar'
  BY DEF StepsSoFar, StepsOfNode
<1>9. Bookkeeping'
  BY DEF Bookkeeping
<1> QED
  BY <1>1, <1>2, <1>3, <1>4, <1>5, <1>6, <1>7, <1>8, <1>9

(* A run that raises stops where it is.                                      *)
LEMMA RaiseStep == IInv /\ Raise => IInv'
<1> SUFFICES ASSUME IInv, Raise PROVE IInv'
  OBVIOUS
<1> USE MaxRetriesAssumption, Counters DEF IInv, TypeOK, Raise, findingVars, listVars
<1>1. TypeOK'
  BY DEF Nodes, Ended
<1>2. EachFindingOnce'
  BY DEF EachFindingOnce
<1>3. VerifiedStillPasses'
  BY DEF VerifiedStillPasses, Passes
<1>4. DroppedOnlyForForeignCitations'
  BY DEF DroppedOnlyForForeignCitations
<1>5. SpendBounded'
  BY DEF SpendBounded
<1>6. SuperstepsBounded'
  BY DEF SuperstepsBounded, StepsSoFar, StepsOfNode
<1>7. PassesSoFar'
  BY DEF PassesSoFar, Bookkeeping
<1>8. StepsSoFar'
  BY DEF StepsSoFar, StepsOfNode
<1>9. Bookkeeping'
  BY DEF Bookkeeping
<1> QED
  BY <1>1, <1>2, <1>3, <1>4, <1>5, <1>6, <1>7, <1>8, <1>9

(* Ingest starts the lists and the retry counts afresh.                      *)
LEMMA IngestStep == IInv /\ Ingest => IInv'
<1> SUFFICES ASSUME IInv, Ingest PROVE IInv'
  OBVIOUS
<1> USE MaxRetriesAssumption, Counters DEF IInv, TypeOK, Ingest, Goto, findingVars, listVars
<1>1. TypeOK'
  BY DEF Nodes, Ended, Zero
<1>2. EachFindingOnce'
  BY DEF EachFindingOnce, Zero, Bookkeeping
<1>3. VerifiedStillPasses'
  BY DEF VerifiedStillPasses, Passes, Zero
<1>4. DroppedOnlyForForeignCitations'
  BY DEF DroppedOnlyForForeignCitations, Zero
<1>5. SpendBounded'
  BY DEF SpendBounded
<1>6. SuperstepsBounded'
  BY DEF SuperstepsBounded, StepsSoFar, StepsOfNode
<1>7. PassesSoFar'
  BY DEF PassesSoFar, Bookkeeping
<1>8. StepsSoFar'
  BY DEF StepsSoFar, StepsOfNode
<1>9. Bookkeeping'
  BY DEF Bookkeeping
<1> QED
  BY <1>1, <1>2, <1>3, <1>4, <1>5, <1>6, <1>7, <1>8, <1>9

(* Triage makes every candidate one to go round.                             *)
LEMMA TriageStep == IInv /\ Triage => IInv'
<1> SUFFICES ASSUME IInv, Triage PROVE IInv'
  OBVIOUS
<1> USE MaxRetriesAssumption, Counters DEF IInv, TypeOK, Triage, Goto, findingVars, listVars
<1>1. TypeOK'
  BY DEF Nodes, Ended
<1>2. EachFindingOnce'
  BY DEF EachFindingOnce, Bookkeeping
<1>3. VerifiedStillPasses'
  BY DEF VerifiedStillPasses, Passes
<1>4. DroppedOnlyForForeignCitations'
  BY DEF DroppedOnlyForForeignCitations
<1>5. SpendBounded'
  BY DEF SpendBounded
<1>6. SuperstepsBounded'
  BY DEF SuperstepsBounded, StepsSoFar, StepsOfNode
<1>7. PassesSoFar'
  BY DEF PassesSoFar, Bookkeeping, Zero
<1>8. StepsSoFar'
  BY DEF StepsSoFar, StepsOfNode, Bookkeeping, Zero
<1>9. Bookkeeping'
  BY DEF Bookkeeping
<1> QED
  BY <1>1, <1>2, <1>3, <1>4, <1>5, <1>6, <1>7, <1>8, <1>9

(* Impact ranks the findings at hand: they can fail for citations only.      *)
LEMMA ImpactStep == IInv /\ Impact => IInv'
<1> SUFFICES ASSUME IInv, Impact PROVE IInv'
  OBVIOUS
<1> USE MaxRetriesAssumption, Counters DEF IInv, TypeOK, Impact, Goto, findingVars, listVars
<1>1. TypeOK'
  BY DEF Nodes, Ended
<1>2. EachFindingOnce'
  BY DEF EachFindingOnce
<1>3. VerifiedStillPasses'
  BY DEF VerifiedStillPasses, Passes
<1>4. DroppedOnlyForForeignCitations'
  BY DEF DroppedOnlyForForeignCitations
<1>5. SpendBounded'
  BY DEF SpendBounded
<1>6. SuperstepsBounded'
  BY DEF SuperstepsBounded, StepsSoFar, StepsOfNode
<1>7. PassesSoFar'
  BY DEF PassesSoFar
<1>8. StepsSoFar'
  BY DEF StepsSoFar, StepsOfNode
<1>9. Bookkeeping'
  BY DEF Bookkeeping
<1> QED
  BY <1>1, <1>2, <1>3, <1>4, <1>5, <1>6, <1>7, <1>8, <1>9

(* With no task left, every finding at hand has a remediation.               *)
LEMMA EndRemediateStep == IInv /\ EndRemediate => IInv'
<1> SUFFICES ASSUME IInv, EndRemediate PROVE IInv'
  OBVIOUS
<1> USE MaxRetriesAssumption, Counters DEF IInv, TypeOK, EndRemediate, Goto, findingVars, listVars
<1>1. TypeOK'
  BY DEF Nodes, Ended
<1>2. EachFindingOnce'
  BY DEF EachFindingOnce
<1>3. VerifiedStillPasses'
  BY DEF VerifiedStillPasses, Passes
<1>4. DroppedOnlyForForeignCitations'
  BY DEF DroppedOnlyForForeignCitations
<1>5. SpendBounded'
  BY DEF SpendBounded
<1>6. SuperstepsBounded'
  BY DEF SuperstepsBounded, StepsSoFar, StepsOfNode
<1>7. PassesSoFar'
  BY DEF PassesSoFar
<1>8. StepsSoFar'
  BY DEF StepsSoFar, StepsOfNode
<1>9. Bookkeeping'
  BY DEF Bookkeeping
<1> QED
  BY <1>1, <1>2, <1>3, <1>4, <1>5, <1>6, <1>7, <1>8, <1>9

(* The report is read off the lists.                                         *)
LEMMA ReportStep == IInv /\ Report => IInv'
<1> SUFFICES ASSUME IInv, Report PROVE IInv'
  OBVIOUS
<1> USE MaxRetriesAssumption, Counters DEF IInv, TypeOK, Report, Goto, findingVars, listVars
<1>1. TypeOK'
  BY DEF Nodes, Ended
<1>2. EachFindingOnce'
  BY DEF EachFindingOnce
<1>3. VerifiedStillPasses'
  BY DEF VerifiedStillPasses, Passes
<1>4. DroppedOnlyForForeignCitations'
  BY DEF DroppedOnlyForForeignCitations
<1>5. SpendBounded'
  BY DEF SpendBounded
<1>6. SuperstepsBounded'
  BY DEF SuperstepsBounded, StepsSoFar, StepsOfNode
<1>7. PassesSoFar'
  BY DEF PassesSoFar, Bookkeeping
<1>8. StepsSoFar'
  BY DEF StepsSoFar, StepsOfNode
<1>9. Bookkeeping'
  BY DEF Bookkeeping
<1> QED
  BY <1>1, <1>2, <1>3, <1>4, <1>5, <1>6, <1>7, <1>8, <1>9

(* A task that ends gives its finding a remediation, and nobody else's: the  *)
(* finding was in neither list, and its counters are those of its passes.    *)
LEMMA RemediatedStep ==
  ASSUME IInv, NEW f \in Findings, NEW c \in {"references", "foreign"}, NEW b \in {0, 1},
         b = 1 \/ c = "foreign" => drafter /\ b = 1, Remediated(f, c, b)
  PROVE  IInv'
<1> USE MaxRetriesAssumption, Counters DEF IInv, TypeOK, Remediated, listVars
<1>1. TypeOK'
  BY DEF Nodes, Ended, Sources
<1>2. EachFindingOnce'
  BY DEF EachFindingOnce
<1>3. VerifiedStillPasses'
  BY DEF VerifiedStillPasses, Passes
<1>4. DroppedOnlyForForeignCitations'
  BY DEF DroppedOnlyForForeignCitations
<1>5. SpendBounded'
  BY DEF SpendBounded, PassesSoFar
<1>6. SuperstepsBounded'
  BY DEF SuperstepsBounded, StepsSoFar, StepsOfNode
<1>7. PassesSoFar'
  BY DEF PassesSoFar
<1>8. StepsSoFar'
  BY DEF StepsSoFar, StepsOfNode
<1>9. Bookkeeping'
  BY DEF Bookkeeping
<1> QED
  BY <1>1, <1>2, <1>3, <1>4, <1>5, <1>6, <1>7, <1>8, <1>9

(* A pass of the verifier sorts the findings at hand: the good ones are      *)
(* verified, those with retries left go round, and the rest had a foreign    *)
(* citation in this pass and in all the earlier ones.                        *)
LEMMA VerifyStep == IInv /\ Verify => IInv'
<1> SUFFICES ASSUME IInv, Verify PROVE IInv'
  OBVIOUS
<1> USE MaxRetriesAssumption, Counters DEF IInv, TypeOK, Verify, Goto, Append, Retried, Good, findingVars
<1>1. TypeOK'
  BY DEF Nodes, Ended
<1>2. EachFindingOnce'
  BY DEF EachFindingOnce
<1>3. VerifiedStillPasses'
  BY DEF VerifiedStillPasses, Passes
<1>4. DroppedOnlyForForeignCitations'
  BY DEF DroppedOnlyForForeignCitations, PassesSoFar, Bookkeeping, Passes
<1>5. SpendBounded'
  BY DEF SpendBounded
<1>6. SuperstepsBounded'
  BY DEF SuperstepsBounded, StepsSoFar, StepsOfNode
<1>7. PassesSoFar'
  BY DEF PassesSoFar, Passes, Bookkeeping
<1>8. StepsSoFar'
  BY DEF StepsSoFar, StepsOfNode
<1>9. Bookkeeping'
  BY DEF Bookkeeping
<1> QED
  BY <1>1, <1>2, <1>3, <1>4, <1>5, <1>6, <1>7, <1>8, <1>9

(* The inductive invariant is preserved by every node and every task.        *)
LEMMA IInvStep == IInv /\ [Next]_vars => IInv'
<1> SUFFICES ASSUME IInv, [Next]_vars PROVE IInv'
  OBVIOUS
<1>1. ASSUME NEW f \in Findings, Deterministic(f) \/ DiscardDraft(f) \/ KeepDraft(f)
      PROVE  IInv'
  BY <1>1, RemediatedStep DEF Deterministic, DiscardDraft, KeepDraft
<1>2. CASE UNCHANGED vars
  BY <1>2
  DEF IInv, TypeOK, EachFindingOnce, VerifiedStillPasses, DroppedOnlyForForeignCitations,
      SpendBounded, SuperstepsBounded, PassesSoFar, StepsSoFar, StepsOfNode, Bookkeeping,
      Passes, vars, findingVars, listVars
<1> QED
  BY <1>1, <1>2, LoadFeedsStep, RaiseStep, IngestStep, TriageStep, ImpactStep,
     EndRemediateStep, VerifyStep, ReportStep
  DEF Next, Over

(* The inductive invariant holds in every reachable state.                   *)
THEOREM IInvHolds == Spec => []IInv
  BY IInvInit, IInvStep, PTL DEF Spec

(* TypeOK, for any lockfile and any max_retries: no task outlives its node.  *)
THEOREM TypeCorrect == Spec => []TypeOK
<1>1. IInv => TypeOK
  BY DEF IInv
<1> QED
  BY <1>1, IInvHolds, PTL

(* No candidate is lost between passes, none is reported or dropped twice.   *)
THEOREM FindingsAreConserved == Spec => []EachFindingOnce
<1>1. IInv => EachFindingOnce
  BY DEF IInv
<1> QED
  BY <1>1, IInvHolds, PTL

(* What is in the verified list passes the verifier while it is there.       *)
THEOREM NothingUnverifiedShips == Spec => []VerifiedStillPasses
<1>1. IInv => VerifiedStillPasses
  BY DEF IInv
<1> QED
  BY <1>1, IInvHolds, PTL

(* A finding is dropped only if all max_retries + 1 drafts cite elsewhere.   *)
THEOREM DropsAreEarned == Spec => []DroppedOnlyForForeignCitations
<1>1. IInv => DroppedOnlyForForeignCitations
  BY DEF IInv
<1> QED
  BY <1>1, IInvHolds, PTL

(* No finding costs more than max_retries + 1 paid calls.                    *)
THEOREM SpendIsBounded == Spec => []SpendBounded
<1>1. IInv => SpendBounded
  BY DEF IInv
<1> QED
  BY <1>1, IInvHolds, PTL

(* A run takes at most 3 * (max_retries + 2) supersteps.                     *)
THEOREM LoopIsBounded == Spec => []SuperstepsBounded
<1>1. IInv => SuperstepsBounded
  BY DEF IInv
<1> QED
  BY <1>1, IInvHolds, PTL

----------------------------------------------------------------------------
(* A verdict is never revised.                                               *)

(* Findings are mutated in place and the lists are shared by all the nodes;  *)
(* still, a later pass neither touches a finding that has its verdict nor    *)
(* pays for it, and the verdict stands.                                      *)
VerdictIsFinal ==
  [][\A f \in Findings :
       verified[f] + rejected[f] > 0 =>
         /\ verified'[f] = verified[f] /\ rejected'[f] = rejected[f]
         /\ cites'[f] = cites[f]
         /\ f \in ranked => f \in ranked'
         /\ billed'[f] = billed[f]]_vars

(* What has its verdict goes round no more, and no task works on it.         *)
LEMMA DecidedIsOut ==
  ASSUME TypeOK, EachFindingOnce, NEW f \in Findings, verified[f] + rejected[f] > 0
  PROVE  f \notin impacted /\ f \notin todo /\ f \in candidates
  BY Counters DEF TypeOK

(* No step of any node changes a finding that is in none of the work lists.  *)
THEOREM VerdictsAreFinal == Spec => VerdictIsFinal
<1>1. IInv /\ [Next]_vars
        => [\A f \in Findings :
              verified[f] + rejected[f] > 0 =>
                /\ verified'[f] = verified[f] /\ rejected'[f] = rejected[f]
                /\ cites'[f] = cites[f]
                /\ f \in ranked => f \in ranked'
                /\ billed'[f] = billed[f]]_vars
  <2> SUFFICES ASSUME IInv, Next, NEW f \in Findings, verified[f] + rejected[f] > 0
               PROVE  /\ verified'[f] = verified[f] /\ rejected'[f] = rejected[f]
                      /\ cites'[f] = cites[f]
                      /\ f \in ranked => f \in ranked'
                      /\ billed'[f] = billed[f]
    OBVIOUS
  <2>1. f \notin impacted /\ f \notin todo /\ f \in candidates
    BY DecidedIsOut DEF IInv
  <2> USE <2>1 DEF IInv, TypeOK, findingVars, listVars
  <2>2. CASE LoadFeeds \/ Raise \/ Report \/ EndRemediate \/ Over
    BY <2>2 DEF LoadFeeds, Raise, Report, EndRemediate, Over, Goto, vars
  <2>3. CASE Ingest \/ Triage
    BY <2>3 DEF Ingest, Triage, Goto, Bookkeeping
  <2>4. CASE Impact
    BY <2>4 DEF Impact
  <2>5. ASSUME NEW g \in Findings, NEW c, NEW b, Remediated(g, c, b)
        PROVE  /\ verified'[f] = verified[f] /\ rejected'[f] = rejected[f]
               /\ cites'[f] = cites[f]
               /\ f \in ranked => f \in ranked'
               /\ billed'[f] = billed[f]
    BY <2>5 DEF Remediated
  <2>6. CASE Verify
    BY <2>6 DEF Verify, Append, Good, Retried
  <2> QED
    BY <2>2, <2>3, <2>4, <2>5, <2>6 DEF Next, Deterministic, DiscardDraft, KeepDraft
<1> QED
  BY <1>1, IInvHolds, PTL DEF Spec, VerdictIsFinal

----------------------------------------------------------------------------
(* What a run that ends has done, and what it does without a drafter.        *)

(* A run that returns has given every candidate one verdict: the statistics  *)
(* of the report leave no third way out of the retry loop.                   *)
EveryCandidateIsDecided ==
  node = "done" => \A f \in candidates : verified[f] + rejected[f] = 1

(* Dropping a finding has cost all the paid calls there are: a drafter is    *)
(* configured, and was paid once in each of the max_retries + 1 passes.      *)
DropsCostEveryPass ==
  \A f \in Findings : rejected[f] > 0 => drafter /\ billed[f] = MaxRetries + 1

(* Without an API key the run is one straight pass: six supersteps at most,  *)
(* nothing dropped, and a report of exactly what triage matched.             *)
OfflineRunIsStraight ==
  ~drafter =>
    /\ steps <= 6
    /\ \A f \in Findings : rejected[f] = 0
    /\ node = "done" => \A f \in Findings : verified[f] > 0 <=> f \in candidates

(* A fabricated draft was paid for, nothing goes round once the lists are    *)
(* reported, and a run without a drafter passes each node once.              *)
RunShape ==
  /\ \A f \in Findings : fabricated[f] <= billed[f]
  /\ node \in {"report", "done"} => impacted = {}
  /\ ~drafter => steps <= 6 /\ (node = "report" => steps <= 5)

(* Without a drafter nothing is ever fabricated.                             *)
LEMMA OfflineIsHonest ==
  ASSUME IInv, RunShape, ~drafter, NEW f \in Findings
  PROVE  fabricated[f] = 0 /\ rejected[f] = 0
<1>1. fabricated[f] \in Nat /\ billed[f] \in Nat /\ rejected[f] \in Nat
  BY Counters DEF IInv
<1>2. billed[f] <= 0 /\ fabricated[f] <= billed[f]
  BY DEF IInv, SpendBounded, RunShape
<1>3. fabricated[f] = 0
  BY <1>1, <1>2
<1>4. rejected[f] > 0 => fabricated[f] = MaxRetries + 1
  BY DEF IInv, DroppedOnlyForForeignCitations
<1> QED
  BY <1>1, <1>3, <1>4, MaxRetriesAssumption

(* Without a drafter, then, the verifier sends nothing round again.          *)
LEMMA OfflineVerify ==
  ASSUME IInv, RunShape, ~drafter, Verify
  PROVE  node' = "report" /\ steps' <= 5
<1> USE DEF IInv
<1>1. \A f \in impacted : f \in Findings /\ fabricated[f] = 0 /\ retry[f] \in Nat
  BY OfflineIsHonest, Counters DEF TypeOK
<1>2. ASSUME NEW f \in impacted PROVE Passes(f) /\ retry[f] = 0
  <2>1. /\ cites[f] \in {"references", "foreign"}
        /\ fabricated[f] = retry[f] + (IF cites[f] = "foreign" THEN 1 ELSE 0)
    BY DEF Verify, Goto, PassesSoFar, TypeOK
  <2>2. cites[f] # "foreign" /\ retry[f] = 0
    BY <1>1, <2>1
  <2>3. f \in ranked
    BY DEF Verify, Goto, Bookkeeping
  <2> QED
    BY <2>1, <2>2, <2>3 DEF Passes
<1>3. Retried = {}
  BY <1>2 DEF Retried, Good
<1>4. steps = 4
  BY <1>2 DEF Verify, Goto, StepsSoFar, StepsOfNode
<1> QED
  BY <1>3, <1>4 DEF Verify, Goto

(* Where a run without a drafter stands at the other nodes.                  *)
LEMMA OfflineSteps ==
  ASSUME IInv, RunShape, ~drafter
  PROVE  /\ node \in {"feeds", "ingest", "triage"} => steps <= 1
         /\ node = "impact" => steps = 2
         /\ node = "remediate" => steps = 3
<1> USE DEF IInv
<1>1. node \in {"impact", "remediate"}
        => \A f \in impacted : retry[f] = 0 \/ (f \notin todo /\ node = "remediate")
  BY OfflineIsHonest, Counters DEF PassesSoFar, TypeOK
<1>2. ASSUME node = "remediate", NEW f \in impacted, f \notin todo PROVE retry[f] = 0
  <2>1. /\ fabricated[f] = retry[f] + (IF cites[f] = "foreign" THEN 1 ELSE 0)
        /\ f \in Findings
    BY <1>2 DEF PassesSoFar, TypeOK
  <2> QED
    BY <2>1, OfflineIsHonest, Counters
<1> QED
  BY <1>1, <1>2 DEF StepsSoFar, StepsOfNode

(* Every node and every task keeps the shape of the run.                     *)
LEMMA RunShapeStep ==
  ASSUME IInv, IInv', RunShape, [Next]_vars
  PROVE  RunShape'
<1> USE Counters DEF IInv, findingVars, listVars
<1>1. ASSUME NEW f \in Findings, NEW c \in {"references", "foreign"}, NEW b \in {0, 1, 2},
             c = "foreign" => b = 1, Remediated(f, c, b)
      PROVE  RunShape'
  <2>1. \A g \in Findings : fabricated'[g] <= billed'[g]
    BY <1>1 DEF Remediated, RunShape, TypeOK
  <2> QED
    BY <1>1, <2>1 DEF Remediated, RunShape
<1>2. CASE LoadFeeds \/ Raise \/ Over \/ UNCHANGED vars
  BY <1>2 DEF LoadFeeds, Raise, Over, RunShape, vars
<1>3. CASE Ingest \/ Triage \/ Impact \/ EndRemediate
  <2>1. fabricated' = fabricated /\ billed' = billed /\ drafter' = drafter
    BY <1>3 DEF Ingest, Triage, Impact, EndRemediate, Goto
  <2>2. ~drafter => steps' <= 6
    BY <1>3, OfflineSteps DEF Ingest, Triage, Impact, EndRemediate, Goto, TypeOK
  <2> QED
    BY <1>3, <2>1, <2>2 DEF Ingest, Triage, Impact, EndRemediate, Goto, RunShape
<1>4. CASE Verify
  <2>1. node' = "report" => impacted' = {}
    BY <1>4 DEF Verify, Goto
  <2>2. ~drafter => node' = "report" /\ steps' <= 5 /\ steps' \in Nat
    BY <1>4, OfflineVerify DEF TypeOK
  <2> QED
    BY <1>4, <2>1, <2>2 DEF Verify, Goto, RunShape
<1>5. CASE Report
  BY <1>5 DEF Report, Goto, RunShape, TypeOK
<1> QED
  BY <1>1, <1>2, <1>3, <1>4, <1>5 DEF Next, Deterministic, DiscardDraft, KeepDraft

(* Before anything has run, the shape is kept.                               *)
LEMMA RunShapeInit == Init => RunShape
  BY DEF Init, RunShape, Zero

(* The shape of a run, in every reachable state.                             *)
THEOREM RunShapeHolds == Spec => []RunShape
  BY RunShapeInit, RunShapeStep, IInvHolds, PTL DEF Spec

(* Every run that returns has decided every candidate, once.                 *)
THEOREM EveryCandidateGetsAVerdict == Spec => []EveryCandidateIsDecided
<1>1. IInv /\ RunShape => EveryCandidateIsDecided
  <2> SUFFICES ASSUME IInv, RunShape, node = "done", NEW f \in candidates
               PROVE  verified[f] + rejected[f] = 1
    BY DEF EveryCandidateIsDecided
  <2>1. f \in Findings /\ f \notin impacted
    BY DEF IInv, TypeOK, RunShape
  <2> QED
    BY <2>1, Counters DEF IInv, EachFindingOnce
<1> QED
  BY <1>1, IInvHolds, RunShapeHolds, PTL

(* Every dropped finding was paid for max_retries + 1 times.                 *)
THEOREM DropsArePaidFor == Spec => []DropsCostEveryPass
<1>1. IInv /\ RunShape => DropsCostEveryPass
  <2> SUFFICES ASSUME IInv, RunShape, NEW f \in Findings, rejected[f] > 0
               PROVE  drafter /\ billed[f] = MaxRetries + 1
    BY DEF DropsCostEveryPass
  <2>1. fabricated[f] = MaxRetries + 1 /\ fabricated[f] <= billed[f] /\ billed[f] \in Nat
    BY Counters DEF IInv, RunShape, DroppedOnlyForForeignCitations
  <2>2. drafter
    BY OfflineIsHonest
  <2>3. billed[f] <= MaxRetries + 1
    BY <2>2 DEF IInv, SpendBounded
  <2> QED
    BY <2>1, <2>2, <2>3, MaxRetriesAssumption
<1> QED
  BY <1>1, IInvHolds, RunShapeHolds, PTL

(* Without a drafter the report is exactly what triage matched.              *)
THEOREM OfflineRunsAreStraight == Spec => []OfflineRunIsStraight
<1>1. IInv /\ RunShape => OfflineRunIsStraight
  <2> SUFFICES ASSUME IInv, RunShape, ~drafter PROVE OfflineRunIsStraight
    BY DEF OfflineRunIsStraight
  <2>1. steps <= 6
    BY DEF RunShape
  <2>2. \A f \in Findings : rejected[f] = 0
    BY OfflineIsHonest
  <2>3. ASSUME node = "done", NEW f \in Findings
        PROVE  verified[f] > 0 <=> f \in candidates
    <3>1. f \notin impacted
      BY <2>3 DEF RunShape
    <3> QED
      BY <2>2, <3>1, Counters DEF IInv, EachFindingOnce
  <2> QED
    BY <2>1, <2>2, <2>3 DEF OfflineRunIsStraight
<1> QED
  BY <1>1, IInvHolds, RunShapeHolds, PTL
=============================================================================
