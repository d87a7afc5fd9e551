-------------------------- MODULE ScanQueueProofs --------------------------
(* Proofs about ScanQueue, for every set of scans and workers and any number *)
(* of kills and refused statements.                                          *)
EXTENDS ScanRuns, FiniteSetTheorems, TLAPS

(* The sets of program counters, spelled out for the provers.                *)
LEMMA PcValues ==
  /\ Holding = {"running", "finishing", "failing", "aborted"}
  /\ Busy = {"running", "finishing", "failing", "aborted", "claiming"}
  /\ PcStates = {"running", "finishing", "failing", "aborted", "claiming",
                 "down", "polling", "sleeping"}
  BY DEF Holding, Busy, PcStates

(* The empty table and the stopped workers are of their types.               *)
LEMMA TypeInit == Init => TypeOK
  BY NoneAssumption, PcValues DEF Init, TypeOK, Statuses

(* A worker's report is about the scan it was given.                         *)
LEMMA ReportIsTyped ==
  ASSUME TypeOK, NEW w \in Workers, job[w] \in Jobs
  PROVE  ReportOf(w) \in Reports
  BY DEF ReportOf, Reports

(* The type invariant is preserved by every step.                            *)
LEMMA TypeStep == TypeOK /\ [Next]_vars => TypeOK'
<1> SUFFICES ASSUME TypeOK, [Next]_vars PROVE TypeOK'
  OBVIOUS
<1> USE NoneAssumption, PcValues
<1>1. ASSUME NEW j \in Jobs, Insert(j) PROVE TypeOK'
  BY <1>1 DEF Insert, TypeOK, Statuses, Committed, workerVars, faultVars
<1>2. ASSUME NEW j \in Jobs, CommitInsert(j) PROVE TypeOK'
  BY <1>2 DEF CommitInsert, TypeOK, Statuses, workerVars, faultVars
<1>3. ASSUME NEW j \in Jobs, AbortInsert(j) PROVE TypeOK'
  BY <1>3 DEF AbortInsert, TypeOK, Statuses, workerVars, faultVars
<1>4. ASSUME NEW j \in Jobs, GrowStale(j) PROVE TypeOK'
  BY <1>4 DEF GrowStale, TypeOK, workerVars, faultVars
<1>5. ASSUME NEW w \in Workers, Start(w) PROVE TypeOK'
  BY <1>5 DEF Start, TypeOK, Statuses, StaleRows, faultVars
<1>6. ASSUME NEW w \in Workers, ClaimLock(w) PROVE TypeOK'
  BY <1>6 DEF ClaimLock, TypeOK, Oldest, Claimable, Pending, rowVars, faultVars
<1>7. ASSUME NEW w \in Workers, ClaimCommit(w) PROVE TypeOK'
  BY <1>7 DEF ClaimCommit, TypeOK, Statuses, faultVars
<1>8. ASSUME NEW w \in Workers, PollEmpty(w) \/ Wake(w) \/ RunOk(w) \/ RunRaises(w)
      PROVE  TypeOK'
  BY <1>8 DEF PollEmpty, Wake, RunOk, RunRaises, TypeOK, rowVars, faultVars
<1>9. ASSUME NEW w \in Workers, Finish(w) PROVE TypeOK'
  BY <1>9, ReportIsTyped DEF Finish, NextRound, TypeOK, Statuses, faultVars
<1>10. ASSUME NEW w \in Workers, Fail(w) PROVE TypeOK'
  BY <1>10 DEF Fail, NextRound, TypeOK, Statuses, faultVars
<1>11. ASSUME NEW w \in Workers, Exit(w), crashes' \in Nat, dbErrors' \in Nat
       PROVE  TypeOK'
  BY <1>11 DEF Exit, TypeOK, rowVars
<1>12. ASSUME NEW w \in Workers, Crash(w) \/ StatementRaises(w) \/ FailOnAborted(w)
       PROVE  TypeOK'
  BY <1>11, <1>12 DEF Crash, StatementRaises, FailOnAborted, TypeOK, faultVars
<1>13. ASSUME NEW w \in Workers, FinishRaises(w) PROVE TypeOK'
  BY <1>13 DEF FinishRaises, TypeOK, rowVars
<1>14. CASE UNCHANGED vars
  BY <1>14 DEF TypeOK, vars, rowVars, workerVars, faultVars
<1> QED
  BY <1>1, <1>2, <1>3, <1>4, <1>5, <1>6, <1>7, <1>8, <1>9, <1>10, <1>12, <1>13, <1>14
  DEF Next, WorkerStep

----------------------------------------------------------------------------
(* One lemma for each part of the inductive invariant.                       *)

(* No step makes the columns of a row disagree: finish and fail write status *)
(* and outcome in one statement, _CLAIM and _RECLAIM status and claimed_at.  *)
LEMMA RowConsistentStep ==
  ASSUME TypeOK, TypeOK', RowConsistent, ClaimIsExclusive, [Next]_vars
  PROVE  RowConsistent'
<1> USE NoneAssumption, PcValues DEF TypeOK, RowConsistent, ClaimIsExclusive,
      Terminal, rowVars, workerVars, faultVars
<1>1. ASSUME NEW j \in Jobs, Insert(j) \/ CommitInsert(j) \/ AbortInsert(j)
      PROVE  RowConsistent'
  BY <1>1 DEF Insert, CommitInsert, AbortInsert
<1>2. ASSUME NEW j \in Jobs, GrowStale(j)
      PROVE  RowConsistent'
  BY <1>2 DEF GrowStale
<1>3. ASSUME NEW w \in Workers, Start(w)
      PROVE  RowConsistent'
  BY <1>3 DEF Start, StaleRows
<1>4. ASSUME NEW w \in Workers, ClaimLock(w)
      PROVE  RowConsistent'
  BY <1>4 DEF ClaimLock, Oldest, Claimable, Pending
<1>5. ASSUME NEW w \in Workers, ClaimCommit(w)
      PROVE  RowConsistent'
  BY <1>5 DEF ClaimCommit
<1>6. ASSUME NEW w \in Workers, PollEmpty(w) \/ Wake(w)
      PROVE  RowConsistent'
  BY <1>6 DEF PollEmpty, Wake
<1>7. ASSUME NEW w \in Workers, RunOk(w) \/ RunRaises(w) \/ FinishRaises(w)
      PROVE  RowConsistent'
  BY <1>7 DEF RunOk, RunRaises, FinishRaises
<1>8. ASSUME NEW w \in Workers, Finish(w)
      PROVE  RowConsistent'
  BY <1>8 DEF Finish, NextRound, ReportOf, Reports
<1>9. ASSUME NEW w \in Workers, Fail(w)
      PROVE  RowConsistent'
  BY <1>9 DEF Fail, NextRound
<1>10. ASSUME NEW w \in Workers, Exit(w)
      PROVE  RowConsistent'
  BY <1>10 DEF Exit
<1>11. CASE UNCHANGED vars
  BY <1>11 DEF vars
<1> QED
  BY <1>1, <1>2, <1>3, <1>4, <1>5, <1>6, <1>7, <1>8, <1>9, <1>10, <1>11
  DEF Next, WorkerStep, Crash, StatementRaises, FailOnAborted

(* Two claims in flight never have the same row: a claim skips locked rows,  *)
(* and nothing else touches a pending row.                                   *)
LEMMA ClaimIsExclusiveStep ==
  ASSUME TypeOK, TypeOK', ClaimIsExclusive, [Next]_vars
  PROVE  ClaimIsExclusive'
<1> USE NoneAssumption, PcValues DEF TypeOK, ClaimIsExclusive, rowVars,
      workerVars, faultVars
<1>1. ASSUME NEW j \in Jobs, Insert(j) \/ CommitInsert(j) \/ AbortInsert(j)
      PROVE  ClaimIsExclusive'
  BY <1>1 DEF Insert, CommitInsert, AbortInsert
<1>2. ASSUME NEW j \in Jobs, GrowStale(j)
      PROVE  ClaimIsExclusive'
  BY <1>2 DEF GrowStale
<1>3. ASSUME NEW w \in Workers, Start(w)
      PROVE  ClaimIsExclusive'
  BY <1>3 DEF Start, StaleRows
<1>4. ASSUME NEW w \in Workers, ClaimLock(w)
      PROVE  ClaimIsExclusive'
  BY <1>4 DEF ClaimLock, Oldest, Claimable, Pending
<1>5. ASSUME NEW w \in Workers, ClaimCommit(w)
      PROVE  ClaimIsExclusive'
  BY <1>5 DEF ClaimCommit
<1>6. ASSUME NEW w \in Workers, PollEmpty(w) \/ Wake(w)
      PROVE  ClaimIsExclusive'
  BY <1>6 DEF PollEmpty, Wake
<1>7. ASSUME NEW w \in Workers, RunOk(w) \/ RunRaises(w) \/ FinishRaises(w)
      PROVE  ClaimIsExclusive'
  BY <1>7 DEF RunOk, RunRaises, FinishRaises
<1>8. ASSUME NEW w \in Workers, Finish(w)
      PROVE  ClaimIsExclusive'
  BY <1>8 DEF Finish, NextRound
<1>9. ASSUME NEW w \in Workers, Fail(w)
      PROVE  ClaimIsExclusive'
  BY <1>9 DEF Fail, NextRound
<1>10. ASSUME NEW w \in Workers, Exit(w)
      PROVE  ClaimIsExclusive'
  BY <1>10 DEF Exit
<1>11. CASE UNCHANGED vars
  BY <1>11 DEF vars
<1> QED
  BY <1>1, <1>2, <1>3, <1>4, <1>5, <1>6, <1>7, <1>8, <1>9, <1>10, <1>11
  DEF Next, WorkerStep, Crash, StatementRaises, FailOnAborted

(* A row never put back is held by its last claimer only: only a pending row *)
(* is claimed, and such a row is in no other worker's hands.                 *)
LEMMA SoleRunnerUnlessReclaimedStep ==
  ASSUME TypeOK, TypeOK', SoleRunnerUnlessReclaimed, PendingIsFree,
         [Next]_vars
  PROVE  SoleRunnerUnlessReclaimed'
<1> USE NoneAssumption, PcValues DEF TypeOK, SoleRunnerUnlessReclaimed,
      PendingIsFree, Holds, rowVars, workerVars, faultVars
<1>1. ASSUME NEW j \in Jobs, Insert(j) \/ CommitInsert(j) \/ AbortInsert(j)
      PROVE  SoleRunnerUnlessReclaimed'
  BY <1>1 DEF Insert, CommitInsert, AbortInsert
<1>2. ASSUME NEW j \in Jobs, GrowStale(j)
      PROVE  SoleRunnerUnlessReclaimed'
  BY <1>2 DEF GrowStale
<1>3. ASSUME NEW w \in Workers, Start(w)
      PROVE  SoleRunnerUnlessReclaimed'
  BY <1>3 DEF Start, StaleRows
<1>4. ASSUME NEW w \in Workers, ClaimLock(w)
      PROVE  SoleRunnerUnlessReclaimed'
  BY <1>4 DEF ClaimLock, Oldest, Claimable, Pending
<1>5. ASSUME NEW w \in Workers, ClaimCommit(w)
      PROVE  SoleRunnerUnlessReclaimed'
  BY <1>5 DEF ClaimCommit
<1>6. ASSUME NEW w \in Workers, PollEmpty(w) \/ Wake(w)
      PROVE  SoleRunnerUnlessReclaimed'
  BY <1>6 DEF PollEmpty, Wake
<1>7. ASSUME NEW w \in Workers, RunOk(w) \/ RunRaises(w) \/ FinishRaises(w)
      PROVE  SoleRunnerUnlessReclaimed'
  BY <1>7 DEF RunOk, RunRaises, FinishRaises
<1>8. ASSUME NEW w \in Workers, Finish(w)
      PROVE  SoleRunnerUnlessReclaimed'
  BY <1>8 DEF Finish, NextRound
<1>9. ASSUME NEW w \in Workers, Fail(w)
      PROVE  SoleRunnerUnlessReclaimed'
  BY <1>9 DEF Fail, NextRound
<1>10. ASSUME NEW w \in Workers, Exit(w)
      PROVE  SoleRunnerUnlessReclaimed'
  BY <1>10 DEF Exit
<1>11. CASE UNCHANGED vars
  BY <1>11 DEF vars
<1> QED
  BY <1>1, <1>2, <1>3, <1>4, <1>5, <1>6, <1>7, <1>8, <1>9, <1>10, <1>11
  DEF Next, WorkerStep, Crash, StatementRaises, FailOnAborted

(* A running row has its last claimer at work on it, or that claimer died:   *)
(* finish and fail let go of a row only by settling it.                      *)
LEMMA RunningIsHeldOrOrphanedStep ==
  ASSUME TypeOK, TypeOK', RunningIsHeldOrOrphaned, ClaimIsExclusive,
         PendingIsFree, [Next]_vars
  PROVE  RunningIsHeldOrOrphaned'
<1> USE NoneAssumption, PcValues DEF TypeOK, RunningIsHeldOrOrphaned,
      ClaimIsExclusive, PendingIsFree, Holds, rowVars, workerVars, faultVars
<1>1. ASSUME NEW j \in Jobs, Insert(j) \/ CommitInsert(j) \/ AbortInsert(j)
      PROVE  RunningIsHeldOrOrphaned'
  BY <1>1 DEF Insert, CommitInsert, AbortInsert
<1>2. ASSUME NEW j \in Jobs, GrowStale(j)
      PROVE  RunningIsHeldOrOrphaned'
  BY <1>2 DEF GrowStale
<1>3. ASSUME NEW w \in Workers, Start(w)
      PROVE  RunningIsHeldOrOrphaned'
  BY <1>3 DEF Start, StaleRows
<1>4. ASSUME NEW w \in Workers, ClaimLock(w)
      PROVE  RunningIsHeldOrOrphaned'
  BY <1>4 DEF ClaimLock, Oldest, Claimable, Pending
<1>5. ASSUME NEW w \in Workers, ClaimCommit(w)
      PROVE  RunningIsHeldOrOrphaned'
  BY <1>5 DEF ClaimCommit
<1>6. ASSUME NEW w \in Workers, PollEmpty(w) \/ Wake(w)
      PROVE  RunningIsHeldOrOrphaned'
  BY <1>6 DEF PollEmpty, Wake
<1>7. ASSUME NEW w \in Workers, RunOk(w) \/ RunRaises(w) \/ FinishRaises(w)
      PROVE  RunningIsHeldOrOrphaned'
  BY <1>7 DEF RunOk, RunRaises, FinishRaises
<1>8. ASSUME NEW w \in Workers, Finish(w)
      PROVE  RunningIsHeldOrOrphaned'
  BY <1>8 DEF Finish, NextRound
<1>9. ASSUME NEW w \in Workers, Fail(w)
      PROVE  RunningIsHeldOrOrphaned'
  BY <1>9 DEF Fail, NextRound
<1>10. ASSUME NEW w \in Workers, Exit(w)
      PROVE  RunningIsHeldOrOrphaned'
  BY <1>10 DEF Exit
<1>11. CASE UNCHANGED vars
  BY <1>11 DEF vars
<1> QED
  BY <1>1, <1>2, <1>3, <1>4, <1>5, <1>6, <1>7, <1>8, <1>9, <1>10, <1>11
  DEF Next, WorkerStep, Crash, StatementRaises, FailOnAborted

(* A claim takes the oldest pending row no other claim has locked, so that a *)
(* row visible when it was inserted has had its turn.                        *)
LEMMA NoOvertakingStep ==
  ASSUME TypeOK, TypeOK', NoOvertaking, ClaimersOfRows, PendingIsFree,
         SeenStaysVisible, [Next]_vars
  PROVE  NoOvertaking'
<1> USE NoneAssumption, PcValues DEF TypeOK, NoOvertaking, ClaimersOfRows,
      PendingIsFree, SeenStaysVisible, Committed, Terminal, Statuses, rowVars,
      workerVars, faultVars
<1>1. ASSUME NEW j \in Jobs, Insert(j) \/ CommitInsert(j) \/ AbortInsert(j)
      PROVE  NoOvertaking'
  BY <1>1 DEF Insert, CommitInsert, AbortInsert
<1>2. ASSUME NEW j \in Jobs, GrowStale(j)
      PROVE  NoOvertaking'
  BY <1>2 DEF GrowStale
<1>3. ASSUME NEW w \in Workers, Start(w)
      PROVE  NoOvertaking'
  BY <1>3 DEF Start, StaleRows
<1>4. ASSUME NEW w \in Workers, ClaimLock(w)
      PROVE  NoOvertaking'
  BY <1>4 DEF ClaimLock, Oldest, Claimable, Pending
<1>5. ASSUME NEW w \in Workers, ClaimCommit(w)
      PROVE  NoOvertaking'
  BY <1>5 DEF ClaimCommit
<1>6. ASSUME NEW w \in Workers, PollEmpty(w) \/ Wake(w)
      PROVE  NoOvertaking'
  BY <1>6 DEF PollEmpty, Wake
<1>7. ASSUME NEW w \in Workers, RunOk(w) \/ RunRaises(w) \/ FinishRaises(w)
      PROVE  NoOvertaking'
  BY <1>7 DEF RunOk, RunRaises, FinishRaises
<1>8. ASSUME NEW w \in Workers, Finish(w)
      PROVE  NoOvertaking'
  BY <1>8 DEF Finish, NextRound
<1>9. ASSUME NEW w \in Workers, Fail(w)
      PROVE  NoOvertaking'
  BY <1>9 DEF Fail, NextRound
<1>10. ASSUME NEW w \in Workers, Exit(w)
      PROVE  NoOvertaking'
  BY <1>10 DEF Exit
<1>11. CASE UNCHANGED vars
  BY <1>11 DEF vars
<1> QED
  BY <1>1, <1>2, <1>3, <1>4, <1>5, <1>6, <1>7, <1>8, <1>9, <1>10, <1>11
  DEF Next, WorkerStep, Crash, StatementRaises, FailOnAborted

(* A row nobody can see has no claimer, and a row that left 'pending' has    *)
(* one.                                                                      *)
LEMMA ClaimersOfRowsStep ==
  ASSUME TypeOK, TypeOK', ClaimersOfRows, ClaimIsExclusive, PendingIsFree,
         [Next]_vars
  PROVE  ClaimersOfRows'
<1> USE NoneAssumption, PcValues DEF TypeOK, ClaimersOfRows, ClaimIsExclusive,
      PendingIsFree, Committed, Terminal, Statuses, rowVars, workerVars,
      faultVars
<1>1. ASSUME NEW j \in Jobs, Insert(j) \/ CommitInsert(j) \/ AbortInsert(j)
      PROVE  ClaimersOfRows'
  BY <1>1 DEF Insert, CommitInsert, AbortInsert
<1>2. ASSUME NEW j \in Jobs, GrowStale(j)
      PROVE  ClaimersOfRows'
  BY <1>2 DEF GrowStale
<1>3. ASSUME NEW w \in Workers, Start(w)
      PROVE  ClaimersOfRows'
  BY <1>3 DEF Start, StaleRows
<1>4. ASSUME NEW w \in Workers, ClaimLock(w)
      PROVE  ClaimersOfRows'
  BY <1>4 DEF ClaimLock, Oldest, Claimable, Pending
<1>5. ASSUME NEW w \in Workers, ClaimCommit(w)
      PROVE  ClaimersOfRows'
  BY <1>5 DEF ClaimCommit
<1>6. ASSUME NEW w \in Workers, PollEmpty(w) \/ Wake(w)
      PROVE  ClaimersOfRows'
  BY <1>6 DEF PollEmpty, Wake
<1>7. ASSUME NEW w \in Workers, RunOk(w) \/ RunRaises(w) \/ FinishRaises(w)
      PROVE  ClaimersOfRows'
  BY <1>7 DEF RunOk, RunRaises, FinishRaises
<1>8. ASSUME NEW w \in Workers, Finish(w)
      PROVE  ClaimersOfRows'
  BY <1>8 DEF Finish, NextRound
<1>9. ASSUME NEW w \in Workers, Fail(w)
      PROVE  ClaimersOfRows'
  BY <1>9 DEF Fail, NextRound
<1>10. ASSUME NEW w \in Workers, Exit(w)
      PROVE  ClaimersOfRows'
  BY <1>10 DEF Exit
<1>11. CASE UNCHANGED vars
  BY <1>11 DEF vars
<1> QED
  BY <1>1, <1>2, <1>3, <1>4, <1>5, <1>6, <1>7, <1>8, <1>9, <1>10, <1>11
  DEF Next, WorkerStep, Crash, StatementRaises, FailOnAborted

(* A lock in flight is its owner's, and a pending row that was never put     *)
(* back is in nobody's hands.                                                *)
LEMMA PendingIsFreeStep ==
  ASSUME TypeOK, TypeOK', PendingIsFree, ClaimIsExclusive,
         SoleRunnerUnlessReclaimed, ClaimersOfRows, [Next]_vars
  PROVE  PendingIsFree'
<1> USE NoneAssumption, PcValues DEF TypeOK, PendingIsFree, Holds, rowVars,
      workerVars, faultVars
<1>1. ASSUME NEW j \in Jobs, Insert(j) \/ CommitInsert(j) \/ AbortInsert(j)
      PROVE  PendingIsFree'
  BY <1>1 DEF Insert, CommitInsert, AbortInsert, ClaimersOfRows, Committed
<1>2. ASSUME NEW j \in Jobs, GrowStale(j)
      PROVE  PendingIsFree'
  BY <1>2 DEF GrowStale
<1>3. ASSUME NEW w \in Workers, Start(w)
      PROVE  PendingIsFree'
  BY <1>3 DEF Start, StaleRows
<1>4. ASSUME NEW w \in Workers, ClaimLock(w)
      PROVE  PendingIsFree'
  BY <1>4 DEF ClaimLock, Oldest, Claimable, Pending
<1>5. ASSUME NEW w \in Workers, ClaimCommit(w)
      PROVE  PendingIsFree'
  BY <1>5 DEF ClaimCommit, ClaimIsExclusive
<1>6. ASSUME NEW w \in Workers, PollEmpty(w) \/ Wake(w)
      PROVE  PendingIsFree'
  BY <1>6 DEF PollEmpty, Wake
<1>7. ASSUME NEW w \in Workers, RunOk(w) \/ RunRaises(w) \/ FinishRaises(w)
      PROVE  PendingIsFree'
  BY <1>7 DEF RunOk, RunRaises, FinishRaises
<1>8. ASSUME NEW w \in Workers, Finish(w)
      PROVE  PendingIsFree'
  BY <1>8 DEF Finish, NextRound
<1>9. ASSUME NEW w \in Workers, Fail(w)
      PROVE  PendingIsFree'
  BY <1>9 DEF Fail, NextRound
<1>10. ASSUME NEW w \in Workers, Exit(w)
      PROVE  PendingIsFree'
  BY <1>10 DEF Exit
<1>11. CASE UNCHANGED vars
  BY <1>11 DEF vars
<1> QED
  BY <1>1, <1>2, <1>3, <1>4, <1>5, <1>6, <1>7, <1>8, <1>9, <1>10, <1>11
  DEF Next, WorkerStep, Crash, StatementRaises, FailOnAborted

(* What an insert saw stays visible: no statement deletes a committed row.   *)
LEMMA SeenStaysVisibleStep ==
  ASSUME TypeOK, TypeOK', SeenStaysVisible, [Next]_vars
  PROVE  SeenStaysVisible'
<1> USE NoneAssumption, PcValues DEF TypeOK, SeenStaysVisible, Committed,
      Statuses, rowVars, workerVars, faultVars
<1>1. ASSUME NEW j \in Jobs, Insert(j) \/ CommitInsert(j) \/ AbortInsert(j)
      PROVE  SeenStaysVisible'
  BY <1>1 DEF Insert, CommitInsert, AbortInsert
<1>2. ASSUME NEW j \in Jobs, GrowStale(j)
      PROVE  SeenStaysVisible'
  BY <1>2 DEF GrowStale
<1>3. ASSUME NEW w \in Workers, Start(w)
      PROVE  SeenStaysVisible'
  BY <1>3 DEF Start, StaleRows
<1>4. ASSUME NEW w \in Workers, ClaimLock(w)
      PROVE  SeenStaysVisible'
  BY <1>4 DEF ClaimLock, Oldest, Claimable, Pending
<1>5. ASSUME NEW w \in Workers, ClaimCommit(w)
      PROVE  SeenStaysVisible'
  BY <1>5 DEF ClaimCommit
<1>6. ASSUME NEW w \in Workers, PollEmpty(w) \/ Wake(w)
      PROVE  SeenStaysVisible'
  BY <1>6 DEF PollEmpty, Wake
<1>7. ASSUME NEW w \in Workers, RunOk(w) \/ RunRaises(w) \/ FinishRaises(w)
      PROVE  SeenStaysVisible'
  BY <1>7 DEF RunOk, RunRaises, FinishRaises
<1>8. ASSUME NEW w \in Workers, Finish(w)
      PROVE  SeenStaysVisible'
  BY <1>8 DEF Finish, NextRound
<1>9. ASSUME NEW w \in Workers, Fail(w)
      PROVE  SeenStaysVisible'
  BY <1>9 DEF Fail, NextRound
<1>10. ASSUME NEW w \in Workers, Exit(w)
      PROVE  SeenStaysVisible'
  BY <1>10 DEF Exit
<1>11. CASE UNCHANGED vars
  BY <1>11 DEF vars
<1> QED
  BY <1>1, <1>2, <1>3, <1>4, <1>5, <1>6, <1>7, <1>8, <1>9, <1>10, <1>11
  DEF Next, WorkerStep, Crash, StatementRaises, FailOnAborted

----------------------------------------------------------------------------
(* With no row and no worker, every part of the invariant holds.             *)
LEMMA IInvInit == Init => IInv
<1> SUFFICES ASSUME Init PROVE IInv
  OBVIOUS
<1>1. TypeOK
  BY TypeInit
<1>2. \A w \in Workers, j \in Jobs : ~Holds(w, j)
  BY PcValues DEF Init, Holds
<1>3. Committed = {}
  BY DEF Init, Committed
<1> QED
  BY <1>1, <1>2, <1>3
  DEF Init, IInv, RowConsistent, ClaimIsExclusive, SoleRunnerUnlessReclaimed,
      RunningIsHeldOrOrphaned, NoOvertaking, ClaimersOfRows, PendingIsFree,
      SeenStaysVisible, Terminal

(* The inductive invariant is preserved by every step, part by part.         *)
LEMMA IInvStep == IInv /\ [Next]_vars => IInv'
  BY TypeStep, RowConsistentStep, ClaimIsExclusiveStep, SoleRunnerUnlessReclaimedStep,
     RunningIsHeldOrOrphanedStep, NoOvertakingStep, ClaimersOfRowsStep,
     PendingIsFreeStep, SeenStaysVisibleStep
  DEF IInv

(* The inductive invariant holds in every reachable state.                   *)
THEOREM IInvHolds == Spec => []IInv
  BY IInvInit, IInvStep, PTL DEF Spec

----------------------------------------------------------------------------
(* TypeOK, for any constants.                                                *)
THEOREM TypeCorrect == Spec => []TypeOK
<1>1. IInv => TypeOK
  BY DEF IInv
<1> QED
  BY <1>1, IInvHolds, PTL

(* The columns of a row agree, whatever claims, reclaims and late writes     *)
(* meet: in particular a done row always has the report read_scan returns.   *)
THEOREM RowsAreConsistent == Spec => []RowConsistent
<1>1. IInv => RowConsistent
  BY DEF IInv
<1> QED
  BY <1>1, IInvHolds, PTL

(* SKIP LOCKED claims never collide, with any number of workers.             *)
THEOREM ClaimsAreExclusive == Spec => []ClaimIsExclusive
<1>1. IInv => ClaimIsExclusive
  BY DEF IInv
<1> QED
  BY <1>1, IInvHolds, PTL

(* Only reclaim_stale can make two workers run the same scan.                *)
THEOREM DoubleRunsComeFromReclaim == Spec => []SoleRunnerUnlessReclaimed
<1>1. IInv => SoleRunnerUnlessReclaimed
  BY DEF IInv
<1> QED
  BY <1>1, IInvHolds, PTL

(* No path through process_once leaves a running row behind, except the      *)
(* death of the worker that holds it.                                        *)
THEOREM NoJobIsLost == Spec => []RunningIsHeldOrOrphaned
<1>1. IInv => RunningIsHeldOrOrphaned
  BY DEF IInv
<1> QED
  BY <1>1, IInvHolds, PTL

(* Visible-before-inserted scans are claimed first, with any number of       *)
(* workers, reclaims and crashes.                                            *)
THEOREM FirstComeFirstServed == Spec => []NoOvertaking
<1>1. IInv => NoOvertaking
  BY DEF IInv
<1> QED
  BY <1>1, IInvHolds, PTL

----------------------------------------------------------------------------
(* A step leaves a settled row as it is: what is locked is pending, and      *)
(* finish, fail and reclaim_stale change running rows only.                  *)
LEMMA SettledStep ==
  ASSUME IInv, [Next]_vars, NEW k \in Jobs, status[k] \in Terminal
  PROVE  status'[k] = status[k] /\ result'[k] = result[k] /\ error'[k] = error[k]
<1> DEFINE Same == status'[k] = status[k] /\ result'[k] = result[k] /\ error'[k] = error[k]
<1> USE PcValues DEF IInv, TypeOK, Terminal, rowVars
<1>1. ASSUME NEW j \in Jobs, Insert(j) \/ CommitInsert(j) \/ AbortInsert(j) PROVE Same
  BY <1>1 DEF Insert, CommitInsert, AbortInsert
<1>2. ASSUME NEW j \in Jobs, GrowStale(j) PROVE Same
  BY <1>2 DEF GrowStale
<1>3. ASSUME NEW w \in Workers, Start(w) PROVE Same
  BY <1>3 DEF Start, StaleRows
<1>4. ASSUME NEW w \in Workers, ClaimCommit(w) PROVE Same
  BY <1>4 DEF ClaimCommit, ClaimIsExclusive
<1>5. ASSUME NEW w \in Workers, Finish(w) \/ Fail(w) PROVE Same
  BY <1>5 DEF Finish, Fail, NextRound
<1>6. CASE UNCHANGED rowVars
  BY <1>6
<1> QED
  BY <1>1, <1>2, <1>3, <1>4, <1>5, <1>6
  DEF Next, WorkerStep, vars, ClaimLock, PollEmpty, Wake, RunOk, RunRaises,
      FinishRaises, Exit, Crash, StatementRaises, FailOnAborted

(* An answer read_scan gives about a settled scan is its answer for ever.    *)
THEOREM AnswersAreFinal == Spec => AnswerIsFinal
<1>1. IInv /\ [Next]_vars
        => [\A j \in Jobs : status[j] \in Terminal => ReadScan(j)' = ReadScan(j)]_vars
  <2> SUFFICES ASSUME IInv, [Next]_vars, NEW j \in Jobs, status[j] \in Terminal
               PROVE  ReadScan(j)' = ReadScan(j)
    OBVIOUS
  <2>1. status'[j] = status[j] /\ result'[j] = result[j] /\ error'[j] = error[j]
    BY SettledStep
  <2>2. (j \in Committed)' <=> j \in Committed
    BY <2>1 DEF Committed
  <2> QED
    BY <2>1, <2>2 DEF ReadScan
<1> QED
  BY <1>1, IInvHolds, PTL DEF Spec, AnswerIsFinal

----------------------------------------------------------------------------
(* ScanQueue implements ScanJobs.                                            *)

(* The abstract runners change only with the job or program counter of a     *)
(* worker entering or leaving Holding.                                       *)
LEMMA RunnersSame ==
  ASSUME TypeOK, \A v \in Workers, k \in Jobs : Holds(v, k)' <=> Holds(v, k)
  PROVE  \A k \in Jobs : RunnersOf(k)' = RunnersOf(k)
  BY DEF RunnersOf

(* A worker that lets go of its job leaves that scan's runners only.         *)
LEMMA RunnersLeave ==
  ASSUME TypeOK, NEW w \in Workers, NEW j \in Jobs, Holds(w, j),
         job' = [job EXCEPT ![w] = None],
         \A v \in Workers \ {w} : pc'[v] = pc[v]
  PROVE  \A k \in Jobs : RunnersOf(k)' = IF k = j THEN RunnersOf(k) \ {w} ELSE RunnersOf(k)
<1>1. \A v \in Workers, k \in Jobs : Holds(v, k)' <=> Holds(v, k) /\ v # w
  BY NoneAssumption DEF TypeOK, Holds
<1>2. \A k \in Jobs : k # j => ~Holds(w, k)
  BY DEF Holds
<1> QED
  BY <1>1, <1>2 DEF RunnersOf

(* The abstract phases depend on the status column only.                     *)
LEMMA PhaseSame ==
  ASSUME status' = status
  PROVE  \A k \in Jobs : PhaseOf(k)' = PhaseOf(k)
  BY DEF PhaseOf, Committed

(* The abstract outcomes depend on the result column only.                   *)
LEMMA OutcomeSame ==
  ASSUME result' = result
  PROVE  \A k \in Jobs : OutcomeOf(k)' = OutcomeOf(k)
  BY DEF OutcomeOf

(* A committed row's phase is its status.                                    *)
LEMMA PhaseIsStatus ==
  ASSUME NEW j \in Jobs, status[j] \in {"pending", "running", "done", "error"}
  PROVE  PhaseOf(j) = status[j]
  BY DEF PhaseOf, Committed

(* An empty table is a queue to which nothing has been submitted.            *)
LEMMA RefinementInit == Init => Abstract!Init
  BY PcValues DEF Init, Abstract!Init, PhaseOf, RunnersOf, OutcomeOf, Holds, Committed

(* enqueue's commit submits the scan; its other steps are invisible.         *)
LEMMA RefineCommitInsert ==
  ASSUME IInv, NEW j \in Jobs, CommitInsert(j)
  PROVE  Abstract!Submit(j)
<1> USE DEF IInv, TypeOK, CommitInsert, workerVars
<1>1. PhaseOf(j) = "unknown" /\ PhaseOf(j)' = "pending"
  BY DEF PhaseOf, Committed
<1>2. \A k \in Jobs \ {j} : PhaseOf(k)' = PhaseOf(k)
  BY DEF PhaseOf, Committed
<1>3. \A k \in Jobs : RunnersOf(k)' = RunnersOf(k)
  BY RunnersSame DEF Holds
<1>4. \A k \in Jobs : OutcomeOf(k)' = OutcomeOf(k)
  BY OutcomeSame
<1> QED
  BY <1>1, <1>2, <1>3, <1>4 DEF Abstract!Submit

(* reclaim_stale requeues the stale rows and tells nobody.                   *)
LEMMA RefineStart ==
  ASSUME IInv, NEW w \in Workers, Start(w)
  PROVE  Abstract!Requeue(StaleRows)
<1> USE PcValues DEF IInv, TypeOK, Start
<1>1. \A k \in StaleRows : PhaseOf(k) = "running" /\ PhaseOf(k)' = "pending"
  BY DEF PhaseOf, Committed, StaleRows
<1>2. \A k \in Jobs \ StaleRows : PhaseOf(k)' = PhaseOf(k)
  BY DEF PhaseOf, Committed
<1>3. \A v \in Workers, k \in Jobs : Holds(v, k)' <=> Holds(v, k)
  BY DEF Holds
<1>4. \A k \in Jobs : RunnersOf(k)' = RunnersOf(k)
  BY <1>3, RunnersSame
<1>5. \A k \in Jobs : OutcomeOf(k)' = OutcomeOf(k)
  BY OutcomeSame
<1> QED
  BY <1>1, <1>2, <1>4, <1>5 DEF Abstract!Requeue, StaleRows

(* The commit of a claim begins the scan.                                    *)
LEMMA RefineClaimCommit ==
  ASSUME IInv, NEW w \in Workers, ClaimCommit(w), NEW j \in Jobs, job[w] = j
  PROVE  Abstract!Begin(w, j)
<1> USE PcValues DEF IInv, TypeOK, ClaimCommit
<1>1. status[j] = "pending"
  BY DEF ClaimIsExclusive
<1>2. PhaseOf(j) = "pending" /\ PhaseOf(j)' = "running"
  BY <1>1 DEF PhaseOf, Committed
<1>3. \A k \in Jobs \ {j} : PhaseOf(k)' = PhaseOf(k)
  BY <1>1 DEF PhaseOf, Committed
<1>4. \A v \in Workers, k \in Jobs : Holds(v, k)' <=> Holds(v, k) \/ (v = w /\ k = j)
  BY <1>1 DEF Holds
<1>5. \A k \in Jobs :
        RunnersOf(k)' = IF k = j THEN RunnersOf(k) \cup {w} ELSE RunnersOf(k)
  BY <1>4 DEF RunnersOf
<1>6. \A k \in Jobs : OutcomeOf(k)' = OutcomeOf(k)
  BY OutcomeSame
<1> QED
  BY <1>1, <1>2, <1>3, <1>5, <1>6 DEF Abstract!Begin

(* A finish or fail whose guard finds the row not running only lets go.      *)
LEMMA RefineNoOp ==
  ASSUME IInv, NEW w \in Workers, NEW j \in Jobs, Holds(w, j), NextRound(w) \/ Exit(w),
         status' = status, result' = result
  PROVE  Abstract!Leave(w, j)
<1> USE DEF IInv
<1>1. \A k \in Jobs : RunnersOf(k)' = IF k = j THEN RunnersOf(k) \ {w} ELSE RunnersOf(k)
  BY RunnersLeave DEF NextRound, Exit, TypeOK
<1>2. w \in RunnersOf(j)
  BY DEF RunnersOf
<1> QED
  BY <1>1, <1>2, PhaseSame, OutcomeSame DEF Abstract!Leave

(* A finish that stores its report is the abstract Report.                   *)
LEMMA RefineFinish ==
  ASSUME IInv, NEW w \in Workers, Finish(w), NEW j \in Jobs, job[w] = j
  PROVE  Abstract!Report(w, j) \/ Abstract!Leave(w, j)
<1> USE PcValues DEF IInv
<1>1. Holds(w, j)
  BY DEF Finish, Holds, TypeOK
<1>2. CASE status[j] # "running"
  BY <1>1, <1>2, RefineNoOp DEF Finish
<1>3. CASE status[j] = "running"
  <2>1. PhaseOf(j) = "running" /\ PhaseOf(j)' = "done"
    BY <1>1, <1>3 DEF Finish, TypeOK, PhaseOf, Committed
  <2>2. \A k \in Jobs \ {j} : PhaseOf(k)' = PhaseOf(k)
    BY <1>1, <1>3 DEF Finish, TypeOK, PhaseOf, Committed
  <2>3. \A k \in Jobs :
          RunnersOf(k)' = IF k = j THEN RunnersOf(k) \ {w} ELSE RunnersOf(k)
    BY <1>1, RunnersLeave DEF Finish, NextRound, TypeOK
  <2>4. OutcomeOf(j)' = {w}
    <3>1. result'[j] = ReportOf(w)
      BY <1>1, <1>3 DEF Finish, TypeOK
    <3>2. ReportOf(w) # None /\ ReportOf(w).run_by = w
      BY <1>1, NoneAssumption DEF ReportOf, Reports
    <3> QED
      BY <1>1, <3>1, <3>2 DEF OutcomeOf
  <2>5. \A k \in Jobs \ {j} : OutcomeOf(k)' = OutcomeOf(k)
    BY <1>1, <1>3 DEF Finish, TypeOK, OutcomeOf
  <2>6. w \in RunnersOf(j)
    BY <1>1 DEF RunnersOf
  <2> QED
    BY <1>1, <2>1, <2>2, <2>3, <2>4, <2>5, <2>6 DEF Abstract!Report
<1> QED
  BY <1>1, <1>2, <1>3

(* A fail that stores its error is the abstract Fail.                        *)
LEMMA RefineFail ==
  ASSUME IInv, NEW w \in Workers, Fail(w), NEW j \in Jobs, job[w] = j
  PROVE  Abstract!Fail(w, j) \/ Abstract!Leave(w, j)
<1> USE PcValues DEF IInv
<1>1. Holds(w, j)
  BY DEF Fail, Holds, TypeOK
<1>2. CASE status[j] # "running"
  BY <1>1, <1>2, RefineNoOp DEF Fail
<1>3. CASE status[j] = "running"
  <2>1. PhaseOf(j) = "running" /\ PhaseOf(j)' = "error"
    BY <1>1, <1>3 DEF Fail, TypeOK, PhaseOf, Committed
  <2>2. \A k \in Jobs \ {j} : PhaseOf(k)' = PhaseOf(k)
    BY <1>1, <1>3 DEF Fail, TypeOK, PhaseOf, Committed
  <2>3. \A k \in Jobs :
          RunnersOf(k)' = IF k = j THEN RunnersOf(k) \ {w} ELSE RunnersOf(k)
    BY <1>1, RunnersLeave DEF Fail, NextRound, TypeOK
  <2>4. \A k \in Jobs : OutcomeOf(k)' = OutcomeOf(k)
    BY OutcomeSame DEF Fail
  <2>5. w \in RunnersOf(j)
    BY <1>1 DEF RunnersOf
  <2> QED
    BY <1>1, <2>1, <2>2, <2>3, <2>4, <2>5 DEF Abstract!Fail
<1> QED
  BY <1>1, <1>2, <1>3

(* The death of a worker: its runs end, and nothing else changes.            *)
LEMMA RefineExit ==
  ASSUME IInv, NEW w \in Workers, Exit(w)
  PROVE  UNCHANGED Abstract!jobVars \/ \E j \in Jobs : Abstract!Leave(w, j)
<1> USE PcValues DEF IInv
<1>1. CASE \E j \in Jobs : Holds(w, j)
  BY <1>1, RefineNoOp DEF Exit, rowVars
<1>2. CASE \A j \in Jobs : ~Holds(w, j)
  <2>1. \A v \in Workers, k \in Jobs : Holds(v, k)' <=> Holds(v, k)
    BY <1>2, NoneAssumption DEF Exit, TypeOK, Holds
  <2> QED
    BY <2>1, RunnersSame, PhaseSame, OutcomeSame DEF Exit, rowVars, Abstract!jobVars
<1> QED
  BY <1>1, <1>2

(* The steps the abstract life cycle does not see.                           *)
LEMMA RefineStutter ==
  ASSUME IInv,
         \/ \E j \in Jobs : Insert(j) \/ AbortInsert(j) \/ GrowStale(j)
         \/ \E w \in Workers : ClaimLock(w) \/ PollEmpty(w) \/ Wake(w) \/ RunOk(w)
                                 \/ RunRaises(w) \/ FinishRaises(w)
         \/ UNCHANGED vars
  PROVE  UNCHANGED Abstract!jobVars
<1> USE PcValues DEF IInv, TypeOK
<1>1. \A k \in Jobs : PhaseOf(k)' = PhaseOf(k)
  BY DEF PhaseOf, Committed, Insert, AbortInsert, GrowStale, ClaimLock, PollEmpty, Wake,
         RunOk, RunRaises, FinishRaises, vars, rowVars
<1>2. \A v \in Workers, k \in Jobs : Holds(v, k)' <=> Holds(v, k)
  BY DEF Holds, Insert, AbortInsert, GrowStale, ClaimLock, PollEmpty, Wake,
         RunOk, RunRaises, FinishRaises, vars, workerVars
<1>3. \A k \in Jobs : RunnersOf(k)' = RunnersOf(k)
  BY <1>2, RunnersSame
<1>4. \A k \in Jobs : OutcomeOf(k)' = OutcomeOf(k)
  BY OutcomeSame
  DEF Insert, AbortInsert, GrowStale, ClaimLock, PollEmpty, Wake,
      RunOk, RunRaises, FinishRaises, vars, rowVars
<1> QED
  BY <1>1, <1>3, <1>4 DEF Abstract!jobVars

(* Every step of the queue is a step of the life cycle or changes none of it.*)
LEMMA RefinementStep == IInv /\ [Next]_vars => [Abstract!Next]_(Abstract!jobVars)
<1> SUFFICES ASSUME IInv, [Next]_vars PROVE [Abstract!Next]_(Abstract!jobVars)
  OBVIOUS
<1>1. ASSUME NEW j \in Jobs, CommitInsert(j) PROVE Abstract!Next
  BY <1>1, RefineCommitInsert DEF Abstract!Next
<1>2. ASSUME NEW w \in Workers, Start(w) PROVE Abstract!Next
  <2>1. StaleRows \in SUBSET Jobs
    BY DEF StaleRows
  <2> QED
    BY <1>2, <2>1, RefineStart DEF Abstract!Next
<1>3. ASSUME NEW w \in Workers, ClaimCommit(w) PROVE Abstract!Next
  <2>1. job[w] \in Jobs
    BY <1>3, PcValues DEF ClaimCommit, IInv, TypeOK
  <2> QED
    BY <1>3, <2>1, RefineClaimCommit DEF Abstract!Next
<1>4. ASSUME NEW w \in Workers, Finish(w) PROVE Abstract!Next
  <2>1. job[w] \in Jobs
    BY <1>4, PcValues DEF Finish, IInv, TypeOK
  <2> QED
    BY <1>4, <2>1, RefineFinish DEF Abstract!Next
<1>5. ASSUME NEW w \in Workers, Fail(w) PROVE Abstract!Next
  <2>1. job[w] \in Jobs
    BY <1>5, PcValues DEF Fail, IInv, TypeOK
  <2> QED
    BY <1>5, <2>1, RefineFail DEF Abstract!Next
<1>6. ASSUME NEW w \in Workers, Exit(w) PROVE [Abstract!Next]_(Abstract!jobVars)
  BY <1>6, RefineExit DEF Abstract!Next
<1>7. ASSUME \/ \E j \in Jobs : Insert(j) \/ AbortInsert(j) \/ GrowStale(j)
             \/ \E w \in Workers : ClaimLock(w) \/ PollEmpty(w) \/ Wake(w) \/ RunOk(w)
                                     \/ RunRaises(w) \/ FinishRaises(w)
             \/ UNCHANGED vars
      PROVE  UNCHANGED Abstract!jobVars
  BY <1>7, RefineStutter
<1> QED
  BY <1>1, <1>2, <1>3, <1>4, <1>5, <1>6, <1>7
  DEF Next, WorkerStep, Crash, StatementRaises, FailOnAborted

(* The queue, its locks and its late writes implement the abstract life      *)
(* cycle: settled once, from "running", by a worker that holds the scan.     *)
THEOREM ImplementsScanJobs == Spec => JobLifecycle
  BY RefinementInit, RefinementStep, IInvHolds, PTL
  DEF Spec, JobLifecycle, Abstract!Spec

----------------------------------------------------------------------------
(* How much the failures can cost.                                           *)

(* One death of a worker strands one scan at most, and only a kill or a      *)
(* refused statement brings a death about: the scans left without a runner   *)
(* are never more than the failures there have been.                         *)
DeathsBoundLosses == Cardinality(orphans) <= crashes + dbErrors

(* The workers about to die of an aborted transaction count as losses too:   *)
(* the refused finish that doomed them has been counted already.             *)
LossesCounted ==
  /\ IsFiniteSet(orphans)
  /\ IsFiniteSet(Doomed)
  /\ Cardinality(orphans) + Cardinality(Doomed) <= crashes + dbErrors

(* A worker holds one scan at most, and so does its death orphan.            *)
LEMMA ExitOrphansOne ==
  ASSUME TypeOK, NEW w \in Workers, Exit(w)
  PROVE  \/ orphans' = orphans
         \/ \E j \in Jobs : orphans' = orphans \cup {j}
<1>1. CASE \E j \in Jobs : Holds(w, j) /\ owner[j] = w
  <2>1. PICK j \in Jobs : Holds(w, j) /\ owner[j] = w
    BY <1>1
  <2>2. {k \in Jobs : Holds(w, k) /\ owner[k] = w} = {j}
    BY <2>1 DEF Holds
  <2> QED
    BY <2>2 DEF Exit
<1>2. CASE \A j \in Jobs : ~(Holds(w, j) /\ owner[j] = w)
  <2>1. {k \in Jobs : Holds(w, k) /\ owner[k] = w} = {}
    BY <1>2
  <2> QED
    BY <2>1 DEF Exit
<1> QED
  BY <1>1, <1>2

(* The same death, counted.                                                  *)
LEMMA ExitCostsOne ==
  ASSUME TypeOK, IsFiniteSet(orphans), NEW w \in Workers, Exit(w)
  PROVE  /\ IsFiniteSet(orphans')
         /\ Cardinality(orphans') <= Cardinality(orphans) + 1
<1>1. CASE orphans' = orphans
  <2>1. Cardinality(orphans) \in Nat
    BY FS_CardinalityType
  <2> QED
    BY <1>1, <2>1
<1>2. CASE \E j \in Jobs : orphans' = orphans \cup {j}
  <2>1. PICK j \in Jobs : orphans' = orphans \cup {j}
    BY <1>2
  <2>2. Cardinality(orphans) \in Nat
    BY FS_CardinalityType
  <2>3. /\ IsFiniteSet(orphans \cup {j})
        /\ \/ Cardinality(orphans \cup {j}) = Cardinality(orphans)
           \/ Cardinality(orphans \cup {j}) = Cardinality(orphans) + 1
    BY FS_AddElement, Zenon
  <2> QED
    BY <2>1, <2>2, <2>3
<1> QED
  BY <1>1, <1>2, ExitOrphansOne

(* Who is aborted after a death: nobody new, and not the dead.               *)
LEMMA ExitAborted ==
  ASSUME TypeOK, NEW w \in Workers, Exit(w)
  PROVE  Doomed' = Doomed \ {w}
  BY PcValues DEF TypeOK, Exit, Doomed

(* Losses never outrun failures: FinishRaises pays for the death of the      *)
(* worker it dooms, a kill and a refused statement for their own.            *)
LEMMA LossesCountedStep ==
  ASSUME TypeOK, TypeOK', LossesCounted, [Next]_vars
  PROVE  LossesCounted'
<1> USE PcValues DEF LossesCounted
<1>0. /\ Cardinality(orphans) \in Nat /\ Cardinality(Doomed) \in Nat
      /\ crashes \in Nat /\ dbErrors \in Nat
  BY FS_CardinalityType DEF TypeOK
<1>1. ASSUME NEW w \in Workers, ClaimLock(w) PROVE LossesCounted'
  <2>1. PICK j \in Oldest : orphans' = orphans \ {j}
    BY <1>1 DEF ClaimLock
  <2>2. IsFiniteSet(orphans') /\ Cardinality(orphans') <= Cardinality(orphans)
    BY <2>1, FS_Subset
  <2>3. Doomed' = Doomed
    BY <1>1 DEF ClaimLock, TypeOK, Doomed
  <2>4. Cardinality(orphans') \in Nat
    BY <2>2, FS_CardinalityType
  <2> QED
    BY <1>0, <1>1, <2>2, <2>3, <2>4 DEF ClaimLock, faultVars
<1>2. ASSUME NEW w \in Workers, Crash(w) \/ StatementRaises(w) PROVE LossesCounted'
  <2>1. Exit(w) /\ crashes' + dbErrors' = crashes + dbErrors + 1
    BY <1>0, <1>2 DEF Crash, StatementRaises
  <2>2. IsFiniteSet(orphans') /\ Cardinality(orphans') <= Cardinality(orphans) + 1
    BY <2>1, ExitCostsOne
  <2>3. IsFiniteSet(Doomed') /\ Cardinality(Doomed') <= Cardinality(Doomed)
    BY <2>1, ExitAborted, FS_Subset
  <2>4. Cardinality(orphans') \in Nat /\ Cardinality(Doomed') \in Nat
    BY <2>2, <2>3, FS_CardinalityType
  <2> QED
    BY <1>0, <2>1, <2>2, <2>3, <2>4
<1>3. ASSUME NEW w \in Workers, FailOnAborted(w) PROVE LossesCounted'
  <2>1. Exit(w) /\ w \in Doomed /\ UNCHANGED faultVars
    BY <1>3 DEF FailOnAborted, Doomed
  <2>2. IsFiniteSet(orphans') /\ Cardinality(orphans') <= Cardinality(orphans) + 1
    BY <2>1, ExitCostsOne
  <2>3. IsFiniteSet(Doomed') /\ Cardinality(Doomed') = Cardinality(Doomed) - 1
    BY <2>1, <1>0, ExitAborted, FS_RemoveElement
  <2>4. Cardinality(orphans') \in Nat
    BY <2>2, FS_CardinalityType
  <2> QED
    BY <1>0, <2>1, <2>2, <2>3, <2>4 DEF faultVars
<1>4. ASSUME NEW w \in Workers, FinishRaises(w) PROVE LossesCounted'
  <2>1. Doomed' = Doomed \cup {w} /\ w \notin Doomed
    BY <1>4 DEF FinishRaises, TypeOK, Doomed
  <2>2. IsFiniteSet(Doomed') /\ Cardinality(Doomed') = Cardinality(Doomed) + 1
    BY <2>1, FS_AddElement
  <2>3. orphans' = orphans /\ crashes' + dbErrors' = crashes + dbErrors + 1
    BY <1>0, <1>4 DEF FinishRaises
  <2> QED
    BY <1>0, <2>2, <2>3
<1>5. ASSUME UNCHANGED <<orphans, faultVars>>, Doomed' \subseteq Doomed
      PROVE  LossesCounted'
  <2>1. IsFiniteSet(Doomed') /\ Cardinality(Doomed') <= Cardinality(Doomed)
    BY <1>5, FS_Subset
  <2>2. Cardinality(Doomed') \in Nat
    BY <2>1, FS_CardinalityType
  <2> QED
    BY <1>0, <1>5, <2>1, <2>2 DEF faultVars
<1>6. ASSUME NEW j \in Jobs, Insert(j) \/ CommitInsert(j) \/ AbortInsert(j) \/ GrowStale(j)
      PROVE  UNCHANGED <<orphans, faultVars>> /\ Doomed' \subseteq Doomed
  BY <1>6 DEF Insert, CommitInsert, AbortInsert, GrowStale, workerVars, Doomed
<1>7. ASSUME NEW w \in Workers, Start(w) \/ ClaimCommit(w) \/ PollEmpty(w) \/ Wake(w)
                \/ RunOk(w) \/ RunRaises(w) \/ Finish(w) \/ Fail(w)
      PROVE  UNCHANGED <<orphans, faultVars>> /\ Doomed' \subseteq Doomed
  BY <1>7 DEF Start, ClaimCommit, PollEmpty, Wake, RunOk, RunRaises, Finish, Fail,
              NextRound, TypeOK, Doomed
<1>8. CASE UNCHANGED vars
  <2>1. UNCHANGED <<orphans, faultVars>> /\ Doomed' \subseteq Doomed
    BY <1>8 DEF vars, workerVars, Doomed
  <2> QED
    BY <1>5, <2>1
<1> QED
  BY <1>1, <1>2, <1>3, <1>4, <1>5, <1>6, <1>7, <1>8 DEF Next, WorkerStep

(* Nothing is lost before anything has failed.                               *)
LEMMA LossesCountedInit == Init => LossesCounted
<1> SUFFICES ASSUME Init PROVE LossesCounted
  OBVIOUS
<1>1. orphans = {} /\ Doomed = {} /\ crashes = 0 /\ dbErrors = 0
  BY DEF Init, Doomed
<1> QED
  BY <1>1, FS_EmptySet DEF LossesCounted

(* Whatever the number of scans and workers, f failures strand f scans at    *)
(* most: a refused finish takes its scan, and no other, down with the loop.  *)
THEOREM LossesAreBounded == Spec => []DeathsBoundLosses
<1>1. TypeOK /\ LossesCounted => DeathsBoundLosses
  BY FS_CardinalityType DEF TypeOK, LossesCounted, DeathsBoundLosses
<1> QED
  BY <1>1, TypeCorrect, LossesCountedInit, LossesCountedStep, PTL DEF Spec

(* The only door out of the loop with a job in hand, short of a kill: a      *)
(* refused finish, and then the fail on the same session.                    *)
AbortsWereRefusals == Doomed # {} => dbErrors > 0

(* Only FinishRaises dooms a worker, and it spends a refusal.                *)
LEMMA AbortsWereRefusalsStep ==
  ASSUME TypeOK, AbortsWereRefusals, [Next]_vars
  PROVE  AbortsWereRefusals'
<1> USE PcValues DEF AbortsWereRefusals, Doomed, TypeOK
<1>1. ASSUME NEW w \in Workers, FinishRaises(w) PROVE AbortsWereRefusals'
  BY <1>1 DEF FinishRaises
<1>2. ASSUME NEW w \in Workers, Exit(w), dbErrors' \in {dbErrors, dbErrors + 1}
      PROVE  AbortsWereRefusals'
  BY <1>2 DEF Exit
<1>3. ASSUME NEW j \in Jobs, Insert(j) \/ CommitInsert(j) \/ AbortInsert(j) \/ GrowStale(j)
      PROVE  AbortsWereRefusals'
  BY <1>3 DEF Insert, CommitInsert, AbortInsert, GrowStale, workerVars, faultVars
<1>4. ASSUME NEW w \in Workers, Start(w) \/ ClaimLock(w) \/ ClaimCommit(w) \/ PollEmpty(w)
                \/ Wake(w) \/ RunOk(w) \/ RunRaises(w) \/ Finish(w) \/ Fail(w)
      PROVE  AbortsWereRefusals'
  BY <1>4 DEF Start, ClaimLock, ClaimCommit, PollEmpty, Wake, RunOk, RunRaises, Finish,
              Fail, NextRound, faultVars
<1>5. CASE UNCHANGED vars
  BY <1>5 DEF vars, workerVars, faultVars
<1> QED
  BY <1>1, <1>2, <1>3, <1>4, <1>5
  DEF Next, WorkerStep, Crash, StatementRaises, FailOnAborted, faultVars

(* As long as the database refuses no statement, whatever _run_job raises    *)
(* the loop goes on: the docstring of worker.py holds but for that case.     *)
THEOREM LoopSurvivesJobs == Spec /\ [](dbErrors = 0) => JobNeverKillsLoop
<1>1. Init => AbortsWereRefusals
  BY DEF Init, AbortsWereRefusals, Doomed
<1>2. TypeOK /\ AbortsWereRefusals /\ dbErrors = 0 /\ [Next]_vars
        => [\A w \in Workers :
              pc[w] \in Holding /\ UNCHANGED faultVars => pc'[w] # "down"]_vars
  <2> SUFFICES ASSUME TypeOK, AbortsWereRefusals, dbErrors = 0, Next,
                      NEW w \in Workers, pc[w] \in Holding, UNCHANGED faultVars,
                      pc'[w] = "down"
               PROVE  FALSE
    BY DEF vars, workerVars, TypeOK, PcValues
  <2> QED
    BY PcValues DEF Next, WorkerStep, TypeOK, AbortsWereRefusals, Doomed, Insert,
       CommitInsert, AbortInsert, GrowStale, Start, ClaimLock, ClaimCommit, PollEmpty,
       Wake, RunOk, RunRaises, Finish, Fail, NextRound, FailOnAborted, Exit, Crash,
       StatementRaises, FinishRaises, workerVars, faultVars
<1> QED
  BY <1>1, <1>2, TypeCorrect, AbortsWereRefusalsStep, PTL DEF Spec, JobNeverKillsLoop

----------------------------------------------------------------------------
(* What a write of a worker that lost its claim can do.                      *)

(* queue.py:73 promises that finish and fail do nothing once the row was     *)
(* claimed by somebody else.  When they do change the answer about scan j,   *)
(* j was put back by reclaim_stale, is running again, and its new claimer is *)
(* at work on it or has died: they take over a run, never an outcome.        *)
StaleWriteTakesOver ==
  [][\A w \in Workers, j \in Jobs :
       /\ pc[w] \in {"finishing", "failing"}
       /\ pc'[w] = "polling"
       /\ job[w] = j
       /\ owner[j] # w
       /\ ReadScan(j)' # ReadScan(j)
       => /\ j \in requeued
          /\ status[j] = "running"
          /\ j \in orphans \/ \E v \in Workers \ {w} : owner[j] = v /\ Holds(v, j)]_vars

(* Of the steps that end a round, only a finish or a fail on a running row   *)
(* changes what is read about the scan.                                      *)
LEMMA RoundEndStep ==
  ASSUME IInv, Next, NEW w \in Workers, pc[w] \in {"finishing", "failing"},
         pc'[w] = "polling", NEW j \in Jobs, job[w] = j, status[j] # "running"
  PROVE  ReadScan(j)' = ReadScan(j)
<1>1. Finish(w) \/ Fail(w)
  BY PcValues DEF IInv, TypeOK, Next, WorkerStep, Insert, CommitInsert, AbortInsert,
     GrowStale, Start, ClaimLock, ClaimCommit, PollEmpty, Wake, RunOk, RunRaises, Finish,
     Fail, NextRound, FailOnAborted, Exit, Crash, StatementRaises, FinishRaises, workerVars
<1>2. UNCHANGED <<status, result, error>>
  BY <1>1 DEF Finish, Fail
<1> QED
  BY <1>2 DEF ReadScan, Committed

(* A write that comes late replaces, at worst, a run of the same scan that   *)
(* is in progress or abandoned: the exact scope of what the comment misses.  *)
THEOREM StaleWritesOnlyTakeOver == Spec => StaleWriteTakesOver
<1>1. IInv /\ [Next]_vars
        => [\A w \in Workers, j \in Jobs :
              /\ pc[w] \in {"finishing", "failing"}
              /\ pc'[w] = "polling"
              /\ job[w] = j
              /\ owner[j] # w
              /\ ReadScan(j)' # ReadScan(j)
              => /\ j \in requeued
                 /\ status[j] = "running"
                 /\ j \in orphans \/ \E v \in Workers \ {w} : owner[j] = v /\ Holds(v, j)]_vars
  <2> SUFFICES ASSUME IInv, Next, NEW w \in Workers, NEW j \in Jobs,
                      pc[w] \in {"finishing", "failing"}, pc'[w] = "polling",
                      job[w] = j, owner[j] # w, ReadScan(j)' # ReadScan(j)
               PROVE  /\ j \in requeued
                      /\ status[j] = "running"
                      /\ j \in orphans \/ \E v \in Workers \ {w} : owner[j] = v /\ Holds(v, j)
    OBVIOUS
  <2>1. Holds(w, j)
    BY PcValues DEF Holds
  <2>2. j \in requeued
    BY <2>1 DEF IInv, SoleRunnerUnlessReclaimed
  <2>3. status[j] = "running"
    BY RoundEndStep
  <2>4. j \in orphans \/ \E v \in Workers : owner[j] = v /\ Holds(v, j)
    BY <2>3 DEF IInv, RunningIsHeldOrOrphaned
  <2> QED
    BY <2>2, <2>3, <2>4
<1> QED
  BY <1>1, IInvHolds, PTL DEF Spec, StaleWriteTakesOver

----------------------------------------------------------------------------
(* How often a scan is run.                                                  *)

(* Counting changes nothing: what is proved of the queue holds of the        *)
(* counted queue.                                                            *)
THEOREM RunsOnlyWatch == RunsSpec => Spec
<1>1. RunsInit => Init
  BY DEF RunsInit
<1>2. [RunsNext]_<<vars, runVars>> => [Next]_vars
  BY DEF RunsNext, CountedStart, CountedClaim, Uncounted, Next, WorkerStep
<1> QED
  BY <1>1, <1>2, PTL DEF RunsSpec, Spec

RunsType ==
  /\ taken \in [Jobs -> Nat]
  /\ putBack \in [Jobs -> Nat]
  /\ starts \in Nat

(* The counters are counters.                                                *)
LEMMA RunsTypeStep ==
  ASSUME RunsType, [RunsNext]_<<vars, runVars>>
  PROVE  RunsType'
<1> USE DEF RunsType, runVars
<1>1. ASSUME NEW w \in Workers, CountedStart(w) PROVE RunsType'
  BY <1>1 DEF CountedStart
<1>2. ASSUME NEW w \in Workers, CountedClaim(w) PROVE RunsType'
  <2>1. CASE job[w] \in Jobs
    BY <1>2, <2>1 DEF CountedClaim
  <2>2. CASE job[w] \notin Jobs
    <3>1. taken' = taken
      BY <1>2, <2>2 DEF CountedClaim
    <3> QED
      BY <1>2, <3>1 DEF CountedClaim
  <2> QED
    BY <2>1, <2>2
<1>3. CASE UNCHANGED runVars
  BY <1>3
<1> QED
  BY <1>1, <1>2, <1>3 DEF RunsNext, Uncounted

(* The states of a row whose last claim was committed and not put back.      *)
Claimed(j) == status[j] \in {"running"} \cup Terminal

(* Only a start of a worker and a committed claim move a row into or out of  *)
(* these states: a late finish or fail settles a row that is in them.        *)
LEMMA ClaimedStays ==
  ASSUME IInv, Next, \A w \in Workers : ~Start(w) /\ ~ClaimCommit(w), NEW j \in Jobs
  PROVE  Claimed(j)' <=> Claimed(j)
<1> USE PcValues DEF IInv, TypeOK, Claimed, Terminal
<1>1. ASSUME NEW k \in Jobs, Insert(k) \/ CommitInsert(k) \/ AbortInsert(k) \/ GrowStale(k)
      PROVE  Claimed(j)' <=> Claimed(j)
  BY <1>1 DEF Insert, CommitInsert, AbortInsert, GrowStale
<1>2. ASSUME NEW w \in Workers, ClaimLock(w) \/ PollEmpty(w) \/ Wake(w) \/ RunOk(w)
                \/ RunRaises(w) \/ FinishRaises(w) \/ Exit(w)
      PROVE  Claimed(j)' <=> Claimed(j)
  BY <1>2 DEF ClaimLock, PollEmpty, Wake, RunOk, RunRaises, FinishRaises, Exit, rowVars
<1>3. ASSUME NEW w \in Workers, Finish(w) \/ Fail(w)
      PROVE  Claimed(j)' <=> Claimed(j)
  BY <1>3 DEF Finish, Fail
<1> QED
  BY <1>1, <1>2, <1>3 DEF Next, WorkerStep, Crash, StatementRaises, FailOnAborted

(* A claim is committed on a pending row, and a reclaim puts back a running  *)
(* one: both counts and the state of the row move together.                  *)
LEMMA RunsFollowStep ==
  ASSUME IInv, RunsType, RunsFollowReclaims, [RunsNext]_<<vars, runVars>>
  PROVE  RunsFollowReclaims'
<1> USE DEF RunsFollowReclaims
<1>1. ASSUME NEW w \in Workers, CountedStart(w) PROVE RunsFollowReclaims'
  BY <1>1 DEF CountedStart, Start, StaleRows, Terminal, IInv, TypeOK, RunsType
<1>2. ASSUME NEW w \in Workers, CountedClaim(w) PROVE RunsFollowReclaims'
  <2>1. job[w] \in Jobs /\ status[job[w]] = "pending"
    BY <1>2, PcValues DEF CountedClaim, ClaimCommit, IInv, TypeOK, ClaimIsExclusive
  <2> QED
    BY <1>2, <2>1 DEF CountedClaim, ClaimCommit, Terminal, IInv, TypeOK, RunsType
<1>3. CASE Uncounted
  BY <1>3, ClaimedStays DEF Uncounted, Claimed, runVars
<1>4. CASE UNCHANGED <<vars, runVars>>
  BY <1>4 DEF vars, rowVars, runVars
<1> QED
  BY <1>1, <1>2, <1>3, <1>4 DEF RunsNext

(* The counters start at zero, and so no row has been claimed.               *)
LEMMA RunsFollowInit == RunsInit => RunsType /\ RunsFollowReclaims
  BY DEF RunsInit, Init, RunsType, RunsFollowReclaims, Terminal

(* The invariant of the queue, and the exact count, along every behaviour of *)
(* the counted queue.                                                        *)
LEMMA RunsHold == RunsSpec => [](IInv /\ RunsType /\ RunsFollowReclaims)
  BY RunsOnlyWatch, IInvHolds, RunsFollowInit, RunsTypeStep, RunsFollowStep, PTL
  DEF RunsSpec

(* At-least-once, exactly: a scan is run once more for every time            *)
(* reclaim_stale put it back, and never for any other reason.                *)
THEOREM RunsAreReclaims == RunsSpec => []RunsFollowReclaims
  BY RunsHold, PTL

(* How much a run can cost.  Every start of a worker is paid for: by the     *)
(* worker, which was never up before, or by a counted failure.               *)
LEMMA StartsSoFarInit ==
  ASSUME IsFiniteSet(Workers), RunsInit
  PROVE  StartsSoFar
<1>1. Down = Workers /\ Doomed = {}
  BY DEF RunsInit, Init, Down, Doomed
<1>2. Cardinality(Workers) \in Nat /\ Cardinality({}) = 0
  BY FS_CardinalityType, FS_EmptySet
<1> QED
  BY <1>1, <1>2 DEF RunsInit, Init, StartsSoFar

(* Sets of workers are finite.                                               *)
LEMMA DownDoomedFinite ==
  ASSUME IsFiniteSet(Workers)
  PROVE  /\ IsFiniteSet(Down) /\ Cardinality(Down) \in Nat
         /\ IsFiniteSet(Doomed) /\ Cardinality(Doomed) \in Nat
<1>1. Down \subseteq Workers /\ Doomed \subseteq Workers
  BY DEF Down, Doomed
<1> QED
  BY <1>1, FS_Subset, FS_CardinalityType

(* One worker more is down after a death, and it is doomed no longer.        *)
LEMMA ExitDown ==
  ASSUME TypeOK, NEW w \in Workers, Exit(w), pc[w] # "down"
  PROVE  w \notin Down /\ Down' = Down \cup {w}
  BY PcValues DEF TypeOK, Exit, Down

(* A start is paid for by the worker that comes up, a death by the kill, the *)
(* refused statement or the refused finish behind it.                        *)
LEMMA StartsSoFarStep ==
  ASSUME IsFiniteSet(Workers), TypeOK, TypeOK', RunsType, RunsType', StartsSoFar,
         [RunsNext]_<<vars, runVars>>
  PROVE  StartsSoFar'
<1>0. /\ Cardinality(Down) \in Nat /\ Cardinality(Doomed) \in Nat
      /\ IsFiniteSet(Down) /\ IsFiniteSet(Doomed)
      /\ Cardinality(Workers) \in Nat /\ crashes \in Nat /\ dbErrors \in Nat
      /\ starts \in Nat /\ starts' \in Nat /\ crashes' \in Nat /\ dbErrors' \in Nat
  BY DownDoomedFinite, FS_CardinalityType DEF TypeOK, RunsType
<1>1. ASSUME NEW w \in Workers, CountedStart(w) PROVE StartsSoFar'
  <2>1. w \in Down /\ Down' = Down \ {w} /\ Doomed' = Doomed /\ UNCHANGED faultVars
    BY <1>1, PcValues DEF CountedStart, Start, Down, Doomed, TypeOK
  <2>2. Cardinality(Down') = Cardinality(Down) - 1
    BY <1>0, <2>1, FS_RemoveElement
  <2>3. \A j \in Jobs : putBack'[j] <= starts'
    BY <1>1, <1>0 DEF CountedStart, RunsType, StartsSoFar
  <2>4. starts' = starts + 1
    BY <1>1 DEF CountedStart
  <2> QED
    BY <1>0, <2>1, <2>2, <2>3, <2>4 DEF StartsSoFar, faultVars
<1>2. ASSUME UNCHANGED <<starts, putBack, faultVars>>, Down' \subseteq Down,
             Doomed' \subseteq Doomed
      PROVE  StartsSoFar'
  <2>1. /\ Cardinality(Down') <= Cardinality(Down)
        /\ Cardinality(Doomed') <= Cardinality(Doomed)
        /\ IsFiniteSet(Down') /\ IsFiniteSet(Doomed')
    BY <1>0, <1>2, FS_Subset
  <2>2. Cardinality(Down') \in Nat /\ Cardinality(Doomed') \in Nat
    BY <2>1, FS_CardinalityType
  <2> QED
    BY <1>0, <1>2, <2>1, <2>2 DEF StartsSoFar, faultVars
<1>3. ASSUME NEW w \in Workers, CountedClaim(w) PROVE StartsSoFar'
  <2>1. /\ UNCHANGED <<starts, putBack, faultVars>>
        /\ Down' \subseteq Down /\ Doomed' \subseteq Doomed
    BY <1>3, PcValues DEF CountedClaim, ClaimCommit, Down, Doomed, TypeOK
  <2> QED
    BY <1>2, <2>1
<1>4. ASSUME NEW w \in Workers, Crash(w) \/ StatementRaises(w), UNCHANGED runVars
      PROVE  StartsSoFar'
  <2>1. /\ Exit(w) /\ pc[w] # "down"
        /\ crashes' + dbErrors' = crashes + dbErrors + 1
    BY <1>0, <1>4 DEF Crash, StatementRaises
  <2>2. w \notin Down /\ Down' = Down \cup {w} /\ Doomed' = Doomed \ {w}
    BY <2>1, ExitDown, ExitAborted
  <2>3. Cardinality(Down') = Cardinality(Down) + 1
    BY <1>0, <2>2, FS_AddElement
  <2>4. IsFiniteSet(Doomed') /\ Cardinality(Doomed') <= Cardinality(Doomed)
    BY <1>0, <2>2, FS_Subset
  <2>5. Cardinality(Doomed') \in Nat
    BY <2>4, FS_CardinalityType
  <2> QED
    BY <1>0, <1>4, <2>1, <2>3, <2>4, <2>5 DEF StartsSoFar, runVars
<1>5. ASSUME NEW w \in Workers, FailOnAborted(w), UNCHANGED runVars
      PROVE  StartsSoFar'
  <2>1. Exit(w) /\ pc[w] # "down" /\ w \in Doomed /\ UNCHANGED faultVars
    BY <1>5 DEF FailOnAborted, Doomed
  <2>2. w \notin Down /\ Down' = Down \cup {w} /\ Doomed' = Doomed \ {w}
    BY <2>1, ExitDown, ExitAborted
  <2>3. Cardinality(Down') = Cardinality(Down) + 1
    BY <1>0, <2>2, FS_AddElement
  <2>4. Cardinality(Doomed') = Cardinality(Doomed) - 1
    BY <1>0, <2>1, <2>2, FS_RemoveElement
  <2> QED
    BY <1>0, <1>5, <2>1, <2>3, <2>4 DEF StartsSoFar, runVars, faultVars
<1>6. ASSUME NEW w \in Workers, FinishRaises(w), UNCHANGED runVars
      PROVE  StartsSoFar'
  <2>1. w \notin Doomed /\ Doomed' = Doomed \cup {w} /\ Down' = Down
    BY <1>6, PcValues DEF FinishRaises, TypeOK, Doomed, Down
  <2>2. Cardinality(Doomed') = Cardinality(Doomed) + 1
    BY <1>0, <2>1, FS_AddElement
  <2>3. crashes' = crashes /\ dbErrors' = dbErrors + 1
    BY <1>6 DEF FinishRaises
  <2> QED
    BY <1>0, <1>6, <2>1, <2>2, <2>3 DEF StartsSoFar, runVars
<1>7. ASSUME NEW j \in Jobs, UNCHANGED runVars,
             Insert(j) \/ CommitInsert(j) \/ AbortInsert(j) \/ GrowStale(j)
      PROVE  StartsSoFar'
  <2>1. UNCHANGED <<starts, putBack, faultVars>> /\ UNCHANGED pc
    BY <1>7 DEF Insert, CommitInsert, AbortInsert, GrowStale, workerVars, runVars
  <2>2. Down' \subseteq Down /\ Doomed' \subseteq Doomed
    BY <2>1 DEF Down, Doomed
  <2> QED
    BY <1>2, <2>1, <2>2
<1>8. ASSUME NEW w \in Workers, UNCHANGED runVars,
             ClaimLock(w) \/ PollEmpty(w) \/ Wake(w) \/ RunOk(w) \/ RunRaises(w)
               \/ Finish(w) \/ Fail(w)
      PROVE  StartsSoFar'
  <2>1. UNCHANGED <<starts, putBack, faultVars>>
    BY <1>8 DEF ClaimLock, PollEmpty, Wake, RunOk, RunRaises, Finish, Fail, NextRound,
                runVars
  <2>2. Down' \subseteq Down /\ Doomed' \subseteq Doomed
    BY <1>8, PcValues DEF ClaimLock, PollEmpty, Wake, RunOk, RunRaises, Finish, Fail,
       NextRound, TypeOK, Down, Doomed
  <2> QED
    BY <1>2, <2>1, <2>2
<1>9. CASE UNCHANGED <<vars, runVars>>
  <2>1. /\ UNCHANGED <<starts, putBack, faultVars>>
        /\ Down' \subseteq Down /\ Doomed' \subseteq Doomed
    BY <1>9 DEF vars, workerVars, runVars, Down, Doomed
  <2> QED
    BY <1>2, <2>1
<1> QED
  BY <1>1, <1>3, <1>4, <1>5, <1>6, <1>7, <1>8, <1>9
  DEF RunsNext, Uncounted, Next, WorkerStep

(* No scan is retried for ever: it is run once, and once more at most for    *)
(* every worker and every kill or refused statement, however its claims and  *)
(* reclaims interleave and although no attempt is counted in the table.      *)
THEOREM RunsAreLimited ==
  ASSUME IsFiniteSet(Workers)
  PROVE  RunsSpec => []RunsAreBounded
<1>1. RunsInit => StartsSoFar
  BY StartsSoFarInit
<1>2. /\ IInv /\ RunsType /\ (IInv /\ RunsType)' /\ StartsSoFar
      /\ [RunsNext]_<<vars, runVars>>
      => StartsSoFar'
  BY StartsSoFarStep DEF IInv
<1>3. IInv /\ RunsType /\ RunsFollowReclaims /\ StartsSoFar => RunsAreBounded
  <2> SUFFICES ASSUME IInv, RunsType, RunsFollowReclaims, StartsSoFar, NEW j \in Jobs
               PROVE  taken[j] <= 1 + Cardinality(Workers) + crashes + dbErrors
    BY DEF RunsAreBounded
  <2>1. taken[j] <= putBack[j] + 1 /\ putBack[j] <= starts
    BY DEF RunsFollowReclaims, RunsType, StartsSoFar
  <2>2. /\ taken[j] \in Nat /\ putBack[j] \in Nat /\ starts \in Nat
        /\ Cardinality(Down) \in Nat /\ Cardinality(Doomed) \in Nat
        /\ Cardinality(Workers) \in Nat /\ crashes \in Nat /\ dbErrors \in Nat
    BY DownDoomedFinite, FS_CardinalityType DEF RunsType, IInv, TypeOK
  <2>3. starts <= Cardinality(Workers) + crashes + dbErrors
    BY <2>2 DEF StartsSoFar
  <2> QED
    BY <2>1, <2>2, <2>3
<1> QED
  BY <1>1, <1>2, <1>3, RunsHold, PTL DEF RunsSpec
=============================================================================
