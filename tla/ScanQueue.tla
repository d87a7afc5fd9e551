----------------------------- MODULE ScanQueue -----------------------------
(* The asynchronous scan queue: the table `scans`, the API handlers that     *)
(* insert and read its rows and the worker processes that consume them.      *)
(*                                                                           *)
(* Sources: src/src/palisade/queue.py, worker.py, api/routes/scans.py and    *)
(* the Scan table of db/tables.py.                                           *)
(*                                                                           *)
(* Every SQL statement is one transaction of its own, so one action stands   *)
(* for one committed statement, except where something can come in between:  *)
(* an INSERT draws created_at from now() before its row is visible, and a    *)
(* claim holds a row lock, which the other workers skip, until it commits.   *)
(* Wall-clock time is kept only as the comparison the code makes with it: a  *)
(* claim is fresh, and at some point becomes older than worker_stale_seconds.*)
(*                                                                           *)
(* owner, requeued, orphans and before are history: no action reads them in  *)
(* a guard.                                                                  *)

EXTENDS Naturals, FiniteSets

CONSTANTS Jobs,         \* scan ids, one for each POST /scan
          Workers,      \* processes running `python -m palisade.worker`
          None,         \* SQL NULL, and the job of a worker that has none
          MaxCrashes,   \* bound: how often a worker process is killed
          MaxDbErrors   \* bound: how often a worker's statement is refused

(* A ScanReport, reduced to the scan it names and the run that computed it.  *)
Reports == [scan_id : Jobs, run_by : Workers]
Failure == "scan failed"

ASSUME NoneAssumption ==
  /\ None \notin Jobs
  /\ None \notin Workers
  /\ None \notin Reports
  /\ None \notin {"fresh", "stale", Failure}

ASSUME BoundsAssumption == MaxCrashes \in Nat /\ MaxDbErrors \in Nat

VARIABLES
  status,      \* scans.status, or "absent" / "inserted" before the commit
  created,     \* scans.created_at, as a rank
  claimedAt,   \* scans.claimed_at: None, "fresh", or "stale"
  result,      \* scans.result
  error,       \* scans.error
  pc,          \* pc[w]: where worker w is in main() and process_once()
  job,         \* job[w]: the ClaimedJob worker w is busy with
  owner,       \* history: the worker that last locked the row to claim it
  requeued,    \* history: the rows reclaim_stale has put back
  orphans,     \* history: the rows whose owner died while running them
  before,      \* history: before[j], the rows visible when j was inserted
  crashes, dbErrors   \* how much of the two budgets is spent

rowVars == <<status, created, claimedAt, result, error>>
workerVars == <<pc, job>>
faultVars == <<crashes, dbErrors>>
vars == <<rowVars, workerVars, owner, requeued, orphans, before, faultVars>>

(* After ClaimedJob is in hand and before process_once returns.              *)
Holding == {"running", "finishing", "failing", "aborted"}
Busy == Holding \cup {"claiming"}
PcStates == Busy \cup {"down", "polling", "sleeping"}
Statuses == {"absent", "inserted", "pending", "running", "done", "error"}
Terminal == {"done", "error"}

Holds(w, j) == job[w] = j /\ pc[w] \in Holding
Committed == {j \in Jobs : status[j] \notin {"absent", "inserted"}}

----------------------------------------------------------------------------
(* POST /scan                                                               *)

Init ==
  /\ status = [j \in Jobs |-> "absent"]
  /\ created = [j \in Jobs |-> 0]
  /\ claimedAt = [j \in Jobs |-> None]
  /\ result = [j \in Jobs |-> None]
  /\ error = [j \in Jobs |-> None]
  /\ pc = [w \in Workers |-> "down"]
  /\ job = [w \in Workers |-> None]
  /\ owner = [j \in Jobs |-> None]
  /\ requeued = {}
  /\ orphans = {}
  /\ before = [j \in Jobs |-> {}]
  /\ crashes = 0
  /\ dbErrors = 0

(* enqueue: the transaction begins, and draws created_at, before the row can *)
(* be seen.  Two inserts may draw the same microsecond.                      *)
Insert(j) ==
  /\ status[j] = "absent"
  /\ \E t \in 0 .. Cardinality(Jobs) :
       /\ \A k \in Jobs : created[k] <= t
       /\ \E k \in Jobs : t <= created[k] + 1
       /\ created' = [created EXCEPT ![j] = t]
  /\ status' = [status EXCEPT ![j] = "inserted"]
  /\ before' = [before EXCEPT ![j] = Committed]
  /\ UNCHANGED <<claimedAt, result, error, workerVars, owner, requeued, orphans,
                 faultVars>>

(* enqueue commits and the handler answers 202 with status "pending".        *)
CommitInsert(j) ==
  /\ status[j] = "inserted"
  /\ status' = [status EXCEPT ![j] = "pending"]
  /\ UNCHANGED <<created, claimedAt, result, error, workerVars, owner, requeued,
                 orphans, before, faultVars>>

(* The request dies before its commit: no row, and no id for the client.     *)
AbortInsert(j) ==
  /\ status[j] = "inserted"
  /\ status' = [status EXCEPT ![j] = "absent"]
  /\ created' = [created EXCEPT ![j] = 0]
  /\ before' = [before EXCEPT ![j] = {}]
  /\ UNCHANGED <<claimedAt, result, error, workerVars, owner, requeued, orphans,
                 faultVars>>

(* GET /scans/{id}: what read_scan answers about id j.                       *)
ReadScan(j) ==
  CASE j \notin Committed -> [kind |-> "not_found"]
    [] status[j] = "done" /\ result[j] # None -> [kind |-> "report", body |-> result[j]]
    [] OTHER -> [kind |-> "status", status |-> status[j], error |-> error[j]]

----------------------------------------------------------------------------
(* main(): start, and one pass of the loop                                  *)

(* The rows _RECLAIM selects: claimed_at < now() - stale.                    *)
StaleRows == {j \in Jobs : status[j] = "running" /\ claimedAt[j] = "stale"}

\* Variant of Start: claimed_at is not reset.
ReclaimKeepsClaimTime(w) ==
  /\ pc[w] = "down"
  /\ status' = [j \in Jobs |-> IF j \in StaleRows THEN "pending" ELSE status[j]]
  /\ requeued' = requeued \cup StaleRows
  /\ pc' = [pc EXCEPT ![w] = "polling"]
  /\ UNCHANGED <<created, claimedAt, result, error, job, owner, orphans, before, faultVars>>

(* A worker process comes up: reclaim_stale on the whole table, once, and    *)
(* then the polling loop.                                                    *)
Start(w) ==
  /\ pc[w] = "down"
  /\ status' = [j \in Jobs |-> IF j \in StaleRows THEN "pending" ELSE status[j]]
  /\ claimedAt' = [j \in Jobs |-> IF j \in StaleRows THEN None ELSE claimedAt[j]]
  /\ requeued' = requeued \cup StaleRows
  /\ pc' = [pc EXCEPT ![w] = "polling"]
  /\ UNCHANGED <<created, result, error, job, owner, orphans, before, faultVars>>

(* The pending rows that no other claim has locked: FOR UPDATE SKIP LOCKED.  *)
Pending == {j \in Jobs : status[j] = "pending"}
Claimable == {j \in Pending : \A v \in Workers : ~(pc[v] = "claiming" /\ job[v] = j)}

\* Variant of Oldest: no ORDER BY.
NotOrdered == Claimable

(* ORDER BY created_at LIMIT 1: rows with equal times come in any order.     *)
Oldest == {j \in Claimable : \A k \in Claimable : created[j] <= created[k]}

(* claim_one has executed _CLAIM and not committed it.                       *)
ClaimLock(w) ==
  /\ pc[w] = "polling"
  /\ \E j \in Oldest :
       /\ job' = [job EXCEPT ![w] = j]
       /\ owner' = [owner EXCEPT ![j] = w]
       /\ orphans' = orphans \ {j}
  /\ pc' = [pc EXCEPT ![w] = "claiming"]
  /\ UNCHANGED <<rowVars, requeued, before, faultVars>>

\* Variant of ClaimCommit: the row is selected and not updated.
ClaimCommitSelectOnly(w) ==
  /\ pc[w] = "claiming"
  /\ pc' = [pc EXCEPT ![w] = "running"]
  /\ UNCHANGED <<rowVars, job, owner, requeued, orphans, before, faultVars>>

(* claim_one commits: the row is running and stamped, the job is in hand.    *)
ClaimCommit(w) ==
  /\ pc[w] = "claiming"
  /\ status' = [status EXCEPT ![job[w]] = "running"]
  /\ claimedAt' = [claimedAt EXCEPT ![job[w]] = "fresh"]
  /\ pc' = [pc EXCEPT ![w] = "running"]
  /\ UNCHANGED <<created, result, error, job, owner, requeued, orphans, before, faultVars>>

(* claim_one finds nothing: process_once returns False and main sleeps.      *)
PollEmpty(w) ==
  /\ pc[w] = "polling"
  /\ Claimable = {}
  /\ pc' = [pc EXCEPT ![w] = "sleeping"]
  /\ UNCHANGED <<rowVars, job, owner, requeued, orphans, before, faultVars>>

\* Variant of Wake: the loop ends with the first empty poll.
LoopEndsWhenEmpty(w) == pc[w] = "sleeping" /\ UNCHANGED vars

(* time.sleep(worker_poll_interval) is over.                                 *)
Wake(w) ==
  /\ pc[w] = "sleeping"
  /\ pc' = [pc EXCEPT ![w] = "polling"]
  /\ UNCHANGED <<rowVars, job, owner, requeued, orphans, before, faultVars>>

----------------------------------------------------------------------------
(* process_once() with a job in hand                                        *)

(* _run_job returns a report, whatever engine ran.                           *)
RunOk(w) ==
  /\ pc[w] = "running"
  /\ pc' = [pc EXCEPT ![w] = "finishing"]
  /\ UNCHANGED <<rowVars, job, owner, requeued, orphans, before, faultVars>>

\* Variant of RunRaises: the exception is swallowed, fail is not called.
RunRaisesUncaught(w) ==
  /\ pc[w] = "running"
  /\ pc' = [pc EXCEPT ![w] = "polling"]
  /\ job' = [job EXCEPT ![w] = None]
  /\ UNCHANGED <<rowVars, owner, requeued, orphans, before, faultVars>>

(* _run_job raises (parse error, HTTP error, ...) and process_once catches.  *)
RunRaises(w) ==
  /\ pc[w] = "running"
  /\ pc' = [pc EXCEPT ![w] = "failing"]
  /\ UNCHANGED <<rowVars, job, owner, requeued, orphans, before, faultVars>>

(* process_once returns True and main goes round again.                      *)
NextRound(w) ==
  /\ pc' = [pc EXCEPT ![w] = "polling"]
  /\ job' = [job EXCEPT ![w] = None]
  /\ UNCHANGED <<created, claimedAt, owner, requeued, orphans, before, faultVars>>

\* Variant of ReportOf: the report keeps the id it was built with.
ReportOwnId(w) == [scan_id |-> None, run_by |-> w]

(* report.scan_id = job.id                                                   *)
ReportOf(w) == [scan_id |-> job[w], run_by |-> w]

\* Variant of Finish: no status = 'running' in the WHERE clause.
FinishUnguarded(w) ==
  /\ pc[w] = "finishing"
  /\ status' = [status EXCEPT ![job[w]] = "done"]
  /\ result' = [result EXCEPT ![job[w]] = ReportOf(w)]
  /\ UNCHANGED error
  /\ NextRound(w)

(* finish: UPDATE ... WHERE id = scan_id AND status = 'running'.             *)
Finish(w) ==
  /\ pc[w] = "finishing"
  /\ \/ /\ status[job[w]] = "running"
        /\ status' = [status EXCEPT ![job[w]] = "done"]
        /\ result' = [result EXCEPT ![job[w]] = ReportOf(w)]
     \/ /\ status[job[w]] # "running"
        /\ UNCHANGED <<status, result>>
  /\ UNCHANGED error
  /\ NextRound(w)

\* Variant of Fail: no status = 'running' in the WHERE clause.
FailUnguarded(w) ==
  /\ pc[w] = "failing"
  /\ status' = [status EXCEPT ![job[w]] = "error"]
  /\ error' = [error EXCEPT ![job[w]] = Failure]
  /\ UNCHANGED result
  /\ NextRound(w)

(* fail: the same guard, on a session whose transaction is sound.            *)
Fail(w) ==
  /\ pc[w] = "failing"
  /\ \/ /\ status[job[w]] = "running"
        /\ status' = [status EXCEPT ![job[w]] = "error"]
        /\ error' = [error EXCEPT ![job[w]] = Failure]
     \/ /\ status[job[w]] # "running"
        /\ UNCHANGED <<status, error>>
  /\ UNCHANGED result
  /\ NextRound(w)

----------------------------------------------------------------------------
(* Failures and the passage of time                                         *)

(* The process is gone; its connection closes and an open claim rolls back.  *)
Exit(w) ==
  /\ pc' = [pc EXCEPT ![w] = "down"]
  /\ job' = [job EXCEPT ![w] = None]
  /\ orphans' = orphans \cup {j \in Jobs : Holds(w, j) /\ owner[j] = w}
  /\ UNCHANGED <<rowVars, owner, requeued, before>>

(* The process is killed.                                                    *)
Crash(w) ==
  /\ pc[w] # "down"
  /\ crashes < MaxCrashes
  /\ crashes' = crashes + 1
  /\ Exit(w)
  /\ UNCHANGED dbErrors

(* A statement raises where process_once has no handler: claim_one is        *)
(* outside its try, and fail is inside its except.  main has none either.    *)
StatementRaises(w) ==
  /\ pc[w] \in {"polling", "claiming", "failing"}
  /\ dbErrors < MaxDbErrors
  /\ dbErrors' = dbErrors + 1
  /\ Exit(w)
  /\ UNCHANGED crashes

(* finish raises: process_once catches it with the transaction aborted.      *)
FinishRaises(w) ==
  /\ pc[w] = "finishing"
  /\ dbErrors < MaxDbErrors
  /\ dbErrors' = dbErrors + 1
  /\ pc' = [pc EXCEPT ![w] = "aborted"]
  /\ UNCHANGED <<rowVars, job, owner, requeued, orphans, before, crashes>>

(* fail on the aborted transaction of the same session raises in its turn.   *)
FailOnAborted(w) ==
  /\ pc[w] = "aborted"
  /\ Exit(w)
  /\ UNCHANGED faultVars

(* The claim on a running row becomes older than worker_stale_seconds.  No   *)
(* worker renews a claim, so this may happen to a row that is being run.     *)
GrowStale(j) ==
  /\ status[j] = "running"
  /\ claimedAt[j] = "fresh"
  /\ claimedAt' = [claimedAt EXCEPT ![j] = "stale"]
  /\ UNCHANGED <<status, created, result, error, workerVars, owner, requeued, orphans,
                 before, faultVars>>

----------------------------------------------------------------------------

(* The steps a live worker process takes by itself.                          *)
WorkerStep(w) ==
  \/ ClaimLock(w) \/ ClaimCommit(w) \/ PollEmpty(w) \/ Wake(w)
  \/ RunOk(w) \/ RunRaises(w) \/ Finish(w) \/ Fail(w) \/ FailOnAborted(w)

Next ==
  \/ \E j \in Jobs : Insert(j) \/ CommitInsert(j) \/ AbortInsert(j) \/ GrowStale(j)
  \/ \E w \in Workers :
       Start(w) \/ WorkerStep(w) \/ Crash(w) \/ StatementRaises(w) \/ FinishRaises(w)

Spec == Init /\ [][Next]_vars

(* A total outage is ended: with every worker down, somebody starts one.     *)
EndOutage == (\A w \in Workers : pc[w] = "down") /\ \E w \in Workers : Start(w)

(* A worker that is up keeps taking steps (every HTTP call has a timeout and *)
(* at most four attempts, so _run_job ends), time passes, outages end.       *)
Fairness ==
  /\ \A w \in Workers : WF_vars(WorkerStep(w))
  /\ \A j \in Jobs : WF_vars(GrowStale(j))
  /\ WF_vars(EndOutage)

FairSpec == Spec /\ Fairness

----------------------------------------------------------------------------
(* Invariants                                                               *)

(* The columns and program counters have the values the code gives them, and *)
(* a worker has a job exactly while it is busy with one.                     *)
TypeOK ==
  /\ status \in [Jobs -> Statuses]
  /\ created \in [Jobs -> Nat]
  /\ claimedAt \in [Jobs -> {None, "fresh", "stale"}]
  /\ result \in [Jobs -> Reports \cup {None}]
  /\ error \in [Jobs -> {None, Failure}]
  /\ pc \in [Workers -> PcStates]
  /\ job \in [Workers -> Jobs \cup {None}]
  /\ \A w \in Workers : job[w] \in Jobs <=> pc[w] \in Busy
  /\ owner \in [Jobs -> Workers \cup {None}]
  /\ requeued \subseteq Jobs
  /\ orphans \subseteq Jobs
  /\ before \in [Jobs -> SUBSET Jobs]
  /\ crashes \in Nat /\ dbErrors \in Nat

(* The columns of a row agree, however claims, reclaims and late writes are  *)
(* interleaved: a report exactly in a done row, and a report of that scan;   *)
(* an error text exactly in an error row; a claim time exactly in a row that *)
(* is or was running, so that _RECLAIM can never miss a running row.         *)
RowConsistent ==
  \A j \in Jobs :
    /\ status[j] = "done" <=> result[j] # None
    /\ result[j] # None => result[j].scan_id = j
    /\ status[j] = "error" <=> error[j] # None
    /\ claimedAt[j] # None <=> status[j] \in {"running"} \cup Terminal

(* FOR UPDATE SKIP LOCKED: two claims in flight never have the same row, and *)
(* a row stays pending under a claim in flight.                              *)
ClaimIsExclusive ==
  \A w \in Workers :
    pc[w] = "claiming" =>
      /\ status[job[w]] = "pending"
      /\ \A v \in Workers \ {w} : pc[v] = "claiming" => job[v] # job[w]

(* A row that reclaim_stale has never put back is held by one worker only,  *)
(* the last that claimed it: scans run twice because of reclaim alone.       *)
SoleRunnerUnlessReclaimed ==
  \A j \in Jobs \ requeued : \A w \in Workers : Holds(w, j) => owner[j] = w

(* No path through process_once loses a job: a running row has its last      *)
(* claimer at work on it, or that claimer died holding it.                   *)
RunningIsHeldOrOrphaned ==
  \A j \in Jobs :
    status[j] = "running" => j \in orphans \/ \E w \in Workers : owner[j] = w /\ Holds(w, j)

(* FIFO as far as the code gives it: a scan that was visible before another  *)
(* one was even inserted, and is strictly older, has had its turn when that  *)
(* other one is claimed -- with any number of workers, requeues and crashes. *)
NoOvertaking ==
  \A j \in Jobs : owner[j] # None =>
    \A k \in before[j] : created[k] < created[j] => owner[k] # None

----------------------------------------------------------------------------
(* What makes these invariants inductive                                    *)

(* A row nobody can see has no claimer, a row that left "pending" has one,   *)
(* and a job in a worker's hands is a row everybody can see.                 *)
ClaimersOfRows ==
  /\ \A j \in Jobs : j \notin Committed => owner[j] = None
  /\ \A j \in Jobs : status[j] \in {"running"} \cup Terminal => owner[j] # None
  /\ \A w \in Workers : job[w] # None => job[w] \in Committed

(* A lock in flight belongs to the row's last claimer, and a pending row     *)
(* that was never put back is in no worker's hands.                          *)
PendingIsFree ==
  /\ \A w \in Workers : pc[w] = "claiming" => owner[job[w]] = w
  /\ \A j \in Jobs \ requeued : \A w \in Workers :
       status[j] = "pending" => ~Holds(w, j)

(* What an insert saw stays visible: no row is ever deleted.                 *)
SeenStaysVisible == \A j \in Jobs : before[j] \subseteq Committed

IInv ==
  /\ TypeOK
  /\ RowConsistent
  /\ ClaimIsExclusive
  /\ SoleRunnerUnlessReclaimed
  /\ RunningIsHeldOrOrphaned
  /\ NoOvertaking
  /\ ClaimersOfRows
  /\ PendingIsFree
  /\ SeenStaysVisible

----------------------------------------------------------------------------
(* Action properties and the abstract specification                         *)

(* Once GET /scans/{id} has answered with a report or an error, it gives the *)
(* same answer for ever, whichever other workers are still at that scan.     *)
AnswerIsFinal ==
  [][\A j \in Jobs : status[j] \in Terminal => ReadScan(j)' = ReadScan(j)]_vars

PhaseOf(j) == IF j \in Committed THEN status[j] ELSE "unknown"
RunnersOf(j) == {w \in Workers : Holds(w, j)}
OutcomeOf(j) == IF result[j] = None THEN {} ELSE {result[j].run_by}

Abstract == INSTANCE ScanJobs WITH
  phase <- [j \in Jobs |-> PhaseOf(j)],
  runners <- [j \in Jobs |-> RunnersOf(j)],
  outcome <- [j \in Jobs |-> OutcomeOf(j)]

(* The queue implements the abstract life cycle of ScanJobs: a scan is       *)
(* settled once, from "running", by a worker that holds a claim on it.       *)
JobLifecycle == Abstract!Spec

----------------------------------------------------------------------------
(* Liveness, under FairSpec                                                 *)

(* A pending scan is claimed sooner or later, although workers may die.      *)
PendingIsClaimed == \A j \in Jobs : status[j] = "pending" ~> status[j] # "pending"

(* An accepted scan is settled, or is running for ever with its claimer      *)
(* dead; nothing else can keep a client polling.                             *)
SettledOrOrphaned ==
  \A j \in Jobs : j \in Committed ~> (status[j] \in Terminal \/ j \in orphans)

----------------------------------------------------------------------------
(* What comments say of the code, and the code does not do                  *)

(* queue.py:73: the guard makes finish and fail no-ops if the row was        *)
(* re-claimed by another worker meanwhile.                                   *)
StaleWriteIsNoOp ==
  [][\A w \in Workers, j \in Jobs :
       /\ pc[w] \in {"finishing", "failing"}
       /\ pc'[w] = "polling"
       /\ job[w] = j
       /\ owner[j] # w
       => ReadScan(j)' = ReadScan(j)]_vars

(* queue.py:44: a row stuck in 'running' because its worker died mid-job is  *)
(* returned to 'pending'.                                                    *)
OrphanIsRecovered == \A j \in Jobs : j \in orphans ~> j \notin orphans

(* worker.py:7 and :49: a poisoned job is recorded as an error and never     *)
(* kills the loop -- short of a kill or of a further refused statement.      *)
JobNeverKillsLoop ==
  [][\A w \in Workers :
       pc[w] \in Holding /\ UNCHANGED faultVars => pc'[w] # "down"]_vars
=============================================================================
