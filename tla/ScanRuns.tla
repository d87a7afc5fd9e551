------------------------------ MODULE ScanRuns ------------------------------
(* ScanQueue with three more history variables, which count how often a scan *)
(* is run and what for.  No action of the queue reads them: they watch it.   *)
(*                                                                           *)
(* Sources: those of ScanQueue (queue.py and worker.py of src/src/palisade). *)

EXTENDS ScanQueue

VARIABLES
  taken,     \* taken[j]: claims of j that were committed
  putBack,   \* putBack[j]: how often reclaim_stale returned j to the queue
  starts     \* how often a worker process came up

runVars == <<taken, putBack, starts>>

RunsInit ==
  /\ Init
  /\ taken = [j \in Jobs |-> 0]
  /\ putBack = [j \in Jobs |-> 0]
  /\ starts = 0

CountedStart(w) ==
  /\ Start(w)
  /\ starts' = starts + 1
  /\ putBack' = [j \in Jobs |-> IF j \in StaleRows THEN putBack[j] + 1 ELSE putBack[j]]
  /\ UNCHANGED taken

CountedClaim(w) ==
  /\ ClaimCommit(w)
  /\ taken' = [taken EXCEPT ![job[w]] = @ + 1]
  /\ UNCHANGED <<putBack, starts>>

Uncounted ==
  /\ Next
  /\ \A w \in Workers : ~Start(w) /\ ~ClaimCommit(w)
  /\ UNCHANGED runVars

RunsNext ==
  \/ \E w \in Workers : CountedStart(w) \/ CountedClaim(w)
  \/ Uncounted

RunsSpec == RunsInit /\ [][RunsNext]_<<vars, runVars>>

----------------------------------------------------------------------------

(* At-least-once, exactly: every run of a scan but the first was preceded by *)
(* a reclaim of its own.  No lock, late write or death runs a scan twice.    *)
RunsFollowReclaims ==
  \A j \in Jobs :
    taken[j] = putBack[j] + (IF status[j] \in {"running"} \cup Terminal THEN 1 ELSE 0)

(* A scan is run once, and at most once more for every worker there is and   *)
(* every kill or refused statement: no scan is retried for ever, although    *)
(* the queue keeps no count of attempts.                                     *)
RunsAreBounded ==
  \A j \in Jobs : taken[j] <= 1 + Cardinality(Workers) + crashes + dbErrors

(* What makes this inductive: a worker that comes up was never up before, or *)
(* has been killed by something that was counted.                            *)
Down == {w \in Workers : pc[w] = "down"}
Doomed == {w \in Workers : pc[w] = "aborted"}
StartsSoFar ==
  /\ \A j \in Jobs : putBack[j] <= starts
  /\ starts + Cardinality(Down) + Cardinality(Doomed)
       <= Cardinality(Workers) + crashes + dbErrors
=============================================================================
