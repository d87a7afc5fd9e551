------------------------------ MODULE ScanJobs ------------------------------
(* What the asynchronous scan service promises about a submitted scan, with  *)
(* no database, no transaction and no row lock in sight.                     *)
(*                                                                           *)
(* A scan is submitted, is begun by a worker and is settled once, by a       *)
(* report or by a failure, and only by a worker that holds it.  A scan that  *)
(* was begun may be put back in the queue; whoever was running it goes on    *)
(* running it, so that execution is at-least-once and the outcome is not.    *)
(*                                                                           *)
(* Sources: src/src/palisade/db/tables.py (Scan), api/routes/scans.py        *)
(* (ScanState) and the docstring of worker.py.                               *)

CONSTANTS Jobs,      \* scan ids
          Workers    \* worker processes

VARIABLES phase,     \* phase[j]: how far scan j has come
          runners,   \* runners[j]: the workers that hold a claim on scan j
          outcome    \* outcome[j]: the worker whose report is stored, if any

jobVars == <<phase, runners, outcome>>

Phases == {"unknown", "pending", "running", "done", "error"}

Init ==
  /\ phase = [j \in Jobs |-> "unknown"]
  /\ runners = [j \in Jobs |-> {}]
  /\ outcome = [j \in Jobs |-> {}]

(* POST /scan has been answered: the scan exists.                            *)
Submit(j) ==
  /\ phase[j] = "unknown"
  /\ phase' = [phase EXCEPT ![j] = "pending"]
  /\ UNCHANGED <<runners, outcome>>

(* A worker takes a pending scan.                                            *)
Begin(w, j) ==
  /\ phase[j] = "pending"
  /\ phase' = [phase EXCEPT ![j] = "running"]
  /\ runners' = [runners EXCEPT ![j] = @ \cup {w}]
  /\ UNCHANGED outcome

(* Some running scans go back to the queue; their runners are not told.      *)
Requeue(S) ==
  /\ \A j \in S : phase[j] = "running"
  /\ phase' = [j \in Jobs |-> IF j \in S THEN "pending" ELSE phase[j]]
  /\ UNCHANGED <<runners, outcome>>

(* A worker that holds the scan stores its report.                           *)
Report(w, j) ==
  /\ phase[j] = "running"
  /\ w \in runners[j]
  /\ phase' = [phase EXCEPT ![j] = "done"]
  /\ runners' = [runners EXCEPT ![j] = @ \ {w}]
  /\ outcome' = [outcome EXCEPT ![j] = {w}]

(* A worker that holds the scan stores a failure.                            *)
Fail(w, j) ==
  /\ phase[j] = "running"
  /\ w \in runners[j]
  /\ phase' = [phase EXCEPT ![j] = "error"]
  /\ runners' = [runners EXCEPT ![j] = @ \ {w}]
  /\ UNCHANGED outcome

(* A worker lets go of the scan with no effect on it: it died, or somebody   *)
(* else has put the scan back or settled it meanwhile.                       *)
Leave(w, j) ==
  /\ w \in runners[j]
  /\ runners' = [runners EXCEPT ![j] = @ \ {w}]
  /\ UNCHANGED <<phase, outcome>>

Next ==
  \/ \E j \in Jobs : Submit(j)
  \/ \E S \in SUBSET Jobs : Requeue(S)
  \/ \E w \in Workers, j \in Jobs :
       Begin(w, j) \/ Report(w, j) \/ Fail(w, j) \/ Leave(w, j)

Spec == Init /\ [][Next]_jobVars
=============================================================================
