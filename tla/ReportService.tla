--------------------------- MODULE ReportService ---------------------------
(* What POST /scan/sync promises a process's clients, with no batches, no    *)
(* fetches, no feed cache and no lock in sight.                              *)
(*                                                                           *)
(* A scan is one atomic step.  It answers with the whole report on the       *)
(* advisories that it had, made with one edition of the feeds, or it fails.  *)
(* The first scan that answers fixes the edition for all the others.         *)
(*                                                                           *)
(* Sources: src/src/palisade/scanner.py (scan, _cached_feeds) and            *)
(* matching/matcher.py (match), by their docstrings and signatures.          *)

CONSTANTS Scans,          \* calls of scan()
          None,           \* no edition yet
          Editions,       \* pairs of an EPSS and a KEV feed
          Named(_),       \* Named(s): the advisories OSV answers for the lockfile
          Answer(_, _, _) \* Answer(s, had, e): the report on `had`, with e

VARIABLES edition,        \* the pair of feeds the process ranks by
          state,          \* state[s]: "pending", "answered" or "failed"
          answer          \* answer[s]: the findings of s

serviceVars == <<edition, state, answer>>

Init ==
  /\ edition = None
  /\ state = [s \in Scans |-> "pending"]
  /\ answer = [s \in Scans |-> {}]

(* A scan answers.  Withdrawn and malformed advisories are left out.         *)
Report(s) ==
  /\ state[s] = "pending"
  /\ state' = [state EXCEPT ![s] = "answered"]
  /\ edition' \in IF edition = None THEN Editions ELSE {edition}
  /\ \E had \in SUBSET Named(s) : answer' = [answer EXCEPT ![s] = Answer(s, had, edition')]

(* A scan raises, or is cancelled.                                           *)
Fail(s) ==
  /\ state[s] = "pending"
  /\ state' = [state EXCEPT ![s] = "failed"]
  /\ UNCHANGED <<edition, answer>>

Next == \E s \in Scans : Report(s) \/ Fail(s)

Spec == Init /\ [][Next]_serviceVars
=============================================================================
