----------------------------- MODULE AgentGraph -----------------------------
(* One run of the agent graph over a lockfile:                               *)
(*                                                                           *)
(*   ingest -> triage -> impact -> remediate -> verify -> report             *)
(*                          ^                     |                          *)
(*                          +------- retry -------+                          *)
(*                                                                           *)
(* Sources: src/src/palisade/agents/graph.py, with what it calls in          *)
(* agents/nodes.py and agents/llm.py.                                        *)
(*                                                                           *)
(* A node is one action, a superstep of LangGraph, except remediate: its     *)
(* drafts run concurrently under asyncio.gather, so that each of them is an  *)
(* action.  Findings are objects shared by the lists of the graph's state    *)
(* and mutated in place; cites and ranked belong to the object, not to a     *)
(* list.  `verified` and `rejected` are lists that nodes append to: they are *)
(* bags here, since the order of a list shows only in the report's sort.     *)
(* `candidates` has no duplicates (match() drops them), nor has `impacted`.  *)
(*                                                                           *)
(* The verifier's range check repeats, on the same advisory, the test that   *)
(* match() made, so it is true of every candidate; what can fail is the      *)
(* check of citations and, before impact has run, that of the rank.          *)

EXTENDS Naturals

CONSTANTS Findings,     \* the (dependency, advisory) pairs of a lockfile
          MaxRetries    \* GraphDeps.max_retries

ASSUME MaxRetriesAssumption == MaxRetries \in Nat

VARIABLES
  drafter,      \* is an LLM drafter configured?
  node,         \* the node that runs next, or how the run ended
  candidates,   \* what triage matched
  impacted,     \* the findings of this pass
  todo,         \* in remediate: the findings whose task is not done
  cites,        \* cites[f]: where the citations of f's remediation come from
  ranked,       \* the findings whose rank_score is that of their signals
  retry,        \* retry_counts, 0 for a missing key
  verified,     \* verified[f]: how often f is in the list of that name
  rejected,     \* likewise
  steps,        \* supersteps taken
  billed,       \* history: the LLM calls paid for f
  fabricated    \* history: the drafts kept for f that cite a foreign source

findingVars == <<cites, ranked, billed, fabricated>>
listVars == <<candidates, impacted, retry, verified, rejected>>
vars == <<drafter, node, todo, steps, findingVars, listVars>>

Nodes == {"feeds", "ingest", "triage", "impact", "remediate", "verify", "report"}
Ended == {"done", "failed"}
Sources == {"none", "references", "foreign"}

Zero == [f \in Findings |-> 0]

(* run_graph: make_drafter gives a drafter exactly if there is an API key.   *)
Init ==
  /\ drafter \in BOOLEAN
  /\ node = "feeds"
  /\ candidates = {} /\ impacted = {} /\ todo = {} /\ ranked = {}
  /\ cites = [f \in Findings |-> "none"]
  /\ retry = Zero /\ verified = Zero /\ rejected = Zero
  /\ billed = Zero /\ fabricated = Zero
  /\ steps = 0

(* Control passes from one node to the next.                                 *)
Goto(from, to) ==
  /\ node = from
  /\ node' = to
  /\ steps' = steps + 1
  /\ UNCHANGED drafter

(* _cached_feeds has answered, and the graph is built and invoked.           *)
LoadFeeds ==
  /\ node = "feeds"
  /\ node' = "ingest"
  /\ UNCHANGED <<drafter, todo, steps, findingVars, listVars>>

(* An exception leaves run_graph: a feed download fails, the lockfile does   *)
(* not parse, an advisory cannot be fetched.  No other node lets one out.    *)
Raise ==
  /\ node \in {"feeds", "ingest", "triage"}
  /\ node' = "failed"
  /\ UNCHANGED <<drafter, todo, steps, findingVars, listVars>>

Ingest ==
  /\ Goto("ingest", "triage")
  /\ retry' = Zero /\ verified' = Zero /\ rejected' = Zero
  /\ UNCHANGED <<candidates, impacted, todo, findingVars>>

(* match() finds some candidates, and impact is to see all of them.          *)
Triage ==
  /\ Goto("triage", "impact")
  /\ candidates' \in SUBSET Findings
  /\ impacted' = candidates'
  /\ UNCHANGED <<retry, verified, rejected, todo, findingVars>>

\* Variant of Impact: every candidate is gone over again in each pass.
ImpactEveryCandidate ==
  /\ Goto("impact", "remediate")
  /\ ranked' = ranked \cup candidates
  /\ impacted' = candidates
  /\ todo' = candidates
  /\ UNCHANGED <<candidates, retry, verified, rejected, cites, billed, fabricated>>

(* impact: enrich_findings sets the signals and the rank from them.  Then    *)
(* remediate starts one task for each finding.                               *)
Impact ==
  /\ Goto("impact", "remediate")
  /\ ranked' = ranked \cup impacted
  /\ todo' = impacted
  /\ UNCHANGED <<listVars, cites, billed, fabricated>>

----------------------------------------------------------------------------
(* remediate                                                                *)

(* The task of f ends with a remediation that cites c, after b paid calls.   *)
Remediated(f, c, b) ==
  /\ node = "remediate"
  /\ f \in todo
  /\ todo' = todo \ {f}
  /\ cites' = [cites EXCEPT ![f] = c]
  /\ billed' = [billed EXCEPT ![f] = @ + b]
  /\ fabricated' = [fabricated EXCEPT ![f] = IF c = "foreign" THEN @ + 1 ELSE @]
  /\ UNCHANGED <<drafter, node, steps, ranked, listVars>>

(* build_remediation, whose citations are the advisory's references: with no *)
(* drafter, or because the call raised before anything was billed.           *)
Deterministic(f) == Remediated(f, "references", 0)

\* Variant of DiscardDraft: the model is asked a second time before giving up.
DiscardSecondDraft(f) == drafter /\ Remediated(f, "references", 2)

(* The call was billed and brought nothing that can be used: a refusal, or a *)
(* draft that does not name the fix version.                                 *)
DiscardDraft(f) == drafter /\ Remediated(f, "references", 1)

(* The draft is kept, with the citations the model chose.                    *)
KeepDraft(f) ==
  /\ drafter
  /\ \E c \in {"references", "foreign"} : Remediated(f, c, 1)

\* Variant of EndRemediate: the tasks are started and not awaited.
EndRemediateEarly ==
  /\ Goto("remediate", "verify")
  /\ UNCHANGED <<todo, findingVars, listVars>>

(* gather returns when every task has ended.                                 *)
EndRemediate ==
  /\ todo = {}
  /\ Goto("remediate", "verify")
  /\ UNCHANGED <<todo, findingVars, listVars>>

----------------------------------------------------------------------------
(* verify and report                                                        *)

(* verify_finding on a candidate.                                            *)
Passes(f) == cites[f] = "references" /\ f \in ranked

Good == {f \in impacted : Passes(f)}

\* Variant of Retried: one retry too few.
RetriedOnceLess == {f \in impacted \ Good : retry[f] + 1 < MaxRetries}

\* Variant of Retried: one retry too many.
RetriedOnceMore == {f \in impacted \ Good : retry[f] <= MaxRetries}

(* The failing findings that are bounced back to impact.                     *)
Retried == {f \in impacted \ Good : retry[f] < MaxRetries}

Append(list, S) == [f \in Findings |-> IF f \in S THEN list[f] + 1 ELSE list[f]]

\* Variant of Verify: the verified list starts empty in each pass.
VerifyStartsAfresh ==
  /\ Goto("verify", IF Retried # {} THEN "impact" ELSE "report")
  /\ verified' = Append(Zero, Good)
  /\ rejected' = Append(rejected, impacted \ (Good \cup Retried))
  /\ retry' = Append(retry, Retried)
  /\ impacted' = Retried
  /\ UNCHANGED <<candidates, todo, findingVars>>

(* One pass over `impacted`, and route_after_verify.                         *)
Verify ==
  /\ Goto("verify", IF Retried # {} THEN "impact" ELSE "report")
  /\ verified' = Append(verified, Good)
  /\ rejected' = Append(rejected, impacted \ (Good \cup Retried))
  /\ retry' = Append(retry, Retried)
  /\ impacted' = Retried
  /\ UNCHANGED <<candidates, todo, findingVars>>

(* report: the verified findings, sorted by rank, and the statistics; then   *)
(* run_graph stamps latency and cost, records the trace and returns.         *)
Report ==
  /\ Goto("report", "done")
  /\ UNCHANGED <<todo, findingVars, listVars>>

(* The run is over.                                                          *)
Over == node \in Ended /\ UNCHANGED vars

Next ==
  \/ LoadFeeds \/ Raise \/ Ingest \/ Triage \/ Impact
  \/ \E f \in Findings : Deterministic(f) \/ DiscardDraft(f) \/ KeepDraft(f)
  \/ EndRemediate \/ Verify \/ Report
  \/ Over

Spec == Init /\ [][Next]_vars

----------------------------------------------------------------------------
(* Invariants                                                               *)

TypeOK ==
  /\ drafter \in BOOLEAN
  /\ node \in Nodes \cup Ended
  /\ candidates \subseteq Findings
  /\ impacted \subseteq candidates
  /\ todo \subseteq impacted
  /\ node = "remediate" \/ todo = {}
  /\ ranked \subseteq Findings
  /\ cites \in [Findings -> Sources]
  /\ retry \in [Findings -> 0 .. MaxRetries]
  /\ verified \in [Findings -> Nat]
  /\ rejected \in [Findings -> Nat]
  /\ billed \in [Findings -> Nat]
  /\ fabricated \in [Findings -> Nat]
  /\ steps \in Nat

(* Whatever the passes did, a candidate is in exactly one of the three lists *)
(* and once: none is lost between passes and none is reported twice, so that *)
(* the report's findings and dropped_by_verifier add up to candidates.       *)
EachFindingOnce ==
  \A f \in Findings :
    verified[f] + rejected[f] + (IF f \in impacted THEN 1 ELSE 0)
      = (IF f \in candidates THEN 1 ELSE 0)

(* Never ship unverified: although findings are mutated in place and others  *)
(* go round again, what is in `verified` would pass the verifier now.        *)
VerifiedStillPasses == \A f \in Findings : verified[f] > 0 => Passes(f)

(* A finding is dropped only because every draft it got, one for each of the *)
(* MaxRetries + 1 passes, cited a foreign source.  A drafter that is absent, *)
(* fails, refuses or misses the fix version never costs a finding.           *)
DroppedOnlyForForeignCitations ==
  \A f \in Findings : rejected[f] > 0 => fabricated[f] = MaxRetries + 1

(* LLM spend is bounded: at most one paid call a finding and pass, none      *)
(* without a drafter.                                                        *)
SpendBounded ==
  \A f \in Findings : billed[f] <= (IF drafter THEN MaxRetries + 1 ELSE 0)

(* The retry loop ends: with max_retries = 1 a run takes at most 9 of the 25 *)
(* supersteps LangGraph allows by default.                                   *)
SuperstepsBounded == steps <= 3 * (MaxRetries + 2)

----------------------------------------------------------------------------
(* What makes these invariants inductive                                    *)

(* A finding that is still going round was foreign-cited in every earlier    *)
(* pass, and has been paid for at most once a pass.                          *)
PassesSoFar ==
  \A f \in impacted :
    IF node \in {"remediate", "verify"} /\ f \notin todo
    THEN /\ cites[f] \in {"references", "foreign"}
         /\ fabricated[f] = retry[f] + (IF cites[f] = "foreign" THEN 1 ELSE 0)
         /\ billed[f] <= retry[f] + 1
    ELSE fabricated[f] = retry[f] /\ billed[f] <= retry[f]

(* Where the superstep counter stands at each node, pass by pass.            *)
StepsOfNode(k) == IF impacted = {} THEN steps = k ELSE \A f \in impacted : steps = k + 3 * retry[f]
StepsSoFar ==
  /\ node = "feeds" => steps = 0
  /\ node = "ingest" => steps = 0
  /\ node = "triage" => steps = 1
  /\ node = "impact" => StepsOfNode(2)
  /\ node = "remediate" => StepsOfNode(3)
  /\ node = "verify" => StepsOfNode(4)
  /\ node = "report" => steps <= 3 * MaxRetries + 5

(* Nothing has happened to a finding before triage; in remediate and verify  *)
(* the findings at hand are ranked; only drafters cite foreign sources.      *)
Bookkeeping ==
  /\ node \in {"feeds", "ingest", "triage"} => candidates = {} /\ retry = Zero
  /\ node \in {"feeds", "ingest", "triage"} => billed = Zero /\ fabricated = Zero
  /\ node \in {"remediate", "verify"} => impacted \subseteq ranked
  /\ node = "report" => impacted = {}

IInv ==
  /\ TypeOK
  /\ EachFindingOnce
  /\ VerifiedStillPasses
  /\ DroppedOnlyForForeignCitations
  /\ SpendBounded
  /\ SuperstepsBounded
  /\ PassesSoFar
  /\ StepsSoFar
  /\ Bookkeeping
=============================================================================
