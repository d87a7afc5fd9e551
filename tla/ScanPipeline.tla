---------------------------- MODULE ScanPipeline ----------------------------
(* A scan from its dependencies to its report: the batch query, the fetches  *)
(* that run side by side, the feeds, matching, and the rank.  Scans run      *)
(* concurrently and share the feed cache, whose module this one extends: its *)
(* variables and steps are FeedCache's, taken once the advisories are there. *)
(*                                                                           *)
(* Sources: src/src/palisade/scanner.py, clients/osv.py,                     *)
(* matching/matcher.py and enrichment/enrich.py.                             *)

EXTENDS FeedCache, Sequences

CONSTANTS
  Keys,        \* packages with a version: Dependency.key
  Lockfile,    \* Lockfile[s]: the dependencies of s, in order
  Vulns,       \* ids of advisories
  Hits,        \* Hits[k]: the ids OSV answers for k
  Affected,    \* Affected[v]: for each package entry, the keys it contains
  Severity,    \* Severity[v]: the weight of the severity bucket
  CVEs,
  Aliases,     \* Aliases[v]: the CVEs among the aliases of v
  Epss,        \* Epss[d][c]: the score of c in hundredths on day d, or None
  Kev,         \* Kev[d]: the CVEs that are listed on day d
  BatchSize    \* how many queries a batch may have

Deps == [key : Keys, direct : BOOLEAN]
Scores == 0 .. 100

ASSUME PipelineAssumption ==
  /\ Lockfile \in [Scans -> Seq(Deps)]
  /\ Hits \in [Keys -> SUBSET Vulns]
  /\ Affected \in [Vulns -> Seq(SUBSET Keys)]
  /\ Severity \in [Vulns -> 0 .. 4]
  /\ Aliases \in [Vulns -> SUBSET CVEs]
  /\ Epss \in [Days -> [CVEs -> Scores \cup {None}]]
  /\ Kev \in [Days -> SUBSET CVEs]
  /\ BatchSize \in Nat \ {0}
  /\ None \notin Scores

VARIABLES
  stage,      \* stage[s]: where the scan is
  asked,      \* asked[s]: how many dependencies were in a batch so far
  ids,        \* ids[s]: the advisories OSV named
  underway,   \* underway[s]: fetches that have not ended
  fetched,    \* fetched[s]: advisories that were had
  dropped,    \* history: dropped[s]: advisories that are withdrawn or malformed
  closed,     \* closed[s]: the scan has closed its client
  report      \* report[s]: its findings

advisoryVars == <<asked, ids, underway, fetched, dropped, closed>>
pipelineVars == <<stage, asked, ids, underway, fetched, dropped, closed, report>>
allVars == <<vars, pipelineVars>>

Stages == {"query", "fetch", "feeds", "reported", "failed"}

PipelineInit ==
  /\ Init
  /\ stage = [s \in Scans |-> "query"]
  /\ asked = [s \in Scans |-> 0]
  /\ ids = [s \in Scans |-> {}]
  /\ underway = [s \in Scans |-> {}]
  /\ fetched = [s \in Scans |-> {}]
  /\ dropped = [s \in Scans |-> {}]
  /\ closed = [s \in Scans |-> FALSE]
  /\ report = [s \in Scans |-> {}]

Goto(s, to) == stage' = [stage EXCEPT ![s] = to]

(* scan()'s finally.                                                         *)
Close(s) == closed' = [closed EXCEPT ![s] = TRUE]

----------------------------------------------------------------------------
(* _fetch_advisories                                                         *)

\* Variant of Batch: the last query of a full batch is cut off.
BatchCutShort(s) ==
  {i \in DOMAIN Lockfile[s] : asked[s] < i /\ i < asked[s] + BatchSize}

(* The dependencies of the next batch.                                       *)
Batch(s) == {i \in DOMAIN Lockfile[s] : asked[s] < i /\ i <= asked[s] + BatchSize}

Asking(s) == stage[s] = "query" /\ asked[s] < Len(Lockfile[s])

(* A batch is answered, query by query.                                      *)
QueryBatch(s) ==
  /\ Asking(s)
  /\ ids' = [ids EXCEPT ![s] = @ \cup UNION {Hits[Lockfile[s][i].key] : i \in Batch(s)}]
  /\ asked' = [asked EXCEPT ![s] = @ + BatchSize]
  /\ UNCHANGED <<vars, stage, underway, fetched, dropped, closed, report>>

(* A request fails for good, or has not one answer for each query.           *)
QueryFails(s) ==
  /\ Asking(s)
  /\ Goto(s, "failed") /\ Close(s)
  /\ UNCHANGED <<vars, asked, ids, underway, fetched, dropped, report>>

(* gather: all fetches start.                                                *)
Gather(s) ==
  /\ stage[s] = "query" /\ ~Asking(s)
  /\ Goto(s, "fetch")
  /\ underway' = [underway EXCEPT ![s] = ids[s]]
  /\ UNCHANGED <<vars, asked, ids, fetched, dropped, closed, report>>

EndFetch(s, v) ==
  /\ v \in underway[s]
  /\ underway' = [underway EXCEPT ![s] = @ \ {v}]

(* _fetch_one returns an advisory, or None for one that is withdrawn or      *)
(* malformed.                                                                *)
Fetched1(s, v) ==
  /\ stage[s] = "fetch" /\ EndFetch(s, v)
  /\ fetched' = [fetched EXCEPT ![s] = @ \cup {v}]
  /\ UNCHANGED <<vars, stage, asked, ids, dropped, closed, report>>

Drop(s, v) ==
  /\ stage[s] = "fetch" /\ EndFetch(s, v)
  /\ dropped' = [dropped EXCEPT ![s] = @ \cup {v}]
  /\ UNCHANGED <<vars, stage, asked, ids, fetched, closed, report>>

(* It raises, and so does gather, at once: the client is closed while the    *)
(* other fetches go on.                                                      *)
FetchRaises(s, v) ==
  /\ stage[s] = "fetch" /\ EndFetch(s, v)
  /\ Goto(s, "failed") /\ Close(s)
  /\ UNCHANGED <<vars, asked, ids, fetched, dropped, report>>

(* A fetch whose scan has failed ends: on the closed client, with an answer  *)
(* nobody wants, or because its event loop ends.                             *)
StrayEnds(s, v) ==
  /\ stage[s] = "failed" /\ EndFetch(s, v)
  /\ UNCHANGED <<vars, stage, asked, ids, fetched, dropped, closed, report>>

(* The scan is cancelled, and gather cancels its fetches.                    *)
CancelFetches(s) ==
  /\ stage[s] \in {"query", "fetch"}
  /\ Goto(s, "failed") /\ Close(s)
  /\ underway' = [underway EXCEPT ![s] = {}]
  /\ UNCHANGED <<vars, asked, ids, fetched, dropped, report>>

\* Variant of GatherDone: some fetch has ended.
GatherDoneEarly(s) == Cardinality(underway[s]) <= 1

GatherDone(s) == underway[s] = {}

(* All advisories are there; the feeds are asked for without the client.     *)
AdvisoriesDone(s) ==
  /\ stage[s] = "fetch" /\ GatherDone(s)
  /\ Goto(s, "feeds") /\ Close(s)
  /\ UNCHANGED <<vars, asked, ids, underway, fetched, dropped, report>>

----------------------------------------------------------------------------
(* match, enrich_findings                                                    *)

Key(s, d) == Lockfile[s][d].key

(* Places where match() finds a dependency d affected by an entry e of an    *)
(* advisory v.                                                               *)
Candidates(s) ==
  {m \in [d : DOMAIN Lockfile[s], v : fetched[s], e : UNION {DOMAIN Affected[w] : w \in Vulns}] :
     m.e \in DOMAIN Affected[m.v] /\ Key(s, m.d) \in Affected[m.v][m.e]}

(* The same package and version was found affected by the same advisory.     *)
Seen(s, m) ==
  \E n \in Candidates(s) :
    /\ Key(s, n.d) = Key(s, m.d) /\ n.v = m.v
    /\ n.d < m.d \/ (n.d = m.d /\ n.e < m.e)

(* The best score of the advisory's CVEs, and whether one of them is listed. *)
ScoresOf(v, d) == {Epss[d][c] : c \in Aliases[v]} \ {None}
EpssOf(v, d) ==
  IF ScoresOf(v, d) = {} THEN 0
  ELSE CHOOSE x \in ScoresOf(v, d) : \A y \in ScoresOf(v, d) : y <= x
KevListed(v, d) == Aliases[v] \cap Kev[d] # {}

\* Variant of Rank: KEV weighs no more than a certain exploit.
RankLowKev(kev, epss, severity, direct) ==
  (IF kev THEN 200 ELSE 0) + 2 * epss + 2 * severity + (IF direct THEN 1 ELSE 0)

(* compute_rank, in halves.                                                  *)
Rank(kev, epss, severity, direct) ==
  (IF kev THEN 2000 ELSE 0) + 2 * epss + 2 * severity + (IF direct THEN 1 ELSE 0)

(* A finding, with what its rank is made of.                                 *)
FindingOf(s, m, feeds) ==
  LET kev == KevListed(m.v, feeds["kev"])
      epss == EpssOf(m.v, feeds["epss"])
      direct == Lockfile[s][m.d].direct
  IN [key |-> Key(s, m.d), id |-> m.v, entry |-> m.e,
      kev |-> kev, epss |-> epss, severity |-> Severity[m.v], direct |-> direct,
      rank |-> Rank(kev, epss, Severity[m.v], direct)]

FindingsOf(s, feeds) ==
  {FindingOf(s, m, feeds) : m \in {n \in Candidates(s) : ~Seen(s, n)}}

(* _cached_feeds, up to its next await; then the report is built at once, or *)
(* its exception ends the scan.                                              *)
AwaitFeeds(s) ==
  /\ stage[s] = "feeds"
  /\ Step(s)
  /\ pc'[s] \notin Ended
  /\ UNCHANGED pipelineVars

BuildReport(s) ==
  /\ stage[s] = "feeds"
  /\ Step(s)
  /\ pc'[s] = "served"
  /\ Goto(s, "reported")
  /\ report' = [report EXCEPT ![s] = FindingsOf(s, got'[s])]
  /\ UNCHANGED advisoryVars

FeedsFail(s) ==
  /\ stage[s] = "feeds"
  /\ Step(s)
  /\ pc'[s] = "raised"
  /\ Goto(s, "failed")
  /\ UNCHANGED <<advisoryVars, report>>

CancelFeeds(s) ==
  /\ stage[s] = "feeds"
  /\ Cancel(s)
  /\ Goto(s, "failed")
  /\ UNCHANGED <<advisoryVars, report>>

PipelineOver ==
  /\ \A s \in Scans : stage[s] \in {"reported", "failed"} /\ underway[s] = {}
  /\ UNCHANGED allVars

(* What the event loop does for a scan, and what may happen to it.           *)
Proceed(s) ==
  \/ QueryBatch(s) \/ QueryFails(s) \/ Gather(s) \/ AdvisoriesDone(s)
  \/ AwaitFeeds(s) \/ BuildReport(s) \/ FeedsFail(s)
  \/ \E v \in Vulns : Fetched1(s, v) \/ Drop(s, v) \/ FetchRaises(s, v) \/ StrayEnds(s, v)

PipelineNext ==
  \/ NextDay /\ UNCHANGED pipelineVars
  \/ \E s \in Scans : Proceed(s) \/ CancelFetches(s) \/ CancelFeeds(s)
  \/ PipelineOver

PipelineSpec == PipelineInit /\ [][PipelineNext]_allVars

(* The event loop runs every ready task, and every request and download      *)
(* ends: its client has a timeout and gives up after some attempts.          *)
PipelineFairSpec == PipelineSpec /\ \A s \in Scans : WF_allVars(Proceed(s))

----------------------------------------------------------------------------

Findings ==
  [key : Keys, id : Vulns, entry : Nat, kev : BOOLEAN, epss : Scores,
   severity : 0 .. 4, direct : BOOLEAN, rank : Nat]

(* The types, and: only a scan that has failed leaves fetches behind on a    *)
(* closed client, and feeds are asked for by scans whose client is closed.   *)
PipelineTypeOK ==
  /\ TypeOK
  /\ stage \in [Scans -> Stages]
  /\ asked \in [Scans -> Nat]
  /\ ids \in [Scans -> SUBSET Vulns]
  /\ underway \in [Scans -> SUBSET Vulns]
  /\ fetched \in [Scans -> SUBSET Vulns]
  /\ dropped \in [Scans -> SUBSET Vulns]
  /\ closed \in [Scans -> BOOLEAN]
  /\ report \in [Scans -> SUBSET Findings]
  /\ \A s \in Scans :
       /\ underway[s] # {} => stage[s] \in {"fetch", "failed"}
       /\ closed[s] <=> stage[s] \in {"feeds", "reported", "failed"}

(* What OSV answers for a lockfile, dependency by dependency, and the        *)
(* packages of it that an advisory affects.                                  *)
Named(s) == UNION {Hits[Lockfile[s][d].key] : d \in DOMAIN Lockfile[s]}
AffectedKeys(s, v) ==
  {Lockfile[s][d].key : d \in DOMAIN Lockfile[s]} \cap
    UNION {Affected[v][e] : e \in DOMAIN Affected[v]}

(* A report is whole or there is none: every advisory that OSV has answered  *)
(* for any dependency, beyond the first batch too, was had, or is withdrawn  *)
(* or malformed; and each affected package is reported once for each,        *)
(* however often the lockfile and the advisory name it.  (A next_page_token  *)
(* is not looked at, clients/osv.py:30: what OSV keeps for another page it   *)
(* has not answered.)                                                        *)
ReportIsComplete ==
  \A s \in Scans : stage[s] = "reported" =>
    /\ fetched[s] \cup dropped[s] = Named(s)
    /\ \A v \in Vulns :
         {f.key : f \in {g \in report[s] : g.id = v}} =
           IF v \in fetched[s] THEN AffectedKeys(s, v) ELSE {}
    /\ \A f, g \in report[s] : f.key = g.key /\ f.id = g.id => f = g

(* f is at least as pressing as g by each of the four signals.               *)
AsPressing(f, g) ==
  /\ g.kev => f.kev
  /\ f.epss >= g.epss /\ f.severity >= g.severity
  /\ g.direct => f.direct

Signals(f) == <<f.kev, f.epss, f.severity, f.direct>>

(* Whatever day each was made, the reports of a process are in one order: an *)
(* advisory has the same signals in all of them, a finding that CISA lists   *)
(* comes before any that it does not, and one that is more pressing by some  *)
(* signal and less by none comes before the other.                           *)
RankedByRisk ==
  \A s, t \in Scans : \A f \in report[s], g \in report[t] :
    /\ f.id = g.id => f.kev = g.kev /\ f.epss = g.epss
    /\ f.kev /\ ~g.kev => f.rank > g.rank
    /\ AsPressing(f, g) /\ Signals(f) # Signals(g) => f.rank > g.rank

(* The place of package k in the lockfile and in the advisory v.             *)
FirstDep(s, k) ==
  CHOOSE d \in DOMAIN Lockfile[s] :
    Key(s, d) = k /\ \A n \in DOMAIN Lockfile[s] : Key(s, n) = k => d <= n
FirstEntry(v, k) ==
  CHOOSE e \in DOMAIN Affected[v] :
    k \in Affected[v][e] /\ \A n \in DOMAIN Affected[v] : k \in Affected[v][n] => e <= n

(* The report on the advisories `had`: a finding for each package that each  *)
(* of them affects, as direct as its first dependency.                       *)
PlaceOf(s, v, k) == [d |-> FirstDep(s, k), v |-> v, e |-> FirstEntry(v, k)]
AnswerTo(s, had, feeds) ==
  UNION {{FindingOf(s, PlaceOf(s, v, k), feeds) : k \in AffectedKeys(s, v)} : v \in had}

StateOf(s) ==
  CASE stage[s] = "reported" -> "answered"
    [] stage[s] = "failed" -> "failed"
    [] stage[s] \notin {"reported", "failed"} -> "pending"

Service == INSTANCE ReportService WITH
  Editions <- [Feeds -> Days],
  Named <- Named,
  Answer <- AnswerTo,
  edition <- IF Warm THEN cache ELSE None,
  state <- [s \in Scans |-> StateOf(s)],
  answer <- report

(* However their batches, fetches and downloads interleave, fail and are     *)
(* cancelled, scans answer as if each were one atomic step, and all by the   *)
(* edition of the feeds that the first of them to answer fixed.              *)
ScansAreAtomic == Service!Spec

(* Every scan comes to its report or fails, though others fail or are        *)
(* cancelled while they have the lock; its client is closed and none of its  *)
(* fetches lives on for good.                                                *)
EveryScanSettles ==
  \A s \in Scans :
    <>(stage[s] \in {"reported", "failed"} /\ underway[s] = {} /\ closed[s])

----------------------------------------------------------------------------
(* What makes these inductive.  What OSV named for the dependencies that     *)
(* were asked about so far is underway, had or dropped; and the report is    *)
(* made of what was had.                                                     *)
NamedSoFar(s) ==
  UNION {Hits[Lockfile[s][d].key] : d \in {i \in DOMAIN Lockfile[s] : i <= asked[s]}}

AdvisoriesSoFar(s) ==
  /\ stage[s] # "failed" => ids[s] = NamedSoFar(s)
  /\ stage[s] = "query" => fetched[s] = {} /\ dropped[s] = {}
  /\ stage[s] \in {"fetch", "feeds", "reported"} =>
       /\ Len(Lockfile[s]) <= asked[s]
       /\ underway[s] \cup fetched[s] \cup dropped[s] = ids[s]

(* The feeds are had when their turn comes, and are those of the report.     *)
FeedsSoFar(s) ==
  /\ stage[s] \in {"query", "fetch"} => pc[s] = "idle"
  /\ stage[s] = "feeds" => pc[s] \notin Ended
  /\ IF stage[s] = "reported"
     THEN pc[s] = "served" /\ report[s] = FindingsOf(s, got[s])
     ELSE report[s] = {}

PipelineIInv ==
  /\ IInv /\ LoadsSoFar
  /\ PipelineTypeOK
  /\ \A s \in Scans : AdvisoriesSoFar(s) /\ FeedsSoFar(s)
=============================================================================
