# Palisade: a TLA+ model

Palisade scans a lockfile for known vulnerabilities. This directory holds TLA+
models of the parts of it that keep state and run concurrently, the TLC
configurations that check them on small instances, and TLAPS proofs of what
matters most. Paths below are relative to `src/src/palisade/`; comments in
the modules say which file a definition comes from, and `PROJECT.json` ("map")
gives the lines.

    tlc -workers 2 -config ScanQueueSafety.cfg MCScanQueue.tla    # a check
    tlapm ScanQueueProofs.tla                                     # a proof

## 1. The system

```
 client --POST /scan--> API ----INSERT----> scans (PostgreSQL) <--UPDATE-- worker(s)
        --GET /scans/{id}-->  <---SELECT---                                  |
                                                                             v
 GitHub --webhook--> API background task ----------------------> scanner.scan / agents.graph
    ^                     |                                        |        |        |
    +--upsert_comment-----+                                        v        v        v
                                                         feed cache   OSV client   LLM drafter
 OSV export --> ingestion.sync --> advisories (PostgreSQL)            (token bucket, retries)
```

| Component | State | Operations | Talks to |
|---|---|---|---|
| **Scan queue** `queue.py`, `db/tables.py` | table `scans`: status, created_at, claimed_at, finished_at, result, error | enqueue, claim_one, finish, fail, reclaim_stale, get_scan | called by API and workers, each statement a transaction |
| **Scan worker** `worker.py` | one process each: place in the loop, job in hand, DB session | main, process_once, _run_job | queue, scanner or agent graph |
| **Scan API** `api/routes/scans.py` | none of its own | POST /scan, GET /scans/{id} | queue |
| **Agent graph** `agents/` | LangGraph channels: candidates, impacted, verified, rejected, retry_counts; `Finding` objects mutated in place; drafter's cost | ingest, triage, impact, remediate, verify, report | feed cache, OSV, LLM |
| **Scan pipeline, feed cache** `scanner.py`, `enrichment/` | process-wide `_epss_cache`, `_kev_cache`, `_feed_lock` | scan, _cached_feeds, _fetch_advisories | HTTP client |
| **Version matching** `matching/` | none | affected ranges, upgrade target, match | |
| **HTTP client** `clients/` | token bucket (tokens, last refill, lock), attempt counter | acquire, request | OSV, deps.dev |
| **Pull-request webhook** `github_app/` | GitHub's list of comments (external); background tasks | webhook, handle_pull_request, upsert_comment | scanner, GitHub |
| **Advisory ingestion** `ingestion/` | table `advisories` | upsert_advisory, sync_records | OSV exports |
| **Dependency graph** `resolve.py`, `matching/reachability.py` | none | breadth-first depths | deps.dev |
| Parsers, dashboard, tracing, configuration, data models, CLI, evals | none of interest | | |

What is hard here, and what makes each component correct:

* **Queue and workers.** Any number of workers run the same five statements
  against one table, are killed at any point and are restarted by an operator.
  Correct means: rows are self-consistent; no two claims take the same row; a
  scan is run twice only because of a reclaim; no path through the worker loses
  a scan; order is first come, first served as far as the code can give it; an
  answer the client has seen does not change; and scans get settled.
* **Agent graph.** A cycle (verify back to impact), findings shared by several
  lists and mutated in place, concurrent drafts each of which can fail,
  refuse, be discarded or cite a source of its own. Correct means: findings are
  neither lost nor duplicated from pass to pass, nothing unverified ships,
  nothing is dropped without cause, spend is bounded and the cycle ends.
* **Scan pipeline.** Queries in batches; fetches side by side, of which one
  failure ends the scan while the others go on; concurrent first users of the
  feed cache, a download that fails half-way, a cache that never expires.
  Correct means: a report has everything OSV answers and the matcher finds for a
  lockfile, or there is none; the reports of a process agree in their order;
  and every scan ends and closes its client.
* **HTTP client.** Concurrent acquirers that sleep without the lock; retries
  that must pay for a token of their own.
* **Webhook.** Deliveries that overlap, arrive twice or are lost in a restart;
  the comment is listed and then created, in two requests; the lockfiles are listed
  at one head and read at another. Correct means: a report is whole, or there is
  none, and it is known which head each part of it is from.
* **Ingestion.** Batch commits with crashes between them; re-runs; runs that
  overlap, since nothing keeps them apart; exports applied in the wrong order.
  Correct means: a sync that completes has brought the table to its export,
  whatever earlier ones left behind, and one that does not loses little.
* **Version matching.** Unordered or overlapping ranges; the target of an
  upgrade.

`PROJECT.json` ("hazards") lists these line by line, with the property that
covers each one, or why there is none.

## 2. The modules

| Module | What it is |
|---|---|
| `ScanJobs` | what a client and the workers may rely on: the life cycle of a scan |
| `ScanQueue` | table, API handlers and workers, with every interleaving and failure |
| `ScanRuns` | `ScanQueue` with counters that watch it: how often a scan is run, and what for |
| `ScanQueueProofs` | TLAPS: the invariants of `ScanQueue`, that it implements `ScanJobs`, what failures can cost, and the counts of `ScanRuns` |
| `AgentGraph` | one run of the agent graph |
| `AgentGraphProofs` | TLAPS: the invariants of `AgentGraph`, that verdicts are final, and what a run that ends has done |
| `RateMeter` | what a rate limiter promises |
| `HttpClient` | the token bucket and the retry loop, with concurrent calls and a clock |
| `RateWindow` | `HttpClient` with a window of time that opens at any instant, and what is counted in it |
| `HttpClientProofs` | TLAPS: the invariants of `HttpClient`, that the bucket implements `RateMeter`, and the bound for every window |
| `FeedCache` | `_cached_feeds` as called by concurrent scans |
| `FeedCacheProofs` | TLAPS: the invariants of `FeedCache`, and that what is cached stays |
| `ReportService` | what concurrent scans promise: each is one step, and all use one edition of the feeds |
| `ScanPipeline` | whole scans, from the dependencies to the ranked report; extends `FeedCache`, whose steps it takes |
| `ScanPipelineProofs` | TLAPS: the invariants of `ScanPipeline`, and that it implements `FeedCache` and `ReportService` |
| `AdvisorySync` | runs of the advisory sync against the table, batch by batch |
| `AdvisorySyncProofs` | TLAPS: the invariants of `AdvisorySync`, and what holds of syncs that do not overlap |
| `PullRequest` | GitHub's side of a pull request, and the tasks that scan it and comment on it |
| `PullRequestProofs` | TLAPS: the invariants of `PullRequest`, that later comments are never written, when there is one comment only, and when reports are exact and never go back |
| `VersionRange` | one installed version against one affected package, and the upgrade advised |
| `VersionRangeProofs` | TLAPS: the loops find the intervals; the upgrade leaves the range and is the least that does |
| `MC...` | what TLC needs: symmetry sets and sets of inputs |

Definitions introduced by "Variant of X" are plausible mistakes in X. No
specification uses them; they exist so that each property can be shown to fail
when the code is changed ("mutants" in `PROJECT.json`).

### ScanJobs and ScanQueue

`ScanJobs` has three variables per scan: its *phase* (unknown, pending, running,
done, error), the *runners* (workers that believe the scan is theirs) and the
*outcome* (whose report is stored). `Submit`, `Begin`, `Requeue`, `Report`,
`Fail`, `Leave` are all that can happen. It allows several runners, because the
code does, and one settlement, by a runner, from "running".

`ScanQueue` has the columns of the row and the program counters of the workers:

| Code | Action |
|---|---|
| `enqueue`: BEGIN and now(); COMMIT; the request dies before it | `Insert`, `CommitInsert`, `AbortInsert` |
| `read_scan` | operator `ReadScan` (what a client would be told) |
| `main`: `reclaim_stale`, once, before the loop | `Start` |
| `claim_one`: the row is locked by `FOR UPDATE SKIP LOCKED`; the UPDATE commits | `ClaimLock`, `ClaimCommit` |
| nothing to claim, `time.sleep`, next round | `PollEmpty`, `Wake` |
| `_run_job` returns or raises | `RunOk`, `RunRaises` |
| `finish`, `fail` with their `status == "running"` guard | `Finish`, `Fail` |
| a statement the database refuses outside the `try`; in `finish`; the handler's `fail` on the aborted transaction | `StatementRaises`, `FinishRaises`, `FailOnAborted` |
| the process is killed, at any point | `Crash` |
| `claimed_at` becomes older than `worker_stale_seconds` | `GrowStale` |

Abstractions, and why they keep what matters:

* *One action for one statement.* Each statement is a transaction of its own in
  PostgreSQL's READ COMMITTED. UPDATEs of one row are serialised by the row
  lock and re-check their WHERE clause on the row as it has become, so that
  the guards on status are evaluated atomically with the write. The exceptions
  are modelled in two steps: an INSERT draws `created_at` before it is visible,
  and a claim's lock, which the other workers skip, is held until the commit.
* *Time.* Only the comparison `claimed_at < now() - stale` matters: a claim is
  "fresh" and may turn "stale" at any moment while the row is running.
  `created_at` is a rank, and two inserts may draw the same one.
* *Reports* are reduced to the scan they name and the worker that computed
  them; `_run_job` overwrites `scan_id`, which is what `ReportOf` says.
  `finished_at` is written exactly where `status` becomes done or error and is
  read by nobody, so it is left out. Error texts are one value.
* *owner, requeued, orphans, before* are history: no guard reads them.
* `MaxCrashes` and `MaxDbErrors` are bounds of the model, for TLC. The proofs
  do not depend on them.

`ScanRuns` adds three counters to the queue: claims that were committed (`taken`),
reclaims (`putBack`) and starts of a worker (`starts`). Each of its actions is one of
the queue's with the counters written along, and `Uncounted` is every other step.
The code counts no attempts, so this can only be said with history.

### AgentGraph

One node is one action, which is what a LangGraph superstep is. `remediate` is
the exception: its drafts run under `asyncio.gather`, so every draft is an
action of its own, and `EndRemediate` waits for the last one.

| Code | Action |
|---|---|
| `_cached_feeds`, `build_graph`, `ainvoke` | `LoadFeeds`; `Raise` for the exceptions that leave `run_graph` |
| nodes `ingest`, `triage`, `impact`, `verify` with `route_after_verify`, `report` | `Ingest`, `Triage`, `Impact`, `Verify`, `Report` |
| `_remediate_one` with no drafter, or the call raises before it is billed | `Deterministic` |
| billed, then refused, or the draft does not name the fix version | `DiscardDraft` |
| the draft is kept, with the model's citations | `KeepDraft` |

* Which (dependency, advisory) pairs match is a free choice in `Triage`. There
  they have been tested with `is_version_affected` on the same advisory that
  the verifier tests again, so that the verifier's range check is true of each
  candidate. Its other two checks are modelled: citations by their
  provenance (`cites`), and the rank by whether `enrich_findings` has set it
  since the finding was made (`ranked`).
* An empty list of citations passes, as in the code: it counts as "references".
* `advisories.get(f.advisory_id)` cannot be None for a candidate, since triage
  puts every advisory it matched into the dictionary; that branch is left out.
* `verified` and `rejected` are lists in the code and bags here: their order
  shows in the report's sort only. `candidates` and `impacted` have no
  duplicates, because `match()` drops them.
* `billed`, `fabricated` and `steps` are history.

### RateMeter and HttpClient

`RateMeter` fills by Cost with each request, drains by one with each tick and
must not exceed Capacity. In any window of L ticks at most (Capacity + L) / Cost
requests go out, which is what "rate" and "capacity" of a token bucket mean.
`RateWindow` says this of the client in so many words: a window opens at an instant
nobody chose (`Open`), and the calls and ticks since then are counted.

| Code (`clients/base.py`) | Action |
|---|---|
| `request` enters the retry loop | `Begin` |
| `acquire`, one pass of its loop: a token is there, or not | `TakeToken`, `Sleep` |
| the answer is final; or 429, 5xx, `TransportError` | `Settle`, `Failed` |
| tenacity's wait is over | `Retry` |
| cancelled at an await | `Cancel` |
| time | `Tick` |

* *Time is discrete.* A tick refills one unit, a token is Cost units. Floats
  are not modelled; the code's arithmetic has only sums, a minimum and a
  quotient that is exact in these units.
* *The lock* is not a variable: the locked section has no await, so that on one
  event loop nobody ever finds it taken.
* `sleep(wait)` is `left[r]`, counted down by `Tick`; a task that is late for its
  wake-up is one whose `TakeToken` or `Sleep` comes after further ticks.
* The exponential wait ends at any time: its length affects nothing that is
  claimed here.

### FeedCache

| Code (`scanner.py`, `_cached_feeds`) | Action |
|---|---|
| both globals set; or one is not, and the lock is asked for | `ServeWarm`, `AskForLock` |
| the lock is had, the globals are read again | `Lock` |
| a download is done, its global is set, the next download starts or the pair is returned | `Loaded` |
| a download fails; the task is cancelled | `DownloadFails`, `Cancel` |
| the sources publish | `NextDay` |

A step is what runs from one await to the next. `asyncio.Lock` is fair and the
model's is not: it allows every order, the code's among them. A feed is
represented by the day of its edition, for all that is asked is who has which.

### ScanPipeline

The module extends `FeedCache`: a scan that has its advisories takes the cache's
own steps, and nothing else changes the cache's variables.

| Code (`scanner.py`, `clients/osv.py`) | Action |
|---|---|
| `query_batch` of the next chunk; it raises, or the answers are not one for each query | `QueryBatch`, `QueryFails` |
| `gather` starts one `_fetch_one` for each id | `Gather` |
| `_fetch_one` returns an advisory; returns None for a ValueError; raises | `Fetched1`, `Drop`, `FetchRaises` |
| a fetch that outlives its scan ends | `StrayEnds` |
| `gather` returns; `finally: osv.aclose()` | `AdvisoriesDone` |
| `_cached_feeds` comes to an await; returns, and `build_report` follows at once; raises | `AwaitFeeds`, `BuildReport`, `FeedsFail` |
| the task is cancelled before the feeds, and while it waits for them | `CancelFetches`, `CancelFeeds` |
| `match`: the index, `is_version_affected`, `seen` | operators `Candidates`, `Seen`, `FindingOf` |
| `_cves`, `enrich_findings`, `compute_rank` | operators `ScoresOf`, `EpssOf`, `KevListed`, `Rank` |

* *Matching one entry* is `VersionRange`'s subject. Here each package entry of an
  advisory is the set of packages-with-version that it contains. What OSV answers
  is independent of it: the matcher may reject an advisory that OSV named.
* *Scores* are hundredths of an EPSS score and ranks are in halves, so that the
  sums of `compute_rank` are exact. The order of a report is that of its ranks.
* *Fetches* go through the client's bucket and retries (`HttpClient`); here each
  ends at some time in one of its three ways.
* A fetch that goes on after its scan has failed uses a closed client. Whatever
  comes of it, nobody reads it: `StrayEnds`.
* `dropped` is history.

`ReportService` is what this promises to the process's clients, without batches,
fetches or a lock: `Report(s)` is a whole scan in one step, which answers with the
report on the advisories it had, made with the one edition of the feeds that the
first answer fixed; `Fail(s)` is a scan that raises. Under the mapping (`Service` in
`ScanPipeline`) a scan is pending until its `BuildReport`, and the edition is the
cache once both feeds are in it, which happens in the very step of the first report. `Answer` is stated without the matcher's loops
and without `seen`: for each package of the lockfile and each advisory that was had
and contains it, the finding of the *first* such dependency and entry.

### AdvisorySync

| Code (`ingestion/sync.py`) | Action |
|---|---|
| `download_export`, `iter_records` | `Start` |
| `upsert_advisory` decides "inserted" or "updated" | `Upsert` |
| it decides "skipped"; `normalize_osv` raises ValueError | `Skip` |
| `pending >= commit_every`; the last commit | `CommitBatch`, `CommitLast` |
| an INSERT of the batch is refused | `IntegrityError` |
| a record raises anything else, inside or outside the `try` | `Poisoned` |
| the process is killed; a deadlock's victim | `Die` |

* *A record* is its version: `content_hash` covers the whole record, so that one
  hash is one content (SHA-256 is taken to be injective), and a version gives the
  value of each column (`Field`).
* *What the session sends.* `upsert_advisory` assigns every column of a row that
  is there. SQLAlchemy's UPDATE then names the columns whose value differs from
  the one it loaded, and only those. This matters when another run has changed the
  row in between, and is what `Stage` and `Apply` say.
* *When writes take effect.* The session flushes at the latest in its commit, and
  what it has flushed holds row locks until then. Another run that touches these
  rows waits, so that writes take effect in the order of the commits, and a write
  shows in the table at its commit. An INSERT of a key that another run has
  inserted is refused. Two runs that wait for each other are a deadlock, of which
  the database ends one (`Die`).
* Ids are unique in an export, as its file names are.
* `touched` and `overlapped` are history: which of the records that a run has gone
  through others have committed since, and which rows were last written by a run
  that had decided on an older row.

### PullRequest

| Code (`github_app/webhook.py`) | Action |
|---|---|
| `webhook` accepts a delivery and adds a background task | `Deliver` |
| `pr_files`, `changed_lockfiles`, the cap on lockfiles | `ListFiles` |
| `file_content` and `scan_fn` of one lockfile; oversized | `ReadFile`, `SkipFile` |
| no reports | `NothingToReport` |
| `upsert_comment`: list; then PATCH or POST | `ListComments`, `Write` |
| the broad `except` | `Fail` |
| the process ends | `Restart` |
| GitHub: a push, a comment by somebody | `Push`, `PersonComments` |

* A head has three sets of lockfiles: those in its tree, those of them that the pull
  request changes, and those that are oversized. The files are listed for the pull
  request as it is *now*, from what the latest head *changes*; each is read at the
  head *of the delivery*, where the request succeeds for whatever is *in the tree*,
  changed or not. A task that lists after a later push may therefore report on a
  lockfile its own head does not change, skip it as oversized, or fail because it is
  not there.
* The lockfiles are read in any order, and any MaxLockfiles of them may be the
  first ones, because the order GitHub lists them in is its own.
* A comment is what it covers; a person's comment has no marker. That people edit
  or delete comments, or quote the bot's marker, is left out. A listing of several
  pages is one step, which needs that: comments are only ever added at the end. (A
  comment deleted between two page requests would shift the rest by one, and the bot's
  own could be missed.) A push between two pages of the list of files, and the cap on
  that list, are left out too.
* A call whose answer is lost after GitHub acted on it is `Write` too: the task
  ends there either way.
* `listed`, `asked`, `saw` and a comment's `head`, `listed`, `asked` and `after` are
  history.

### VersionRange

The algorithm that decides whether one package entry of an advisory is a finding, as
the loops it is: one action per round, so that what a round preserves is an invariant that can be proved.

| Code (`matching/version.py`, `matching/matcher.py`, `agents/nodes.py`) | Action or operator |
|---|---|
| an installed version that does not parse | `Begin` |
| the loop over ranges, skipping GIT and unreliable ones; its end | `NextRange`, `NoRange`, `Comparable` |
| `_events_match`: a round of its loop; its end | `ReadEvent`, `EndRange` |
| `match`: a finding or none | `HasFinding` |
| `smallest_above`, `smallest_fixed_above`, `build_remediation` | `SmallestAbove`, `FixOfRange`, `UpgradeTo`, `Remediate` |

* A version that parses is a natural number, its place in the order of PEP 440
  or semver, whose own rules are the libraries'. Two spellings of one version
  are one number, but `listed` (is the string in `versions`?) is chosen
  independently of it, since that comparison is one of strings.
* "0" is the sentinel of `introduced` only, as OSV uses it. Events with none of the
  three fields do nothing in the code and are left out.
* `match` evaluates the ranges for the verdict and again for the citation; the loop
  is the same and is run once here.

## 3. The checks

All runs use `Spec` (any interleaving) unless fairness is mentioned.

| Run (cfg) | Instance | Shows |
|---|---|---|
| `queue_safety` (ScanQueueSafety) | 2 scans, 2 workers, 1 kill, 1 refused statement; 473 019 states | the invariants below, `AnswerIsFinal`, and that the queue implements `ScanJobs` (`JobLifecycle`) |
| `queue_outage` (ScanQueueOutage) | 2 scans, 2 workers that may start late, 1 kill; fair; 562 k states | `PendingIsClaimed`, `SettledOrOrphaned` |
| `queue_stale_write` | 1 scan, 2 workers | violation of `StaleWriteIsNoOp` |
| `queue_quick_restart` | 1 scan, 1 worker, 1 kill; fair | violation of `OrphanIsRecovered` |
| `queue_loop` | 1 scan, 1 worker, 1 refused statement | violation of `JobNeverKillsLoop` |
| `agent_graph` (AgentGraph) | 4 findings, 2 retries, with and without a drafter; 1 882 states | the six invariants of the graph |
| `http_client` (HttpClient) | 3 calls, 2 attempts each, a bucket of 1.5 tokens; fair; 60 417 states | `AttemptsAreExact`, `RequestEnds`, and that the bucket implements `RateMeter` (`RateLimited`) |
| `scan_pipeline` (ScanPipeline) | scans of 3, 1 and no dependencies, batches of 2, 3 advisories, 2 days; fair; 83 524 states | that scans implement `ReportService` (`ScansAreAtomic`), `ReportIsComplete`, `RankedByRisk`, `NoStampede`, `EveryScanSettles` |
| `advisory_sync` (AdvisorySync) | 4 runs, 4 exports of 3 ids in 3 versions, batches of 2; 724 121 states up to symmetry | `DoneMeansSynced`, `CrashLosesABatch`, `WritesAreNeeded`, `MixedOnlyByOverlap` |
| `pr_comment` (PullRequest) | 3 deliveries, 2 pushes of 9 kinds of heads, 3 lockfiles of which 2 are taken, pages for 2 comments, 1 other comment; 759 786 states up to symmetry | the invariants below and `DuplicatesAreFrozen` |
| `pr_single` (PullRequestSingle) | 2 deliveries | violation of `SingleComment` |
| `version_range` (VersionRange) | 3 versions; a list of up to 3 events in any order or 4 in order, or two lists with 3 events between them; 649 870 states | `MatchesByIntervals`, `MinimalSafeUpgrade`, `UpgradeIfAnyFix` |

**Queue.** `RowConsistent`: status, report, error and claim time of a row agree
(read_scan relies on it, and so does `_RECLAIM`, which compares `claimed_at`).
`ClaimIsExclusive`: SKIP LOCKED works. `SoleRunnerUnlessReclaimed`: only a row
that `reclaim_stale` put back can be run twice. `RunningIsHeldOrOrphaned`:
finish, fail and the exception paths never drop a job that is still
"running"; only a death does. `NoOvertaking`: a scan that was visible when
another was inserted, and strictly older, is claimed first; this is all that
ORDER BY created_at can promise, since created_at is drawn before the commit.
`AnswerIsFinal`: a report or an error, once answered, stays, although slow
workers may still be at that scan.

*Bounds.* Two workers and two scans are enough for each interleaving the
properties speak of: two claims of one row, a claim that skips a locked row, a
stale worker against a new claimer, a younger scan against an older one. One
kill orphans a row, and in `queue_outage` a worker that starts after it may pick
the row up again. Every bound is gone in the proofs.

*Fairness.* `WF(WorkerStep(w))`: a worker that is up takes its next step;
`_run_job` ends because each HTTP call has a timeout and at most four attempts,
and because the graph's cycle is bounded (`SuperstepsBounded`). `WF(GrowStale)`:
the clock advances. `WF(EndOutage)`: when *all* workers are down somebody starts
one. The compose file gives the worker no restart policy, so this is an
assumption about the operator, and nothing is assumed about the restart of
one worker among several. Nothing is assumed about clients or failures.
With these, `PendingIsClaimed` survives kills, and `SettledOrOrphaned` says what
may not settle: a scan that a death has orphaned, and no other. In the run's
behaviours without a kill nothing is orphaned, so that every accepted scan settles,
also one that a late starter takes from a slow worker.

*Deadlock.* Checked in every run. In the agent graph, `Over` is the state of a
run that is over; a node that could not go on would be a deadlock. So is `Over`
in `AdvisorySync` and `PullRequest`, and `PipelineOver` in `ScanPipeline`, where a
lock that is never given back would be one. In `HttpClient` time can always pass, so that a deadlock would
show as a violation of `RequestEnds` only.

**Agent graph.** `EachFindingOnce`: verified + rejected + going round = 1 for a
candidate, 0 otherwise. `VerifiedStillPasses`: what is in `verified` passes the
verifier in its present form, not only when it was appended. The objects
are shared, and it is only because later passes touch `impacted` alone that
this holds. `DroppedOnlyForForeignCitations`: no failure of the drafter
costs a finding; MaxRetries + 1 drafts with a foreign source do.
`SpendBounded`: at most one billed call per finding and pass. `SuperstepsBounded`:
3 * (MaxRetries + 2) supersteps. With the default of one retry that is 9, below
the 25 at which LangGraph gives up.

*Bounds.* Findings interact only through the routing decision (any of them
left?) and the shared pass; four with three passes give every mix of passed,
dropped and retried in each pass. The run ends by itself, so there is no
bound on behaviours.

**HTTP client.** `RateLimited`: retries, cancelled calls and waiters that wake at
the same moment included, what goes out conforms to the meter. `AttemptsAreExact`:
a call gives up after exactly max_attempts requests, never makes more, and
waits only if it will try again. `RequestEnds`: nobody starves, although waiters
do not queue.

*Bounds.* A capacity that is not a multiple of a token (1.5) leaves fractions
behind, three calls let two race for the token a third sleeps for, and two
attempts have a retry compete with a first attempt.
*Fairness.* `WF(Tick)`; `WF(Step(r))`: the event loop runs what is ready and the
call's timeout (30 s) is an answer. `Begin` and `Cancel` may never happen.
`RequestEnds` holds under weak fairness only because the number of calls is
finite, which it is in a scan; with calls arriving for ever a waiter could lose
every race.

**Scan pipeline.** `ReportIsComplete`: what OSV answers for any dependency, in any
batch, was had or is withdrawn or malformed, and every affected package is reported once
for each advisory. (`clients/osv.py` does not look at a `next_page_token`; what OSV
keeps for a further page is not part of its answer here.) A fetch that fails must
therefore fail the scan. `RankedByRisk`: over all reports of a process, listed findings
come first, and one that is more pressing by some signal and less by none ranks higher.
The comment at `enrich.py:20` speaks of tiers, EPSS "then" severity; the code adds the
two, so that a hundredth of EPSS weighs as much as one step of severity. Which of two
such findings comes first is not claimed here. `ScansAreAtomic`: the scans implement
`ReportService`, so that no interleaving shows in a report: it is complete on the
advisories that were had, and all reports of a process are made with the same complete
pair of feeds. `NoStampede`: a feed is downloaded once, plus once for each scan that
raised; EPSS is kept when KEV fails. `EveryScanSettles`: each scan reports or fails,
with its client closed and its fetches over, though others fail or are cancelled while
they have the lock.

*Bounds.* Three dependencies in batches of two make a full batch and a partial one;
one package is in both, once direct. An advisory has two entries for one package,
another is named by OSV and rejected by the matcher, a third is listed and has no
score on the first day. Of three scans one is in the lock, one waits while the
holder fails, one was served; a second day makes editions that differ.
*Fairness.* `WF(Proceed(s))`: ready tasks run, requests and downloads end (timeouts
of 30 and 120 s, at most four attempts). Nothing is assumed about cancellation.

**Advisory sync.** `DoneMeansSynced`: when a run completes, each record of its export
that normalizes is in the table in its version, unless another run committed that id
after this one had read it. Nothing is asked of earlier runs, which may have died
anywhere. `CrashLosesABatch`: at any time at most `commit_every` of the records a run
has gone through are missing from the table. `WritesAreNeeded`: what the table has is
not written again. `MixedOnlyByOverlap`: a row is one version in all its columns, if its
last write was decided on the row as it was when the write took effect. The exception is
real: of two overlapping runs that each change another column of a row, the second
leaves the columns of two versions under its own hash, and a later sync of that version
skips the row. Nothing in the repository says whether syncs may overlap, so this is
listed as a limit and not as a disagreement. Nor is it promised that the *newest* export
wins: versions are told apart by hash, never by date, and the last commit stays.

*Bounds.* Two runs overlap, a third comes after them or repeats one, a fourth adds
another death; batches of two leave a record for the last commit; the versions differ
in one column, in the other, or in both.

**Pull request.** `DuplicatesOnlyFromRaces`: a second comment is created only by a task
that listed the comments before the first was there, or if the first is beyond the last
page. `DuplicatesAreFrozen`: of several comments the first is the one that is updated
from then on. `ReportsAreWhole`: nothing is posted if one lockfile of several fails.
`ReportsJoinTwoHeads`: a comment covers what one head changed, the latest when its task
listed the files, less what is oversized at another, that of the delivery; all of it
exists there. It would fail if a content were read at the wrong head, if a lockfile
could be left out, or if a task mixed two listings, whatever is pushed between its
calls. It does not say that a late report is on lockfiles its own head changes: it need
not be. A report listed before the next push is exact (`ExactIfPrompt`, proved). That
the comment shows the *latest* head is promised nowhere, and does not hold: tasks are
not ordered, and a late one overwrites a newer report. What can be said is when it does
not (`ReportsAdvanceInOrder`, proved).

*Bounds.* Three deliveries for two heads have two tasks overlap and a third come
after them; pages for two comments are exceeded by the third. Between two heads a
lockfile can become or cease to be changed, oversized or present (`MCHeads`); the heads
where two lockfiles differ from the rest in different ways are left out, since the
code treats each by itself.

**Version range.** `MatchesByIntervals`: for events in ascending order the loop agrees
with the definition in the module's docstring, which is stated by where the boundaries
are and without reference to their order. For other orders the result depends on the
order; the code relies on OSV here (`version.py:72`). `MinimalSafeUpgrade`: for a range
in ascending order, the loop would find nothing in it at the version advised, and (where
intervals end in fixes) would still have found the installed version's interval at any
lesser one. Out of order, the loop may match the version it advises. Nothing is said of
*other* ranges of the package: the code looks at one. `UpgradeIfAnyFix`: "no fixed
version is published" only if there is none above, and never a downgrade.

*Bounds.* Three versions put the installed one below, at, between and above two
boundaries; four events in order make two intervals; two ranges make the first
match matter, and the fallback to another range's fix. The run ends by itself.

## 4. Where code and comments disagree

1. **A stale worker's write is not a no-op** (`queue_stale_write`). The comment
   at `queue.py:73` says the status guard makes finish and fail no-ops when the
   row was reclaimed *and re-claimed*. After the re-claim the status is "running"
   again, so the guard lets the stale worker settle the row; the write that
   becomes a no-op is the new claimer's. What does hold is `AnswerIsFinal`.
2. **A quick restart leaves an orphan** (`queue_quick_restart`). `reclaim_stale`
   runs once, at start, and skips claims younger than 900 s. A worker that
   dies and is restarted at once skips its own orphan, and nothing returns it to
   "pending" until some later restart.
3. **A job can end the loop** (`queue_loop`). When the database refuses
   `finish`'s UPDATE, the handler calls `fail` on the same session, whose
   transaction is aborted and was not rolled back. `fail` raises, out of
   `process_once` and `main`; the row stays "running".
4. **A pull request can get two comments** (`pr_single`). `webhook.py:136` says "upsert
   a single report comment". The comments are listed in one request and the comment is
   created in another, and each delivery is a task of its own: two that overlap
   both find none. The second comment then stays as it is for good
   (`DuplicatesAreFrozen`).

## 5. What is proved

For every set of scans, workers, findings and calls, every number of retries, kills
and refused statements, every rate and capacity, every list of ranges:

| Theorem | Property |
|---|---|
| ScanQueueProofs `TypeCorrect`, `RowsAreConsistent`, `ClaimsAreExclusive`, `DoubleRunsComeFromReclaim`, `NoJobIsLost`, `FirstComeFirstServed` | the six invariants of the queue |
| ScanQueueProofs `AnswersAreFinal` | `AnswerIsFinal` |
| ScanQueueProofs `ImplementsScanJobs` | `JobLifecycle`: the refinement |
| ScanQueueProofs `LossesAreBounded` | scans without a runner are at most as many as failures |
| ScanQueueProofs `RunsAreReclaims`, `RunsAreLimited` | what each run of a scan is for, and how many there can be (`ScanRuns`) |
| ScanQueueProofs `LoopSurvivesJobs`, `StaleWritesOnlyTakeOver` | how far findings 3 and 1 of section 4 can go |
| AgentGraphProofs `TypeCorrect`, `FindingsAreConserved`, `NothingUnverifiedShips`, `DropsAreEarned`, `SpendIsBounded`, `LoopIsBounded` | the six invariants of the graph |
| AgentGraphProofs `VerdictsAreFinal` | no later pass revises a verdict, alters its finding or pays for it |
| AgentGraphProofs `EveryCandidateGetsAVerdict`, `DropsArePaidFor`, `OfflineRunsAreStraight` | what a run has done when it ends, and without a drafter |
| HttpClientProofs `TypeCorrect`, `RetriesAreExact` | `TypeOK`, `AttemptsAreExact` |
| HttpClientProofs `BucketImplementsMeter` | `RateLimited`: the refinement |
| HttpClientProofs `EveryWindowConforms` | in any window of time, at most capacity + rate * length (`RateWindow`) |
| HttpClientProofs `NobodyOversleeps` | no call sleeps while there is a token |
| VersionRangeProofs `TypeCorrect`, `MatchingIsExact`, `UpgradeIsMinimal`, `NoFixIsPassedOver` | the four invariants of the algorithm |
| VersionRangeProofs `UpgradeIsSafe` | in any order of events, the version advised from a range is its lowest fix above the installed one and in none of its intervals (`UpgradeLeavesRange`) |
| FeedCacheProofs `TypeCorrect`, `FeedsAreShared`, `ColdStartIsCheap` | `TypeOK`, `ScansAgree`, `NoStampede` of the cache by itself |
| FeedCacheProofs `EditionsStay` | a cached feed is never replaced |
| ScanPipelineProofs `PipelineUsesFeedCache` | the refinement: scans implement `FeedCache` |
| ScanPipelineProofs `ScansAnswerAtomically` | `ScansAreAtomic`, the refinement: scans implement `ReportService` |
| ScanPipelineProofs `PipelineTypeCorrect`, `ReportsAreComplete`, `ReportsAreRanked`, `ScansDoNotStampede` | the four invariants of the pipeline |
| ScanPipelineProofs `ReportsShareFeeds` | `ScansAgree`, of scans |
| AdvisorySyncProofs `TypeCorrect`, `SyncConverges`, `LossIsBounded`, `SyncIsIdempotent`, `MixesComeFromOverlap` | the five invariants of the sync |
| AdvisorySyncProofs `CleanSyncsAreExact` | the columns, and not the hash alone, after a sync |
| AdvisorySyncProofs `SerialSyncsAreSafe` | syncs one at a time mix nothing and are never refused |
| AdvisorySyncProofs `RowsAreNeverRemoved` | withdrawn advisories keep their rows |
| PullRequestProofs `TypeCorrect`, `DuplicatesComeFromRaces`, `NothingIsLeftOut`, `ReportsAreOfListedFiles` | the four invariants of the pull request |
| PullRequestProofs `LaterCommentsAreNotWritten` | `DuplicatesAreFrozen` |
| PullRequestProofs `OneCommentIfSerial` | `SingleComment`, if writes do not overlap and every comment is listed |
| PullRequestProofs `ExactIfPrompt` | a report whose files were listed before the next push is on exactly the lockfiles its head changes |
| PullRequestProofs `ReportsAdvanceInOrder` | no comment goes back to an older head, if deliveries are prompt and tasks do not overlap |

Of these, what names a property of section 3 was checked there before it was proved. The
others were checked by TLC in the same way, on the instances of section 3, while the
proofs were written; they need no run of their own, since the theorem says more than
the run would.

*Assumptions.* `NoneAssumption`: SQL NULL is none of the values a column can
hold otherwise. `BoundsAssumption`, `MaxRetriesAssumption`: bounds are naturals.
`BucketAssumption`: a bucket holds at least one token, and there is at least one
attempt. `FeedAssumption`: None is neither a scan, a day nor a pair, and the scans
are finitely many (for the cardinality in `NoStampede`). `VersionAssumption`: what
does not parse, "0" and None are no versions, and packages are lists of ranges.
`PipelineAssumption`: lockfiles are lists of dependencies, a batch has at least one
query, scores are 0 to 100 hundredths, and None is no score. `SyncAssumption`: a batch
has at least one record, the ids are finitely many and unique in an export, and every
version has a value for each column. `LimitsAssumption`: limits are naturals. TLC
evaluates all of them.

*The queue's argument.* The six invariants are not inductive together. `IInv`
adds three facts: `ClaimersOfRows` (an invisible row has no claimer, a row that
left "pending" has one, jobs in hand are visible rows), `PendingIsFree` (a lock
in flight is the last claimer's, and a pending row that was never put back is
in nobody's hands) and `SeenStaysVisible` (rows are never deleted). Each
conjunct has a lemma with one step per action. `NoOvertaking` rests on
`SeenStaysVisible`: what an insert saw is still there when the claim is made, so
`Oldest` compared with it. `ClaimIsExclusive` needs `PendingIsFree`, for the row
under a lock must not be settled by an earlier runner: that runner's guard
requires "running". `AnswerIsFinal` follows in a step from `IInv`; so does each
step of the refinement, whose mapping is: phase = status of a visible row,
runners = the workers that hold it, outcome = who computed the stored report.

*What failures cost the queue.* `LossesCounted` charges every orphan to a failure. A
refused finish (`FinishRaises`) is paid for when it happens and costs its scan one step
later, when the worker dies of the aborted transaction: so the workers that are doomed
in this way count as losses already, and |orphans| + |doomed| <= kills + refusals is
inductive. An exit orphans one scan at most, for a worker holds one (`ExitOrphansOne`).

*How often a scan is run.* `RunsFollowReclaims` is an equation: claims = reclaims, plus
one when the row is running or settled. It holds because a claim is committed on a
pending row (`ClaimIsExclusive`), a reclaim takes running rows, and no finish or fail,
late or not, moves a row into or out of these states (`ClaimedStays`). The bound
follows from counting starts: a worker that comes up was never up before or has been
killed by something counted, which is `StartsSoFar`, and one start puts a row back once
at most. The set of workers must be finite for that, and this is the theorem's hypothesis.

*The scope of the disagreements.* Four theorems say where what a comment promises, or a
reader would expect, does hold. `LoopSurvivesJobs`: while the database refuses no
statement, `JobNeverKillsLoop`; a poisoned job as such, whatever exception it raises, is
no danger. `OneCommentIfSerial`: while no two tasks are between listing and writing, and
the listing reaches every comment, `SingleComment`. `StaleWritesOnlyTakeOver` needs no
hypothesis: a stale write that changes an answer is made to a row that was put back, is
running, and has its new claimer at work on it or dead. Settling it early is the harm;
an outcome is never replaced. `ReportsAdvanceInOrder`: while each delivery comes before
the next push and tasks do not overlap, no report is replaced by an older head's. The
hypotheses are `[]` of a predicate on states or steps that ordinary behaviours satisfy
(one worker and a sound database; one delivery at a time).

*The graph's argument.* `IInv` adds `PassesSoFar` (a finding that goes round was
foreign-cited in each earlier pass and billed at most once a pass),
`StepsSoFar` (where the superstep counter stands at each node, in terms of the
retry counts, which are equal for all findings at hand) and `Bookkeeping`. `RunShape`
adds that a fabricated draft was billed and that nothing goes round once the lists are
reported; with it the retry loop leaves no candidate without a verdict.

*The bucket's argument.* The meter's level is Capacity - `Available`: what is missing
in the bucket, were it refilled now. Taking a token and the refill both move
`Available` and the level by the same amount, and `Sleep`, which only books the
refill, leaves it alone. `SentSoFar` ties the requests to the attempt number. The bound
for a window (`WindowSoFar`): Cost * calls + `Available` <= Capacity + ticks, from the
moment it opens, whatever is left in the bucket then. `NoTokenIdles`: what a sleep has
left and what is in the bucket come to a token at most, for a tick moves the one to
the other and a token that is taken only lowers the sum.

*The cache's argument.* One scan at a time is in the locked section
(`LockIsExclusive`); a feed is downloaded only while it is not cached
(`DownloadsAreNeeded`), so that the cache never changes once it is warm; and what a
scan was served is what is cached (`ServedFromCache`). `LoadsSoFar` charges every
download to the scan that raised in it, to the cache, or to the scan still
at it.

*The matching argument.* The loop's invariant is in `ReadSoFar`: `affected` says that of
the events read so far an introduction was reached and closed by none after it
(`Open`); `OneMoreEvent` is its step. `LoopFindsIntervals` turns "after" into
"above", by way of the ascending order. The least fix exists because the naturals
are well-founded (`LeastExists`); a version at a fixed boundary is in no interval,
since any introduction at or below it is followed by that very boundary. It is
minimal because nothing closes the installed version's interval below the lowest fix
above it (`IntervalReachesFix`); a range that says `last_affected` is excepted, for
there an interval can end before any fix.

*The pipeline's argument.* That scans implement `FeedCache` is one case for each
action: those before the feeds leave the cache alone, the others take a `Step` or a
`Cancel` of it. The cache's invariant is therefore the pipeline's too. `PipelineIInv`
adds `AdvisoriesSoFar` (what OSV named for the dependencies asked about so far is
underway, had or dropped) and `FeedsSoFar` (a report is the one made of what was had
and of the feeds that were served). No package is lost to `seen`: of the places where
it is found the first, by dependency and then by entry, is kept, and there is a first
because the naturals are well-founded (`AffectedIsFound`). `RankOrder` is the
arithmetic: being listed is worth 2000 halves, and all else comes to at most 209.
For `ReportService` every step but a scan's last is a stutter. Two facts carry it. The
edition appears in the step of a report: the download that makes the cache warm is its
scan's last await, after which the report is built at once, and `CacheIsWrittenOnce`
keeps it (`EditionStep`). And what `seen` keeps is the first place where a package is
found (`UnseenIsFirst`), hence the answer of the abstract scan (`FindingsAreAnswer`).

*The sync's argument.* `IInv` adds, for each run, `BatchSoFar` (whatever the run is
behind with is in its open transaction, which has `pending` writes and is at most a
batch) and `StagedSoFar` (a staged write is of a record that was read, and if nobody
has committed its id since, applying it to the row gives exactly its version). A commit
empties the transaction, and so what the run is behind with; another run's commit puts
its ids into `touched`. Recovery needs no more than that, because a decision depends
on the table and the record alone. `CleanSyncIsExact` puts `DoneMeansSynced` (the hash)
and `MixedOnlyByOverlap` (the columns under a hash) together. With one run at a time
(`OneAtATime`) nobody commits what a run under way has read, which is inductive
(`NotOverlapped`), and every limit listed in section 3 for overlapping runs is gone.

*The pull request's argument.* `IInv` adds, for each task, `ReadsSoFar` (its lockfiles
are reported on or still to be read), `GivenSoFar` (which lockfiles those are: of what
was listed, all that were read at the delivery's head and are not oversized there) and
`ListedSoFar` (when it is about to write, the comment it will update is the first of the
app's, or there was none when it listed them). A write then puts a comment behind
whatever its task saw, or replaces the first (`WriteStep`); it never replaces another
(`OnlyTheFirstIsWritten`).

*Model-checked only:* the liveness properties, `PendingIsClaimed`, `SettledOrOrphaned`,
`RequestEnds` and `EveryScanSettles`, and the violations of section 4. Liveness under
fairness is out of TLAPS' reach. The graph's termination is a safety fact here, the
bound on supersteps.

## 6. What is not modelled

* *Parsers* turn text into a list; a lockfile is that list here. *Dashboard*: reads
  finished rows. *Tracing*: its failures are swallowed and it feeds nothing back.
  *Configuration, data models, CLI, evals*: declarations and offline tools.
* *Dependency graph* (`resolve.py`, `matching/reachability.py`): breadth-first depths
  over one answer of deps.dev, a sequential function that only tests and evals call.
* `POST /scan`'s 500 KB limit and `/health` keep no state. The deps.dev client is the
  retry loop it shares with OSV's. Signatures of deliveries; wording and layout of
  reports.
* `advisory_embeddings` is declared as a table and written by nobody.

## 7. What could follow

1. A worker's `_run_job`, a free outcome in `ScanQueue`, as a run of `ScanPipeline` or
   `AgentGraph`. Each ends in a report or an exception, which is all that `ScanQueue`
   allows it; a composition would say so of the three together.
2. `PipelineFairSpec` over `HttpClient`, to replace "every request ends" by the bucket
   and the retry loop (`RequestEnds`).
3. Breadth-first depths against shortest paths, should a scan come to use them.
