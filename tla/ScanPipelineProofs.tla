------------------------- MODULE ScanPipelineProofs -------------------------
(* Proofs about ScanPipeline, for any scans, lockfiles, advisories and feeds *)
(* and any size of a batch.                                                  *)
EXTENDS ScanPipeline, FeedCacheProofs, WellFoundedInduction, TLAPS

----------------------------------------------------------------------------
(* A process's scans use the feed cache as FeedCache has it.                 *)

(* What a scan does is a step of _cached_feeds or does not touch the feeds.  *)
LEMMA CacheStep == [PipelineNext]_allVars => [Next]_vars
<1> SUFFICES ASSUME [PipelineNext]_allVars PROVE [Next]_vars
  OBVIOUS
<1>1. CASE UNCHANGED allVars
  BY <1>1 DEF allVars
<1>2. CASE NextDay /\ UNCHANGED pipelineVars
  BY <1>2 DEF Next
<1>3. ASSUME NEW s \in Scans, Proceed(s) PROVE [Next]_vars
  <2>1. CASE AwaitFeeds(s) \/ BuildReport(s) \/ FeedsFail(s)
    BY <2>1 DEF AwaitFeeds, BuildReport, FeedsFail, Next
  <2>2. CASE QueryBatch(s) \/ QueryFails(s) \/ Gather(s) \/ AdvisoriesDone(s)
    BY <2>2 DEF QueryBatch, QueryFails, Gather, AdvisoriesDone
  <2>3. CASE \E v \in Vulns :
               Fetched1(s, v) \/ Drop(s, v) \/ FetchRaises(s, v) \/ StrayEnds(s, v)
    BY <2>3 DEF Fetched1, Drop, FetchRaises, StrayEnds
  <2> QED
    BY <1>3, <2>1, <2>2, <2>3 DEF Proceed
<1>4. ASSUME NEW s \in Scans, CancelFetches(s) \/ CancelFeeds(s) PROVE [Next]_vars
  BY <1>4 DEF CancelFetches, CancelFeeds, Next
<1> QED
  BY <1>1, <1>2, <1>3, <1>4 DEF PipelineNext, PipelineOver

(* Scans implement FeedCache.                                                *)
THEOREM PipelineUsesFeedCache == PipelineSpec => Spec
<1>1. PipelineInit => Init
  BY DEF PipelineInit
<1> QED
  BY <1>1, CacheStep, PTL DEF PipelineSpec, Spec

(* So all reports of a process are made with one pair of feeds.              *)
THEOREM ReportsShareFeeds == PipelineSpec => []ScansAgree
  BY PipelineUsesFeedCache, FeedsAreShared, PTL

(* And a cold start downloads each feed once, short of failures.             *)
THEOREM ScansDoNotStampede == PipelineSpec => []NoStampede
  BY PipelineUsesFeedCache, ColdStartIsCheap, PTL

----------------------------------------------------------------------------
(* Matching and ranking.                                                     *)

(* Of some naturals one is the least,                                        *)
LEMMA FirstExists ==
  ASSUME NEW S \in SUBSET Nat, S # {}
  PROVE  \E x \in S : \A y \in S : x <= y
<1>1. PICK x \in S : \A y \in S : <<y, x>> \notin OpToRel(<, Nat)
  BY NatLessThanWellFounded, WFMin
<1>2. \A y \in S : ~(y < x)
  BY <1>1 DEF OpToRel
<1> QED
  BY <1>2

(* and of some scores one is the best.                                       *)
LEMMA BestExists ==
  ASSUME NEW S \in SUBSET Scores, S # {}
  PROVE  \E x \in S : \A y \in S : y <= x
<1> DEFINE Lacks == {100 - x : x \in S}
<1>1. Lacks \in SUBSET Nat /\ Lacks # {}
  <2>1. \A x \in S : x \in Int /\ 0 <= x /\ x <= 100
    BY DEF Scores
  <2>2. \A x \in S : 100 - x \in Nat
    BY <2>1
  <2> QED
    BY <2>2
<1>2. PICK z \in Lacks : \A y \in Lacks : z <= y
  BY <1>1, FirstExists
<1>3. PICK x \in S : z = 100 - x
  BY <1>2
<1>4. \A y \in S : y <= x
  BY <1>2, <1>3 DEF Scores
<1> QED
  BY <1>4

(* A score of 0 stands for none.                                             *)
LEMMA EpssIsScore ==
  ASSUME NEW v \in Vulns, NEW n \in Days
  PROVE  EpssOf(v, n) \in Scores
<1>1. ScoresOf(v, n) \in SUBSET Scores
  BY PipelineAssumption DEF ScoresOf
<1>2. CASE ScoresOf(v, n) = {}
  BY <1>2 DEF EpssOf, Scores
<1>3. CASE ScoresOf(v, n) # {}
  BY <1>1, <1>3, BestExists DEF EpssOf
<1> QED
  BY <1>2, <1>3

(* What a candidate is.                                                      *)
LEMMA CandidateIs ==
  ASSUME NEW s \in Scans, fetched[s] \in SUBSET Vulns
  PROVE  \A m \in Candidates(s) :
           /\ m.d \in DOMAIN Lockfile[s] /\ m.v \in fetched[s] /\ m.v \in Vulns
           /\ m.e \in DOMAIN Affected[m.v]
           /\ m = [d |-> m.d, v |-> m.v, e |-> m.e]
           /\ Key(s, m.d) \in Affected[m.v][m.e]
           /\ m.d \in Nat /\ m.e \in Nat
<1> SUFFICES ASSUME NEW m \in Candidates(s)
             PROVE  /\ m.d \in DOMAIN Lockfile[s] /\ m.v \in fetched[s] /\ m.v \in Vulns
                    /\ m.e \in DOMAIN Affected[m.v]
                    /\ m = [d |-> m.d, v |-> m.v, e |-> m.e]
                    /\ Key(s, m.d) \in Affected[m.v][m.e]
                    /\ m.d \in Nat /\ m.e \in Nat
  OBVIOUS
<1>1. /\ m \in [d : DOMAIN Lockfile[s], v : fetched[s],
                e : UNION {DOMAIN Affected[w] : w \in Vulns}]
      /\ m.e \in DOMAIN Affected[m.v] /\ Key(s, m.d) \in Affected[m.v][m.e]
  BY DEF Candidates
<1>2. m.d \in DOMAIN Lockfile[s] /\ m.v \in fetched[s] /\ m = [d |-> m.d, v |-> m.v, e |-> m.e]
  BY <1>1
<1>3. Lockfile[s] \in Seq(Deps) /\ Affected[m.v] \in Seq(SUBSET Keys)
  BY <1>2, PipelineAssumption
<1> QED
  BY <1>1, <1>2, <1>3

(* A dependency and an entry that contains its key are one.                  *)
LEMMA IsCandidate ==
  ASSUME NEW s \in Scans, fetched[s] \in SUBSET Vulns,
         NEW d \in DOMAIN Lockfile[s], NEW v \in fetched[s],
         NEW e \in DOMAIN Affected[v], Key(s, d) \in Affected[v][e]
  PROVE  [d |-> d, v |-> v, e |-> e] \in Candidates(s)
  BY DEF Candidates

(* A rank is a natural number.                                               *)
LEMMA RankIsTyped ==
  ASSUME NEW kev \in BOOLEAN, NEW epss \in Scores, NEW severity \in 0 .. 4,
         NEW direct \in BOOLEAN
  PROVE  Rank(kev, epss, severity, direct) \in Nat
  BY DEF Rank, Scores

(* A finding is of its type, and its rank is that of its signals.            *)
LEMMA FindingIsTyped ==
  ASSUME NEW s \in Scans, fetched[s] \in SUBSET Vulns,
         NEW m \in Candidates(s), NEW c \in [Feeds -> Days]
  PROVE  /\ FindingOf(s, m, c) \in Findings
         /\ FindingOf(s, m, c).key = Key(s, m.d) /\ FindingOf(s, m, c).id = m.v
         /\ FindingOf(s, m, c).kev = KevListed(m.v, c["kev"])
         /\ FindingOf(s, m, c).epss = EpssOf(m.v, c["epss"])
         /\ LET f == FindingOf(s, m, c)
            IN f.rank = Rank(f.kev, f.epss, f.severity, f.direct)
<1>1. /\ m.d \in DOMAIN Lockfile[s] /\ m.v \in Vulns /\ m.e \in Nat
  BY CandidateIs
<1>2. Lockfile[s][m.d] \in Deps
  BY <1>1, PipelineAssumption
<1>3. Key(s, m.d) \in Keys /\ Lockfile[s][m.d].direct \in BOOLEAN
  BY <1>2 DEF Deps, Key
<1>4. Severity[m.v] \in 0 .. 4
  BY <1>1, PipelineAssumption
<1>5. EpssOf(m.v, c["epss"]) \in Scores
  BY <1>1, EpssIsScore DEF Feeds
<1>6. KevListed(m.v, c["kev"]) \in BOOLEAN
  BY DEF KevListed
<1>7. Rank(KevListed(m.v, c["kev"]), EpssOf(m.v, c["epss"]), Severity[m.v],
           Lockfile[s][m.d].direct) \in Nat
  BY <1>3, <1>4, <1>5, <1>6, RankIsTyped
<1> QED
  BY <1>1, <1>3, <1>4, <1>5, <1>6, <1>7 DEF FindingOf, Findings

(* A report's findings are of their type.                                    *)
LEMMA FindingsAreTyped ==
  ASSUME NEW s \in Scans, fetched[s] \in SUBSET Vulns, NEW c \in [Feeds -> Days]
  PROVE  FindingsOf(s, c) \in SUBSET Findings
  BY FindingIsTyped DEF FindingsOf

----------------------------------------------------------------------------
(* The inductive invariant.                                                  *)

(* The scan t has nothing to do with a step.                                 *)
LEMMA AdvisoriesFrame ==
  ASSUME NEW t \in Scans, AdvisoriesSoFar(t),
         stage'[t] = stage[t], asked'[t] = asked[t], ids'[t] = ids[t],
         underway'[t] = underway[t], fetched'[t] = fetched[t], dropped'[t] = dropped[t]
  PROVE  AdvisoriesSoFar(t)'
<1>1. NamedSoFar(t)' = NamedSoFar(t)
  BY DEF NamedSoFar
<1> QED
  BY <1>1 DEF AdvisoriesSoFar

(* Findings depend on what was had and on the feeds.                         *)
LEMMA SameFindings ==
  ASSUME NEW t \in Scans, fetched'[t] = fetched[t]
  PROVE  FindingsOf(t, got[t])' = FindingsOf(t, got'[t])
<1>1. Candidates(t)' = Candidates(t)
  BY DEF Candidates
<1>2. ASSUME NEW m PROVE Seen(t, m)' <=> Seen(t, m)
  BY <1>1 DEF Seen
<1>3. ASSUME NEW m PROVE FindingOf(t, m, got[t])' = FindingOf(t, m, got'[t])
  BY DEF FindingOf
<1> QED
  BY <1>1, <1>2, <1>3 DEF FindingsOf

(* The same for its feeds.                                                  *)
LEMMA FeedsFrame ==
  ASSUME NEW t \in Scans, FeedsSoFar(t),
         stage'[t] = stage[t], pc'[t] = pc[t], got'[t] = got[t],
         fetched'[t] = fetched[t], report'[t] = report[t]
  PROVE  FeedsSoFar(t)'
<1>1. FindingsOf(t, got[t])' = FindingsOf(t, got[t])
  BY SameFindings
<1> QED
  BY <1>1 DEF FeedsSoFar

(* _cached_feeds moves its caller only.                                      *)
LEMMA FeedStepIsLocal ==
  ASSUME TypeOK, NEW s \in Scans, Step(s) \/ Cancel(s)
  PROVE  \A t \in Scans : t # s => pc'[t] = pc[t] /\ got'[t] = got[t]
<1>1. \E to : pc' = [pc EXCEPT ![s] = to]
  BY DEF Step, Cancel, ServeWarm, AskForLock, Lock, Loaded, DownloadFails, Raise, Move,
         Serve, Download, Warm, TypeOK, Feeds
<1>2. got' = got \/ \E c : got' = [got EXCEPT ![s] = c]
  BY DEF Step, Cancel, ServeWarm, AskForLock, Lock, Loaded, DownloadFails, Raise,
         Serve, Download, Warm, TypeOK, Feeds
<1> QED
  BY <1>1, <1>2 DEF TypeOK

(* No scan has started.                                                      *)
LEMMA PipelineIInvInit == PipelineInit => PipelineIInv
<1> SUFFICES ASSUME PipelineInit PROVE PipelineIInv
  OBVIOUS
<1>1. IInv /\ LoadsSoFar
  BY IInvInit, LoadsSoFarInit DEF PipelineInit
<1>2. PipelineTypeOK
  BY <1>1 DEF PipelineInit, PipelineTypeOK, IInv, Stages
<1>3. ASSUME NEW s \in Scans PROVE AdvisoriesSoFar(s) /\ FeedsSoFar(s)
  <2>1. NamedSoFar(s) = {}
    <3>1. Lockfile[s] \in Seq(Deps)
      BY PipelineAssumption
    <3>2. {i \in DOMAIN Lockfile[s] : i <= asked[s]} = {}
      BY <3>1 DEF PipelineInit
    <3> QED
      BY <3>2 DEF NamedSoFar
  <2> QED
    BY <2>1 DEF PipelineInit, Init, AdvisoriesSoFar, FeedsSoFar
<1> QED
  BY <1>1, <1>2, <1>3 DEF PipelineIInv

(* What the scan s has asked for after one more batch.                       *)
LEMMA BatchIsNamed ==
  ASSUME PipelineTypeOK, NEW s \in Scans, QueryBatch(s), ids[s] = NamedSoFar(s)
  PROVE  ids'[s] = NamedSoFar(s)'
<1>1. Lockfile[s] \in Seq(Deps) /\ asked[s] \in Nat /\ BatchSize \in Nat
  BY PipelineAssumption DEF PipelineTypeOK
<1>2. asked'[s] = asked[s] + BatchSize
  BY DEF QueryBatch, PipelineTypeOK
<1>3. {i \in DOMAIN Lockfile[s] : i <= asked'[s]}
        = {i \in DOMAIN Lockfile[s] : i <= asked[s]} \cup Batch(s)
  BY <1>1, <1>2 DEF Batch
<1>4. ids'[s] = ids[s] \cup UNION {Hits[Lockfile[s][i].key] : i \in Batch(s)}
  BY DEF QueryBatch, PipelineTypeOK
<1> QED
  BY <1>3, <1>4 DEF NamedSoFar

(* The types, for the steps up to the feeds.                                 *)
LEMMA AdvisoryTypeStep ==
  ASSUME PipelineTypeOK, TypeOK', NEW s \in Scans,
         \/ QueryBatch(s) \/ QueryFails(s) \/ Gather(s) \/ AdvisoriesDone(s)
         \/ CancelFetches(s)
         \/ \E v \in Vulns :
              Fetched1(s, v) \/ Drop(s, v) \/ FetchRaises(s, v) \/ StrayEnds(s, v)
  PROVE  PipelineTypeOK'
<1> USE DEF PipelineTypeOK, Stages, Goto, Close
<1>1. CASE QueryBatch(s)
  <2>1. Batch(s) \subseteq DOMAIN Lockfile[s] /\ Lockfile[s] \in Seq(Deps)
    BY PipelineAssumption DEF Batch
  <2>2. UNION {Hits[Lockfile[s][i].key] : i \in Batch(s)} \in SUBSET Vulns
    <3>1. ASSUME NEW i \in Batch(s) PROVE Hits[Lockfile[s][i].key] \in SUBSET Vulns
      <4>1. Lockfile[s][i] \in Deps
        BY <2>1
      <4> QED
        BY <4>1, PipelineAssumption DEF Deps
    <3> QED
      BY <3>1
  <2>3. asked[s] + BatchSize \in Nat
    BY PipelineAssumption
  <2> QED
    BY <1>1, <2>2, <2>3 DEF QueryBatch
<1>2. CASE QueryFails(s) \/ CancelFetches(s)
  BY <1>2 DEF QueryFails, CancelFetches, Asking
<1>3. CASE Gather(s)
  BY <1>3 DEF Gather
<1>4. CASE AdvisoriesDone(s)
  BY <1>4 DEF AdvisoriesDone, GatherDone
<1>5. ASSUME NEW v \in Vulns, Fetched1(s, v) \/ Drop(s, v) \/ StrayEnds(s, v)
      PROVE  PipelineTypeOK'
  BY <1>5 DEF Fetched1, Drop, StrayEnds, EndFetch
<1>6. ASSUME NEW v \in Vulns, FetchRaises(s, v) PROVE PipelineTypeOK'
  BY <1>6 DEF FetchRaises, EndFetch
<1> QED
  BY <1>1, <1>2, <1>3, <1>4, <1>5, <1>6

(* What OSV named is accounted for, and the feeds wait for their turn.       *)
LEMMA AdvisoryStep ==
  ASSUME PipelineIInv, NEW s \in Scans,
         \/ QueryBatch(s) \/ QueryFails(s) \/ Gather(s) \/ AdvisoriesDone(s)
         \/ CancelFetches(s)
         \/ \E v \in Vulns :
              Fetched1(s, v) \/ Drop(s, v) \/ FetchRaises(s, v) \/ StrayEnds(s, v)
  PROVE  \A t \in Scans : AdvisoriesSoFar(t)' /\ FeedsSoFar(t)'
<1>0. /\ PipelineTypeOK
      /\ \A t \in Scans : AdvisoriesSoFar(t) /\ FeedsSoFar(t)
  BY DEF PipelineIInv
<1>1. ASSUME NEW t \in Scans, t # s PROVE AdvisoriesSoFar(t)' /\ FeedsSoFar(t)'
  <2>1. /\ stage'[t] = stage[t] /\ asked'[t] = asked[t] /\ ids'[t] = ids[t]
        /\ underway'[t] = underway[t] /\ fetched'[t] = fetched[t]
        /\ dropped'[t] = dropped[t] /\ report'[t] = report[t]
        /\ pc'[t] = pc[t] /\ got'[t] = got[t]
    BY <1>0, <1>1
    DEF PipelineTypeOK, QueryBatch, QueryFails, Gather, AdvisoriesDone, CancelFetches,
        Fetched1, Drop, FetchRaises, StrayEnds, EndFetch, Goto, vars
  <2> QED
    BY <1>0, <2>1, AdvisoriesFrame, FeedsFrame
<1>2. FeedsSoFar(s)'
  <2>1. /\ stage[s] \in {"query", "fetch"} \/ stage'[s] = stage[s]
        /\ stage'[s] \in {"query", "fetch", "failed"} \/ AdvisoriesDone(s)
        /\ AdvisoriesDone(s) => stage'[s] = "feeds"
        /\ stage[s] # "reported" /\ stage[s] # "feeds"
        /\ report'[s] = report[s] /\ pc'[s] = pc[s]
        /\ stage[s] = "failed" => stage'[s] = "failed"
    BY <1>0
    DEF PipelineTypeOK, QueryBatch, QueryFails, Gather, AdvisoriesDone, CancelFetches,
        Fetched1, Drop, FetchRaises, StrayEnds, EndFetch, Goto, vars, Asking
  <2> QED
    BY <1>0, <2>1 DEF FeedsSoFar, Ended
<1>3. AdvisoriesSoFar(s)'
  <2>1. CASE QueryBatch(s)
    <3>1. stage[s] = "query" /\ UNCHANGED <<stage, fetched, dropped>>
      BY <2>1 DEF QueryBatch, Asking
    <3>2. ids'[s] = NamedSoFar(s)'
      BY <1>0, <2>1, <3>1, BatchIsNamed DEF AdvisoriesSoFar
    <3> QED
      BY <1>0, <3>1, <3>2 DEF AdvisoriesSoFar
  <2>2. CASE stage'[s] = "failed"
    BY <2>2 DEF AdvisoriesSoFar
  <2>3. CASE ~QueryBatch(s) /\ stage'[s] # "failed"
    <3>1. /\ UNCHANGED <<asked, ids>> /\ stage[s] # "failed"
          /\ Gather(s) \/ AdvisoriesDone(s) \/ \E v \in Vulns : Fetched1(s, v) \/ Drop(s, v)
      BY <1>0, <2>3
      DEF PipelineTypeOK, QueryFails, Gather, AdvisoriesDone, CancelFetches,
          Fetched1, Drop, FetchRaises, StrayEnds, Goto
    <3>2. ids'[s] = NamedSoFar(s)'
      BY <1>0, <3>1 DEF AdvisoriesSoFar, NamedSoFar
    <3>3. CASE Gather(s)
      <4>1. Len(Lockfile[s]) <= asked[s]
        BY <1>0, <3>3, PipelineAssumption DEF Gather, Asking, PipelineTypeOK
      <4>2. /\ stage'[s] = "fetch" /\ underway'[s] = ids[s]
            /\ fetched'[s] = {} /\ dropped'[s] = {}
        BY <1>0, <3>3 DEF Gather, Goto, AdvisoriesSoFar, PipelineTypeOK
      <4> QED
        BY <3>1, <3>2, <4>1, <4>2 DEF AdvisoriesSoFar
    <3>4. CASE AdvisoriesDone(s)
      <4>1. /\ stage[s] = "fetch" /\ stage'[s] = "feeds"
            /\ UNCHANGED <<underway, fetched, dropped>>
        BY <1>0, <3>4 DEF AdvisoriesDone, Goto, PipelineTypeOK
      <4> QED
        BY <1>0, <3>1, <3>2, <4>1 DEF AdvisoriesSoFar
    <3>5. ASSUME NEW v \in Vulns, Fetched1(s, v) \/ Drop(s, v) PROVE AdvisoriesSoFar(s)'
      <4>1. /\ stage[s] = "fetch" /\ stage'[s] = "fetch"
            /\ v \in underway[s] /\ underway'[s] = underway[s] \ {v}
            /\ fetched'[s] \cup dropped'[s] = fetched[s] \cup dropped[s] \cup {v}
        BY <1>0, <3>5 DEF Fetched1, Drop, EndFetch, PipelineTypeOK
      <4>2. /\ Len(Lockfile[s]) <= asked[s]
            /\ underway[s] \cup fetched[s] \cup dropped[s] = ids[s]
        BY <1>0, <4>1 DEF AdvisoriesSoFar
      <4>3. underway'[s] \cup fetched'[s] \cup dropped'[s] = ids'[s]
        BY <3>1, <4>1, <4>2
      <4> QED
        BY <3>1, <3>2, <4>1, <4>2, <4>3 DEF AdvisoriesSoFar
    <3> QED
      BY <3>1, <3>3, <3>4, <3>5
  <2> QED
    BY <2>1, <2>2, <2>3
<1> QED
  BY <1>1, <1>2, <1>3

(* The feeds of a scan that was served are a pair of editions.               *)
LEMMA ServedIsTyped ==
  ASSUME TypeOK, ServedFromCache, NEW s \in Scans, pc[s] = "served"
  PROVE  got[s] \in [Feeds -> Days]
  BY WarmIsTyped DEF ServedFromCache

(* A scan is at its feeds, and the report follows them at once.              *)
LEMMA FeedStep ==
  ASSUME PipelineIInv, IInv', NEW s \in Scans,
         AwaitFeeds(s) \/ BuildReport(s) \/ FeedsFail(s) \/ CancelFeeds(s)
  PROVE  /\ PipelineTypeOK'
         /\ \A t \in Scans : AdvisoriesSoFar(t)' /\ FeedsSoFar(t)'
<1>0. /\ PipelineTypeOK /\ TypeOK
      /\ \A t \in Scans : AdvisoriesSoFar(t) /\ FeedsSoFar(t)
  BY DEF PipelineIInv, IInv
<1>1. /\ UNCHANGED advisoryVars /\ stage[s] = "feeds"
      /\ Step(s) \/ Cancel(s)
  BY DEF AwaitFeeds, BuildReport, FeedsFail, CancelFeeds, pipelineVars, advisoryVars
<1>2. \/ UNCHANGED <<stage, report>> /\ pc'[s] \notin Ended
      \/ /\ pc'[s] = "served" /\ stage' = [stage EXCEPT ![s] = "reported"]
         /\ report' = [report EXCEPT ![s] = FindingsOf(s, got'[s])]
      \/ stage' = [stage EXCEPT ![s] = "failed"] /\ UNCHANGED report
  BY DEF AwaitFeeds, BuildReport, FeedsFail, CancelFeeds, pipelineVars, Goto
<1>3. \A t \in Scans : t # s => pc'[t] = pc[t] /\ got'[t] = got[t]
  BY <1>0, <1>1, FeedStepIsLocal
<1>4. TypeOK' /\ ServedFromCache'
  BY DEF IInv
<1>5. pc'[s] = "served" => FindingsOf(s, got'[s]) \in SUBSET Findings
  <2>1. pc'[s] = "served" => got'[s] \in [Feeds -> Days]
    BY <1>4 DEF TypeOK, ServedFromCache, Warm
  <2> QED
    BY <1>0, <2>1, FindingsAreTyped DEF PipelineTypeOK
<1>6. PipelineTypeOK'
  BY <1>0, <1>1, <1>2, <1>4, <1>5 DEF PipelineTypeOK, Stages, advisoryVars
<1>7. ASSUME NEW t \in Scans, t # s PROVE AdvisoriesSoFar(t)' /\ FeedsSoFar(t)'
  <2>1. /\ stage'[t] = stage[t] /\ report'[t] = report[t]
        /\ asked'[t] = asked[t] /\ ids'[t] = ids[t] /\ underway'[t] = underway[t]
        /\ fetched'[t] = fetched[t] /\ dropped'[t] = dropped[t]
    BY <1>0, <1>1, <1>2, <1>7 DEF PipelineTypeOK, advisoryVars
  <2> QED
    BY <1>0, <1>3, <1>7, <2>1, AdvisoriesFrame, FeedsFrame
<1>8. AdvisoriesSoFar(s)'
  <2>1. stage'[s] \in {"feeds", "reported", "failed"}
    BY <1>0, <1>1, <1>2 DEF PipelineTypeOK
  <2>2. NamedSoFar(s)' = NamedSoFar(s)
    BY <1>1 DEF NamedSoFar, advisoryVars
  <2> QED
    BY <1>0, <1>1, <2>1, <2>2 DEF AdvisoriesSoFar, advisoryVars
<1>9. FeedsSoFar(s)'
  <2>1. CASE UNCHANGED <<stage, report>> /\ pc'[s] \notin Ended
    BY <1>0, <1>1, <2>1 DEF FeedsSoFar
  <2>2. CASE /\ pc'[s] = "served" /\ stage' = [stage EXCEPT ![s] = "reported"]
             /\ report' = [report EXCEPT ![s] = FindingsOf(s, got'[s])]
    <3>1. FindingsOf(s, got[s])' = FindingsOf(s, got'[s])
      BY <1>1, SameFindings DEF advisoryVars
    <3>2. stage'[s] = "reported" /\ report'[s] = FindingsOf(s, got'[s])
      BY <1>0, <2>2 DEF PipelineTypeOK
    <3> QED
      BY <2>2, <3>1, <3>2 DEF FeedsSoFar
  <2>3. CASE stage' = [stage EXCEPT ![s] = "failed"] /\ UNCHANGED report
    <3>1. stage'[s] = "failed" /\ report'[s] = {}
      BY <1>0, <1>1, <2>3 DEF PipelineTypeOK, FeedsSoFar
    <3> QED
      BY <3>1 DEF FeedsSoFar
  <2> QED
    BY <1>2, <2>1, <2>2, <2>3
<1> QED
  BY <1>6, <1>7, <1>8, <1>9

(* Nothing happens to any scan.                                              *)
LEMMA IdleStep ==
  ASSUME PipelineIInv, IInv', UNCHANGED pipelineVars, UNCHANGED pc, UNCHANGED got
  PROVE  /\ PipelineTypeOK'
         /\ \A t \in Scans : AdvisoriesSoFar(t)' /\ FeedsSoFar(t)'
<1>1. PipelineTypeOK'
  BY DEF PipelineIInv, IInv, PipelineTypeOK, pipelineVars
<1>2. ASSUME NEW t \in Scans PROVE AdvisoriesSoFar(t)' /\ FeedsSoFar(t)'
  BY AdvisoriesFrame, FeedsFrame DEF PipelineIInv, pipelineVars
<1> QED
  BY <1>1, <1>2

(* The invariant is kept by every step.                                      *)
LEMMA PipelineIInvStep == PipelineIInv /\ [PipelineNext]_allVars => PipelineIInv'
<1> SUFFICES ASSUME PipelineIInv, [PipelineNext]_allVars PROVE PipelineIInv'
  OBVIOUS
<1>1. IInv' /\ LoadsSoFar'
  BY CacheStep, IInvStep, LoadsSoFarStep DEF PipelineIInv
<1> DEFINE Rest == /\ PipelineTypeOK'
                   /\ \A t \in Scans : AdvisoriesSoFar(t)' /\ FeedsSoFar(t)'
<1>2. ASSUME NEW s \in Scans,
             \/ QueryBatch(s) \/ QueryFails(s) \/ Gather(s) \/ AdvisoriesDone(s)
             \/ CancelFetches(s)
             \/ \E v \in Vulns :
                  Fetched1(s, v) \/ Drop(s, v) \/ FetchRaises(s, v) \/ StrayEnds(s, v)
      PROVE  Rest
  <2>1. PipelineTypeOK /\ TypeOK'
    BY <1>1 DEF PipelineIInv, IInv
  <2> QED
    BY <1>2, <2>1, AdvisoryTypeStep, AdvisoryStep
<1>3. ASSUME NEW s \in Scans,
             AwaitFeeds(s) \/ BuildReport(s) \/ FeedsFail(s) \/ CancelFeeds(s)
      PROVE  Rest
  BY <1>1, <1>3, FeedStep
<1>4. ASSUME UNCHANGED allVars \/ (NextDay /\ UNCHANGED pipelineVars) PROVE Rest
  <2>1. UNCHANGED pipelineVars /\ UNCHANGED pc /\ UNCHANGED got
    BY <1>4 DEF allVars, vars, NextDay
  <2> QED
    BY <1>1, <2>1, IdleStep
<1> HIDE DEF Rest
<1>5. Rest
  <2>1. ASSUME NEW s \in Scans, Proceed(s) \/ CancelFetches(s) \/ CancelFeeds(s) PROVE Rest
    BY <1>2, <1>3, <2>1 DEF Proceed
  <2> QED
    BY <1>4, <2>1 DEF PipelineNext, PipelineOver
<1> QED
  BY <1>1, <1>5 DEF PipelineIInv, Rest

(* The invariant holds in every reachable state.                             *)
THEOREM PipelineIInvHolds == PipelineSpec => []PipelineIInv
  BY PipelineIInvInit, PipelineIInvStep, PTL DEF PipelineSpec

(* The types hold, and only failed scans leave fetches behind.               *)
THEOREM PipelineTypeCorrect == PipelineSpec => []PipelineTypeOK
<1>1. PipelineIInv => PipelineTypeOK
  BY DEF PipelineIInv
<1> QED
  BY <1>1, PipelineIInvHolds, PTL

----------------------------------------------------------------------------
(* What a report says.                                                       *)

(* An affected package is found at its first dependency and first entry.     *)
LEMMA AffectedIsFound ==
  ASSUME NEW s \in Scans, fetched[s] \in SUBSET Vulns, NEW v \in fetched[s],
         NEW k \in AffectedKeys(s, v)
  PROVE  \E m \in Candidates(s) : ~Seen(s, m) /\ Key(s, m.d) = k /\ m.v = v
<1> DEFINE Ds == {d \in DOMAIN Lockfile[s] : Key(s, d) = k}
           Es == {e \in DOMAIN Affected[v] : k \in Affected[v][e]}
<1>1. Ds \in SUBSET Nat /\ Es \in SUBSET Nat
  <2>1. Lockfile[s] \in Seq(Deps) /\ Affected[v] \in Seq(SUBSET Keys)
    BY PipelineAssumption
  <2> QED
    BY <2>1
<1>2. Ds # {} /\ Es # {}
  BY DEF AffectedKeys, Key
<1>3. PICK d \in Ds : \A n \in Ds : d <= n
  BY <1>1, <1>2, FirstExists
<1>4. PICK e \in Es : \A n \in Es : e <= n
  BY <1>1, <1>2, FirstExists
<1> DEFINE m == [d |-> d, v |-> v, e |-> e]
<1>5. m \in Candidates(s)
  BY IsCandidate
<1>6. ~Seen(s, m)
  <2> SUFFICES ASSUME NEW n \in Candidates(s), Key(s, n.d) = k, n.v = v,
                      n.d < d \/ (n.d = d /\ n.e < e)
               PROVE  FALSE
    BY DEF Seen
  <2>1. n.d \in Ds /\ n.e \in Es
    BY CandidateIs
  <2>2. d <= n.d /\ e <= n.e
    BY <1>3, <1>4, <2>1
  <2> QED
    BY <1>1, <2>1, <2>2
<1> QED
  BY <1>5, <1>6

(* Two places of one package and one advisory: the later one is seen.        *)
LEMMA OnceEach ==
  ASSUME NEW s \in Scans, fetched[s] \in SUBSET Vulns,
         NEW m \in Candidates(s), NEW n \in Candidates(s),
         ~Seen(s, m), ~Seen(s, n), Key(s, m.d) = Key(s, n.d), m.v = n.v
  PROVE  m = n
<1>1. /\ m = [d |-> m.d, v |-> m.v, e |-> m.e] /\ m.d \in Nat /\ m.e \in Nat
      /\ n = [d |-> n.d, v |-> n.v, e |-> n.e] /\ n.d \in Nat /\ n.e \in Nat
  BY CandidateIs
<1>2. ~(n.d < m.d \/ (n.d = m.d /\ n.e < m.e))
  BY DEF Seen
<1>3. ~(m.d < n.d \/ (m.d = n.d /\ m.e < n.e))
  BY DEF Seen
<1>4. m.d = n.d /\ m.e = n.e
  BY <1>1, <1>2, <1>3
<1> QED
  BY <1>1, <1>4

(* A report has every affected package of every advisory that was had, once, *)
(* and nothing else; and every advisory OSV named was had or dropped.        *)
THEOREM ReportsAreComplete == PipelineSpec => []ReportIsComplete
<1>1. PipelineIInv => ReportIsComplete
  <2> SUFFICES ASSUME PipelineIInv, NEW s \in Scans, stage[s] = "reported"
               PROVE  /\ fetched[s] \cup dropped[s] = Named(s)
                      /\ \A v \in Vulns :
                           {f.key : f \in {g \in report[s] : g.id = v}} =
                             IF v \in fetched[s] THEN AffectedKeys(s, v) ELSE {}
                      /\ \A f, g \in report[s] : f.key = g.key /\ f.id = g.id => f = g
    BY DEF ReportIsComplete
  <2>1. /\ PipelineTypeOK /\ TypeOK /\ ServedFromCache
        /\ AdvisoriesSoFar(s) /\ FeedsSoFar(s)
    BY DEF PipelineIInv, IInv
  <2>2. fetched[s] \in SUBSET Vulns /\ underway[s] = {} /\ asked[s] \in Nat
    BY <2>1 DEF PipelineTypeOK
  <2>3. pc[s] = "served" /\ report[s] = FindingsOf(s, got[s])
    BY <2>1 DEF FeedsSoFar
  <2>4. got[s] \in [Feeds -> Days]
    BY <2>1, <2>3, ServedIsTyped
  <2>5. fetched[s] \cup dropped[s] = Named(s)
    <3>1. {i \in DOMAIN Lockfile[s] : i <= asked[s]} = DOMAIN Lockfile[s]
      <4>1. Lockfile[s] \in Seq(Deps) /\ Len(Lockfile[s]) <= asked[s]
        BY <2>1, PipelineAssumption DEF AdvisoriesSoFar
      <4> QED
        BY <2>2, <4>1
    <3>2. NamedSoFar(s) = Named(s)
      BY <3>1 DEF NamedSoFar, Named
    <3> QED
      BY <2>1, <2>2, <3>2 DEF AdvisoriesSoFar
  <2>6. \A f \in report[s] : \E m \in Candidates(s) :
          ~Seen(s, m) /\ f = FindingOf(s, m, got[s]) /\ f.key = Key(s, m.d) /\ f.id = m.v
    BY <2>2, <2>3, <2>4, FindingIsTyped DEF FindingsOf
  <2>7. ASSUME NEW v \in Vulns
        PROVE  {f.key : f \in {g \in report[s] : g.id = v}} =
                 IF v \in fetched[s] THEN AffectedKeys(s, v) ELSE {}
    <3>1. ASSUME NEW f \in report[s], f.id = v
          PROVE  v \in fetched[s] /\ f.key \in AffectedKeys(s, v)
      <4>1. PICK m \in Candidates(s) : f.key = Key(s, m.d) /\ f.id = m.v
        BY <2>6
      <4> QED
        BY <2>2, <3>1, <4>1, CandidateIs DEF AffectedKeys, Key
    <3>2. ASSUME v \in fetched[s], NEW k \in AffectedKeys(s, v)
          PROVE  \E f \in report[s] : f.id = v /\ f.key = k
      <4>1. PICK m \in Candidates(s) : ~Seen(s, m) /\ Key(s, m.d) = k /\ m.v = v
        BY <2>2, <3>2, AffectedIsFound
      <4>2. FindingOf(s, m, got[s]) \in report[s]
        BY <2>3, <4>1 DEF FindingsOf
      <4> QED
        BY <2>2, <2>4, <4>1, <4>2, FindingIsTyped
    <3> QED
      BY <3>1, <3>2
  <2>8. ASSUME NEW f \in report[s], NEW g \in report[s], f.key = g.key, f.id = g.id
        PROVE  f = g
    BY <2>2, <2>6, <2>8, OnceEach
  <2> QED
    BY <2>5, <2>7, <2>8
<1> QED
  BY <1>1, PipelineIInvHolds, PTL

(* What a listing and a direct dependency weigh.                             *)
LEMMA RankIsSum ==
  ASSUME NEW kev \in BOOLEAN, NEW epss \in 0 .. 100, NEW severity \in 0 .. 4,
         NEW direct \in BOOLEAN, NEW rank,
         rank = (IF kev THEN 2000 ELSE 0) + 2 * epss + 2 * severity + (IF direct THEN 1 ELSE 0)
  PROVE  \E k \in {0, 2000}, x \in {0, 1} :
           /\ k = 2000 <=> kev
           /\ x = 1 <=> direct
           /\ rank = k + 2 * epss + 2 * severity + x
<1> DEFINE Sum == \E k \in {0, 2000}, x \in {0, 1} :
                    /\ k = 2000 <=> kev
                    /\ x = 1 <=> direct
                    /\ rank = k + 2 * epss + 2 * severity + x
<1>1. ASSUME kev, direct PROVE Sum
  BY <1>1
<1>2. ASSUME kev, ~direct PROVE Sum
  BY <1>2
<1>3. ASSUME ~kev, direct PROVE Sum
  BY <1>3
<1>4. ASSUME ~kev, ~direct PROVE Sum
  BY <1>4
<1>5. Sum
  <2> HIDE DEF Sum
  <2> QED
    BY <1>1, <1>2, <1>3, <1>4
<1> QED
  BY <1>5

(* The order of two ranks.                                                   *)
LEMMA RankOrder ==
  ASSUME NEW f \in Findings, NEW g \in Findings,
         f.rank = Rank(f.kev, f.epss, f.severity, f.direct),
         g.rank = Rank(g.kev, g.epss, g.severity, g.direct)
  PROVE  /\ f.kev /\ ~g.kev => f.rank > g.rank
         /\ AsPressing(f, g) /\ Signals(f) # Signals(g) => f.rank > g.rank
<1>0. /\ f.rank = (IF f.kev THEN 2000 ELSE 0) + 2 * f.epss + 2 * f.severity
                     + (IF f.direct THEN 1 ELSE 0)
      /\ g.rank = (IF g.kev THEN 2000 ELSE 0) + 2 * g.epss + 2 * g.severity
                     + (IF g.direct THEN 1 ELSE 0)
  BY DEF Rank
<1>1. /\ f.epss \in 0 .. 100 /\ g.epss \in 0 .. 100
      /\ f.severity \in 0 .. 4 /\ g.severity \in 0 .. 4
  BY DEF Findings, Scores
<1>2. /\ f.kev \in BOOLEAN /\ g.kev \in BOOLEAN
      /\ f.direct \in BOOLEAN /\ g.direct \in BOOLEAN
  BY DEF Findings
<1>3. PICK k \in {0, 2000}, x \in {0, 1} :
         /\ k = 2000 <=> f.kev
         /\ x = 1 <=> f.direct
         /\ f.rank = k + 2 * f.epss + 2 * f.severity + x
  BY <1>0, <1>1, <1>2, RankIsSum
<1>4. PICK l \in {0, 2000}, y \in {0, 1} :
         /\ l = 2000 <=> g.kev
         /\ y = 1 <=> g.direct
         /\ g.rank = l + 2 * g.epss + 2 * g.severity + y
  BY <1>0, <1>1, <1>2, RankIsSum
<1>5. PICK e \in 0 .. 100, a \in 0 .. 4 : e = f.epss /\ a = f.severity
  BY <1>1
<1>6. PICK h \in 0 .. 100, b \in 0 .. 4 : h = g.epss /\ b = g.severity
  BY <1>1
<1>7. f.rank = k + 2 * e + 2 * a + x /\ g.rank = l + 2 * h + 2 * b + y
  BY <1>3, <1>4, <1>5, <1>6
<1>8. k > l => k + 2 * e + 2 * a + x > l + 2 * h + 2 * b + y
  OBVIOUS
<1>9. k = l /\ x >= y /\ e >= h /\ a >= b /\ ~(e = h /\ a = b /\ x = y)
         => k + 2 * e + 2 * a + x > l + 2 * h + 2 * b + y
  OBVIOUS
<1>10. /\ k > l => f.rank > g.rank
       /\ k = l /\ x >= y /\ e >= h /\ a >= b /\ ~(e = h /\ a = b /\ x = y)
            => f.rank > g.rank
  BY <1>7, <1>8, <1>9
<1>11. ASSUME f.kev, ~g.kev PROVE f.rank > g.rank
  <2>1. k > l
    BY <1>3, <1>4, <1>11
  <2> QED
    BY <1>10, <2>1
<1>12. ASSUME AsPressing(f, g), Signals(f) # Signals(g) PROVE f.rank > g.rank
  <2>1. f.epss >= g.epss /\ f.severity >= g.severity
    BY <1>12 DEF AsPressing
  <2>2. (g.kev => f.kev) /\ (g.direct => f.direct)
    BY <1>12 DEF AsPressing
  <2>3. k >= l /\ x >= y
    BY <1>3, <1>4, <2>2
  <2>4. ASSUME k = l, x = y, f.epss = g.epss, f.severity = g.severity PROVE FALSE
    <3>1. (f.kev <=> g.kev) /\ (f.direct <=> g.direct)
      BY <1>3, <1>4, <2>4
    <3>2. f.kev = g.kev /\ f.direct = g.direct
      BY <1>2, <3>1
    <3> QED
      BY <1>12, <2>4, <3>2 DEF Signals
  <2> QED
    BY <1>5, <1>6, <1>10, <2>1, <2>3, <2>4
<1> QED
  BY <1>11, <1>12

(* The reports of a process are in one order, with what CISA lists on top    *)
(* and nothing below what is less pressing in every way.                     *)
THEOREM ReportsAreRanked == PipelineSpec => []RankedByRisk
<1>1. PipelineIInv => RankedByRisk
  <2> SUFFICES ASSUME PipelineIInv, NEW s \in Scans, NEW t \in Scans,
                      NEW f \in report[s], NEW g \in report[t]
               PROVE  /\ f.id = g.id => f.kev = g.kev /\ f.epss = g.epss
                      /\ f.kev /\ ~g.kev => f.rank > g.rank
                      /\ AsPressing(f, g) /\ Signals(f) # Signals(g) => f.rank > g.rank
    BY DEF RankedByRisk
  <2>1. /\ PipelineTypeOK /\ TypeOK /\ ServedFromCache
        /\ \A u \in Scans : FeedsSoFar(u) /\ fetched[u] \in SUBSET Vulns
    BY DEF PipelineIInv, PipelineTypeOK, IInv
  <2>2. /\ pc[s] = "served" /\ report[s] = FindingsOf(s, got[s])
        /\ pc[t] = "served" /\ report[t] = FindingsOf(t, got[t])
    BY <2>1 DEF FeedsSoFar
  <2>3. got[s] = got[t] /\ got[s] \in [Feeds -> Days]
    BY <2>1, <2>2, ServedIsTyped DEF ServedFromCache
  <2>4. /\ f.kev = KevListed(f.id, got[s]["kev"])
        /\ f.epss = EpssOf(f.id, got[s]["epss"])
        /\ f \in Findings /\ f.rank = Rank(f.kev, f.epss, f.severity, f.direct)
    <3>1. PICK m \in Candidates(s) : f = FindingOf(s, m, got[s])
      BY <2>2 DEF FindingsOf
    <3> QED
      BY <2>1, <2>3, <3>1, FindingIsTyped
  <2>5. /\ g.kev = KevListed(g.id, got[s]["kev"])
        /\ g.epss = EpssOf(g.id, got[s]["epss"])
        /\ g \in Findings /\ g.rank = Rank(g.kev, g.epss, g.severity, g.direct)
    <3>1. PICK m \in Candidates(t) : g = FindingOf(t, m, got[t])
      BY <2>2 DEF FindingsOf
    <3> QED
      BY <2>1, <2>3, <3>1, FindingIsTyped
  <2>6. f.id = g.id => f.kev = g.kev /\ f.epss = g.epss
    BY <2>4, <2>5
  <2> QED
    BY <2>4, <2>5, <2>6, RankOrder
<1> QED
  BY <1>1, PipelineIInvHolds, PTL

----------------------------------------------------------------------------
(* Concurrent scans answer like atomic ones.                                 *)

(* The first place of a package is one of its places, and the least.         *)
LEMMA PlaceIsFirst ==
  ASSUME NEW s \in Scans, NEW v \in Vulns, NEW k \in AffectedKeys(s, v)
  PROVE  /\ FirstDep(s, k) \in DOMAIN Lockfile[s] /\ Key(s, FirstDep(s, k)) = k
         /\ \A n \in DOMAIN Lockfile[s] : Key(s, n) = k => FirstDep(s, k) <= n
         /\ FirstEntry(v, k) \in DOMAIN Affected[v] /\ k \in Affected[v][FirstEntry(v, k)]
         /\ \A n \in DOMAIN Affected[v] : k \in Affected[v][n] => FirstEntry(v, k) <= n
<1> DEFINE Ds == {d \in DOMAIN Lockfile[s] : Key(s, d) = k}
           Es == {e \in DOMAIN Affected[v] : k \in Affected[v][e]}
<1>1. Ds \in SUBSET Nat /\ Es \in SUBSET Nat
  <2>1. Lockfile[s] \in Seq(Deps) /\ Affected[v] \in Seq(SUBSET Keys)
    BY PipelineAssumption
  <2> QED
    BY <2>1
<1>2. Ds # {} /\ Es # {}
  BY DEF AffectedKeys, Key
<1>3. \E d \in DOMAIN Lockfile[s] :
        Key(s, d) = k /\ \A n \in DOMAIN Lockfile[s] : Key(s, n) = k => d <= n
  <2>1. PICK d \in Ds : \A n \in Ds : d <= n
    BY <1>1, <1>2, FirstExists
  <2> QED
    BY <2>1
<1>4. \E e \in DOMAIN Affected[v] :
        k \in Affected[v][e] /\ \A n \in DOMAIN Affected[v] : k \in Affected[v][n] => e <= n
  <2>1. PICK e \in Es : \A n \in Es : e <= n
    BY <1>1, <1>2, FirstExists
  <2> QED
    BY <2>1
<1> QED
  BY <1>3, <1>4 DEF FirstDep, FirstEntry

(* match() reports a package for an advisory at its first place.             *)
LEMMA UnseenIsFirst ==
  ASSUME NEW s \in Scans, fetched[s] \in SUBSET Vulns, NEW m \in Candidates(s), ~Seen(s, m)
  PROVE  /\ Key(s, m.d) \in AffectedKeys(s, m.v)
         /\ m = PlaceOf(s, m.v, Key(s, m.d))
<1> DEFINE k == Key(s, m.d)
<1>1. /\ m.d \in DOMAIN Lockfile[s] /\ m.v \in fetched[s] /\ m.v \in Vulns
      /\ m.e \in DOMAIN Affected[m.v] /\ k \in Affected[m.v][m.e]
      /\ m = [d |-> m.d, v |-> m.v, e |-> m.e] /\ m.d \in Nat /\ m.e \in Nat
  BY CandidateIs
<1>2. k \in AffectedKeys(s, m.v)
  BY <1>1 DEF AffectedKeys, Key
<1> DEFINE n == PlaceOf(s, m.v, k)
<1>3. /\ n.d = FirstDep(s, k) /\ n.v = m.v /\ n.e = FirstEntry(m.v, k)
      /\ n = [d |-> n.d, v |-> n.v, e |-> n.e]
  BY DEF PlaceOf
<1>4. /\ n.d \in DOMAIN Lockfile[s] /\ Key(s, n.d) = k /\ n.d <= m.d
      /\ n.e \in DOMAIN Affected[m.v] /\ k \in Affected[m.v][n.e] /\ n.e <= m.e
  BY <1>1, <1>2, <1>3, PlaceIsFirst
<1>5. n \in Candidates(s)
  BY <1>1, <1>3, <1>4, IsCandidate
<1>6. n.d \in Nat /\ n.e \in Nat
  BY <1>5, CandidateIs
<1>7. ~(n.d < m.d \/ (n.d = m.d /\ n.e < m.e))
  BY <1>3, <1>4, <1>5 DEF Seen
<1>8. n.d = m.d /\ n.e = m.e
  BY <1>1, <1>4, <1>6, <1>7
<1> QED
  BY <1>1, <1>2, <1>3, <1>8

(* The loops of match(), with the set of pairs they have seen, compute the   *)
(* report that the service promises.                                         *)
LEMMA FindingsAreAnswer ==
  ASSUME NEW s \in Scans, fetched[s] \in SUBSET Vulns, NEW c
  PROVE  FindingsOf(s, c) = AnswerTo(s, fetched[s], c)
<1>1. ASSUME NEW f \in FindingsOf(s, c) PROVE f \in AnswerTo(s, fetched[s], c)
  <2>1. PICK m \in Candidates(s) : ~Seen(s, m) /\ f = FindingOf(s, m, c)
    BY <1>1 DEF FindingsOf
  <2>2. /\ Key(s, m.d) \in AffectedKeys(s, m.v) /\ m = PlaceOf(s, m.v, Key(s, m.d))
        /\ m.v \in fetched[s]
    BY <2>1, UnseenIsFirst, CandidateIs
  <2> QED
    BY <2>1, <2>2 DEF AnswerTo
<1>2. ASSUME NEW f \in AnswerTo(s, fetched[s], c) PROVE f \in FindingsOf(s, c)
  <2>0. PICK v \in fetched[s] :
          \E k \in AffectedKeys(s, v) : f = FindingOf(s, PlaceOf(s, v, k), c)
    BY <1>2 DEF AnswerTo
  <2>1. PICK k \in AffectedKeys(s, v) : f = FindingOf(s, PlaceOf(s, v, k), c)
    BY <2>0
  <2>2. PICK m \in Candidates(s) : ~Seen(s, m) /\ Key(s, m.d) = k /\ m.v = v
    BY <2>1, AffectedIsFound
  <2>3. m = PlaceOf(s, v, k)
    BY <2>2, UnseenIsFirst
  <2> QED
    BY <2>1, <2>2, <2>3 DEF FindingsOf
<1> QED
  BY <1>1, <1>2

(* What a scan had, OSV answered for its lockfile.                           *)
LEMMA HadIsNamed ==
  ASSUME NEW s \in Scans, AdvisoriesSoFar(s), stage[s] \in {"fetch", "feeds", "reported"}
  PROVE  fetched[s] \in SUBSET Named(s)
<1>1. NamedSoFar(s) \subseteq Named(s)
  BY DEF NamedSoFar, Named
<1> QED
  BY <1>1 DEF AdvisoriesSoFar

(* The edition of the process, as the service sees it.                       *)
Edition == IF Warm THEN cache ELSE None

(* A step of _cached_feeds that serves nobody leaves the edition alone, and  *)
(* one that serves hands out the edition: the old one if there was one.      *)
LEMMA EditionStep ==
  ASSUME IInv, NEW s \in Scans, Step(s) \/ Cancel(s)
  PROVE  /\ pc'[s] # "served" => Edition' = Edition
         /\ pc'[s] = "served" /\ pc[s] \notin Ended =>
              /\ Edition' = got'[s] /\ got'[s] \in [Feeds -> Days]
              /\ Edition # None => Edition' = Edition
<1> DEFINE Goal == /\ pc'[s] # "served" => Edition' = Edition
                   /\ pc'[s] = "served" /\ pc[s] \notin Ended =>
                        /\ Edition' = got'[s] /\ got'[s] \in [Feeds -> Days]
                        /\ Edition # None => Edition' = Edition
<1> USE FeedAssumption DEF IInv, TypeOK, PcStates, Ended, Feeds, Days, Move, Edition, Warm
<1>1. CASE AskForLock(s) \/ DownloadFails(s) \/ Cancel(s)
  BY <1>1 DEF AskForLock, DownloadFails, Cancel, Raise
<1>2. CASE ServeWarm(s)
  BY <1>2, WarmIsTyped DEF ServeWarm
<1>3. CASE Lock(s)
  <2>1. CASE Warm
    BY <1>3, <2>1, WarmIsTyped DEF Lock, Serve
  <2>2. CASE ~Warm
    BY <1>3, <2>2 DEF Lock, Download
  <2> QED
    BY <2>1, <2>2
<1>4. CASE Loaded(s)
  <2>0. ~Warm
    BY <1>4 DEF Loaded, DownloadsAreNeeded
  <2>1. CASE pc[s] = "epss" /\ cache["kev"] = None
    BY <1>4, <2>0, <2>1 DEF Loaded, Download
  <2>2. CASE ~(pc[s] = "epss" /\ cache["kev"] = None)
    <3>1. Warm' /\ cache' \in [Feeds -> Days]
      BY <1>4, <2>2 DEF Loaded, DownloadsAreNeeded
    <3>2. got'[s] = cache' /\ pc'[s] = "served"
      BY <1>4, <2>2, <3>1 DEF Loaded, Serve
    <3> QED
      BY <2>0, <3>1, <3>2
  <2> QED
    BY <2>1, <2>2
<1> QED
  BY <1>1, <1>2, <1>3, <1>4 DEF Step

(* A step that ends the scan s without an answer is the service's Fail.      *)
LEMMA ServiceFail ==
  ASSUME PipelineTypeOK, NEW s \in Scans, stage[s] \notin {"reported", "failed"},
         stage' = [stage EXCEPT ![s] = "failed"], UNCHANGED report, Edition' = Edition
  PROVE  Service!Fail(s)
<1>1. StateOf(s) = "pending" /\ StateOf(s)' = "failed"
  BY DEF StateOf, PipelineTypeOK
<1>2. \A t \in Scans \ {s} : StateOf(t)' = StateOf(t)
  BY DEF StateOf, PipelineTypeOK
<1> QED
  BY <1>1, <1>2 DEF Service!Fail, Edition

(* A step within a scan is none of the service's.                            *)
LEMMA ServiceStutter ==
  ASSUME UNCHANGED report, Edition' = Edition,
         \A t \in Scans : StateOf(t)' = StateOf(t)
  PROVE  UNCHANGED Service!serviceVars
  BY DEF Service!serviceVars, Edition

(* BuildReport is the service's Report, on what was had.                     *)
LEMMA ServiceReport ==
  ASSUME PipelineIInv, NEW s \in Scans, BuildReport(s)
  PROVE  Service!Report(s)
<1>0. /\ PipelineTypeOK /\ IInv /\ AdvisoriesSoFar(s) /\ FeedsSoFar(s)
      /\ stage[s] = "feeds" /\ Step(s) /\ pc'[s] = "served"
      /\ stage' = [stage EXCEPT ![s] = "reported"]
      /\ report' = [report EXCEPT ![s] = FindingsOf(s, got'[s])]
  BY DEF PipelineIInv, BuildReport, Goto
<1>1. /\ Edition' = got'[s] /\ got'[s] \in [Feeds -> Days]
      /\ Edition # None => Edition' = Edition
  BY <1>0, EditionStep DEF FeedsSoFar
<1>2. StateOf(s) = "pending" /\ StateOf(s)' = "answered"
  BY <1>0 DEF StateOf, PipelineTypeOK
<1>3. \A t \in Scans \ {s} : StateOf(t)' = StateOf(t)
  BY <1>0 DEF StateOf, PipelineTypeOK
<1>4. fetched[s] \in SUBSET Named(s) /\ fetched[s] \in SUBSET Vulns
  BY <1>0, HadIsNamed DEF PipelineTypeOK
<1>5. report' = [report EXCEPT ![s] = AnswerTo(s, fetched[s], Edition')]
  BY <1>0, <1>1, <1>4, FindingsAreAnswer
<1>6. Edition' \in IF Edition = None THEN [Feeds -> Days] ELSE {Edition}
  BY <1>1
<1> QED
  BY <1>2, <1>3, <1>4, <1>5, <1>6 DEF Service!Report, Edition

(* Every step of the scans is a step of the service or none.                 *)
LEMMA ServiceStep == PipelineIInv /\ [PipelineNext]_allVars => [Service!Next]_(Service!serviceVars)
<1> SUFFICES ASSUME PipelineIInv, [PipelineNext]_allVars
             PROVE  [Service!Next]_(Service!serviceVars)
  OBVIOUS
<1>0. PipelineTypeOK /\ IInv /\ \A s \in Scans : FeedsSoFar(s)
  BY DEF PipelineIInv
<1>1. CASE UNCHANGED allVars \/ (NextDay /\ UNCHANGED pipelineVars)
  <2>1. UNCHANGED <<stage, report, cache>>
    BY <1>1 DEF allVars, vars, pipelineVars, NextDay
  <2>2. Edition' = Edition /\ \A t \in Scans : StateOf(t)' = StateOf(t)
    BY <2>1 DEF Edition, Warm, StateOf
  <2> QED
    BY <2>1, <2>2, ServiceStutter
<1>2. ASSUME NEW s \in Scans,
             \/ QueryFails(s) \/ CancelFetches(s)
             \/ \E v \in Vulns : FetchRaises(s, v)
      PROVE  Service!Fail(s)
  <2>1. /\ stage[s] \notin {"reported", "failed"} /\ UNCHANGED <<vars, report>>
        /\ stage' = [stage EXCEPT ![s] = "failed"]
    BY <1>2 DEF QueryFails, CancelFetches, FetchRaises, Asking, Goto
  <2>2. Edition' = Edition
    BY <2>1 DEF Edition, Warm, vars
  <2> QED
    BY <1>0, <2>1, <2>2, ServiceFail
<1>3. ASSUME NEW s \in Scans,
             \/ QueryBatch(s) \/ Gather(s) \/ AdvisoriesDone(s)
             \/ \E v \in Vulns : Fetched1(s, v) \/ Drop(s, v) \/ StrayEnds(s, v)
      PROVE  UNCHANGED Service!serviceVars
  <2>1. /\ UNCHANGED <<vars, report>>
        /\ \A t \in Scans : \/ stage'[t] = stage[t]
                            \/ /\ stage[t] \in {"query", "fetch"}
                               /\ stage'[t] \in {"fetch", "feeds"}
    BY <1>0, <1>3
    DEF QueryBatch, Gather, AdvisoriesDone, Fetched1, Drop, StrayEnds, Goto, PipelineTypeOK
  <2>2. Edition' = Edition /\ \A t \in Scans : StateOf(t)' = StateOf(t)
    BY <2>1 DEF Edition, Warm, StateOf, vars
  <2> QED
    BY <2>1, <2>2, ServiceStutter
<1>4. ASSUME NEW s \in Scans, AwaitFeeds(s) PROVE UNCHANGED Service!serviceVars
  <2>1. Step(s) /\ pc'[s] # "served" /\ UNCHANGED <<stage, report>>
    BY <1>4 DEF AwaitFeeds, Ended, pipelineVars
  <2>2. Edition' = Edition /\ \A t \in Scans : StateOf(t)' = StateOf(t)
    BY <1>0, <2>1, EditionStep DEF StateOf
  <2> QED
    BY <2>1, <2>2, ServiceStutter
<1>5. ASSUME NEW s \in Scans, FeedsFail(s) \/ CancelFeeds(s) PROVE Service!Fail(s)
  <2>1. /\ stage[s] = "feeds" /\ UNCHANGED report
        /\ stage' = [stage EXCEPT ![s] = "failed"]
        /\ Step(s) \/ Cancel(s)
    BY <1>5 DEF FeedsFail, CancelFeeds, Goto
  <2>2. pc'[s] # "served"
    BY <1>0, <1>5 DEF FeedsFail, CancelFeeds, Cancel, Raise, Move, IInv, TypeOK
  <2>3. Edition' = Edition
    BY <1>0, <2>1, <2>2, EditionStep
  <2> QED
    BY <1>0, <2>1, <2>3, ServiceFail
<1>6. ASSUME NEW s \in Scans, BuildReport(s) PROVE Service!Report(s)
  BY <1>6, ServiceReport
<1>7. ASSUME NEW s \in Scans, Proceed(s) \/ CancelFetches(s) \/ CancelFeeds(s)
      PROVE  [Service!Next]_(Service!serviceVars)
  BY <1>2, <1>3, <1>4, <1>5, <1>6, <1>7 DEF Proceed, Service!Next
<1> QED
  BY <1>1, <1>7 DEF PipelineNext, PipelineOver

(* No scan has answered, and there is no edition yet.                        *)
LEMMA ServiceInit == PipelineInit => Service!Init
  BY FeedAssumption DEF PipelineInit, Init, Service!Init, Warm, StateOf, Feeds

(* Any number of scans, over any lockfiles, advisories and feeds, answer as  *)
(* atomic scans with one edition would.                                      *)
THEOREM ScansAnswerAtomically == PipelineSpec => ScansAreAtomic
  BY ServiceInit, ServiceStep, PipelineIInvHolds, PTL
  DEF PipelineSpec, ScansAreAtomic, Service!Spec
=============================================================================
