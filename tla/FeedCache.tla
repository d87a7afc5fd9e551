----------------------------- MODULE FeedCache -----------------------------
(* The process-wide cache of the EPSS and KEV feeds: _cached_feeds as it is  *)
(* called by scans that run concurrently on one event loop.                  *)
(*                                                                           *)
(* Sources: src/src/palisade/scanner.py; the downloads are those of          *)
(* enrichment/epss.py and enrichment/kev.py.                                 *)
(*                                                                           *)
(* A step runs from one await to the next.  The feeds are published anew     *)
(* every day, and a download gets that day's edition.                        *)

EXTENDS Naturals, FiniteSets

CONSTANTS Scans,    \* calls of _cached_feeds
          None,     \* Python's None
          MaxDay    \* bound: how many days the process lives

Feeds == {"epss", "kev"}
Days == 0 .. MaxDay

ASSUME FeedAssumption ==
  /\ MaxDay \in Nat
  /\ IsFiniteSet(Scans)
  /\ None \notin Scans /\ None \notin Days /\ None \notin [Feeds -> Days]

VARIABLES
  cache,    \* cache[f]: the day of the edition in _epss_cache or _kev_cache
  holder,   \* who has _feed_lock
  pc,       \* pc[s]: "waiting" for the lock, or downloading the feed named
  got,      \* got[s]: the pair of feeds s was given
  day,      \* today
  loads     \* history: loads[f]: how many downloads of f were started

vars == <<cache, holder, pc, got, day, loads>>

Ended == {"served", "raised"}
PcStates == {"idle", "waiting"} \cup Feeds \cup Ended

Init ==
  /\ cache = [f \in Feeds |-> None]
  /\ holder = None
  /\ pc = [s \in Scans |-> "idle"]
  /\ got = [s \in Scans |-> None]
  /\ day = 0
  /\ loads = [f \in Feeds |-> 0]

(* Both globals are set.                                                     *)
Warm == \A f \in Feeds : cache[f] # None

Move(s, to) == pc' = [pc EXCEPT ![s] = to]

(* The fast path: both feeds are there, and no lock is taken.                *)
ServeWarm(s) ==
  /\ pc[s] = "idle"
  /\ Warm
  /\ Move(s, "served")
  /\ got' = [got EXCEPT ![s] = cache]
  /\ UNCHANGED <<cache, holder, day, loads>>

(* One of them is missing: the lock is asked for.                            *)
AskForLock(s) ==
  /\ pc[s] = "idle"
  /\ ~Warm
  /\ Move(s, "waiting")
  /\ UNCHANGED <<cache, holder, got, day, loads>>

(* Leave _cached_feeds with the pair c, and give the lock back.              *)
Serve(s, c) ==
  /\ Move(s, "served")
  /\ got' = [got EXCEPT ![s] = c]
  /\ holder' = None
  /\ UNCHANGED loads

(* Stay in the locked section and start the download of f.                   *)
Download(s, f) ==
  /\ Move(s, f)
  /\ holder' = s
  /\ loads' = [loads EXCEPT ![f] = @ + 1]
  /\ UNCHANGED got

\* Variant of Lock: whoever waited for the lock starts over.
LockUnchecked(s) ==
  /\ pc[s] = "waiting" /\ holder = None
  /\ Download(s, "epss")
  /\ UNCHANGED <<cache, day>>

(* The lock is had: both feeds are looked at again, and the first that is    *)
(* still missing is downloaded.                                              *)
Lock(s) ==
  /\ pc[s] = "waiting" /\ holder = None
  /\ CASE cache["epss"] = None -> Download(s, "epss")
       [] cache["epss"] # None /\ cache["kev"] = None -> Download(s, "kev")
       [] Warm -> Serve(s, cache)
  /\ UNCHANGED <<cache, day>>

(* A download is done: its feed is cached, and KEV follows EPSS.             *)
Loaded(s) ==
  /\ pc[s] \in Feeds
  /\ cache' = [cache EXCEPT ![pc[s]] = day]
  /\ IF pc[s] = "epss" /\ cache["kev"] = None
     THEN Download(s, "kev")
     ELSE Serve(s, cache')
  /\ UNCHANGED day

(* An exception leaves _cached_feeds; what is cached stays.                  *)
Raise(s) ==
  /\ Move(s, "raised")
  /\ UNCHANGED <<cache, got, day, loads>>

\* Variant of DownloadFails: the lock is not given back.
DownloadFailsWithLock(s) ==
  /\ pc[s] \in Feeds
  /\ Raise(s)
  /\ UNCHANGED holder

(* The download fails or times out, and `async with` gives the lock back.    *)
DownloadFails(s) ==
  /\ pc[s] \in Feeds
  /\ Raise(s)
  /\ holder' = None

(* The scan is cancelled while it waits for the lock or for a download.      *)
Cancel(s) ==
  /\ pc[s] \in Feeds \cup {"waiting"}
  /\ Raise(s)
  /\ holder' = IF pc[s] \in Feeds THEN None ELSE holder

(* The sources publish new editions.                                         *)
NextDay ==
  /\ day < MaxDay
  /\ day' = day + 1
  /\ UNCHANGED <<cache, holder, pc, got, loads>>

Over == (\A s \in Scans : pc[s] \in Ended) /\ UNCHANGED vars

Step(s) ==
  ServeWarm(s) \/ AskForLock(s) \/ Lock(s) \/ Loaded(s) \/ DownloadFails(s)

Next == NextDay \/ (\E s \in Scans : Step(s) \/ Cancel(s)) \/ Over

Spec == Init /\ [][Next]_vars

----------------------------------------------------------------------------

TypeOK ==
  /\ cache \in [Feeds -> Days \cup {None}]
  /\ holder \in Scans \cup {None}
  /\ pc \in [Scans -> PcStates]
  /\ got \in [Scans -> {None} \cup [Feeds -> Days]]
  /\ day \in Days
  /\ loads \in [Feeds -> Nat]

(* All scans of a process rank by the same two editions, although each looks *)
(* at the cache without the lock, waits, and looks again; nobody gets half a *)
(* pair.                                                                     *)
ScansAgree ==
  \A s, t \in Scans :
    pc[s] = "served" /\ pc[t] = "served" =>
      got[s] = got[t] /\ \A f \in Feeds : got[s][f] # None

(* A cold start is no stampede: a feed is downloaded once, and once more for *)
(* every scan that raised; a failure after EPSS does not fetch EPSS again.   *)
Raised == {s \in Scans : pc[s] = "raised"}
NoStampede == \A f \in Feeds : loads[f] <= 1 + Cardinality(Raised)

----------------------------------------------------------------------------
(* What makes ScansAgree inductive: one scan at a time is in the locked      *)
(* section, a feed is downloaded only while it is not cached, EPSS before    *)
(* KEV, and what a scan was served is still what is cached.                  *)
LockIsExclusive == \A s \in Scans : pc[s] \in Feeds <=> holder = s

DownloadsAreNeeded ==
  \A s \in Scans :
    /\ pc[s] \in Feeds => cache[pc[s]] = None
    /\ pc[s] = "kev" => cache["epss"] # None

ServedFromCache ==
  \A s \in Scans : pc[s] = "served" => Warm /\ got[s] = cache

(* And NoStampede: a download that did not raise is running or is cached.    *)
Fetched(f) == cache[f] # None \/ \E s \in Scans : pc[s] = f
LoadsSoFar ==
  \A f \in Feeds : loads[f] <= Cardinality(Raised) + (IF Fetched(f) THEN 1 ELSE 0)

IInv == TypeOK /\ LockIsExclusive /\ DownloadsAreNeeded /\ ServedFromCache
=============================================================================
