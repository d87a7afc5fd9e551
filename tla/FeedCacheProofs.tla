--------------------------- MODULE FeedCacheProofs ---------------------------
(* Proofs about FeedCache, for any number of scans and of days.              *)
EXTENDS FeedCache, FiniteSetTheorems, TLAPS

(* Nothing is cached, and nobody has asked.                                  *)
LEMMA IInvInit == Init => IInv
  BY FeedAssumption
  DEF Init, IInv, TypeOK, PcStates, Ended, Feeds, Days, LockIsExclusive,
      DownloadsAreNeeded, ServedFromCache

(* A pair that is complete is a pair of editions.                            *)
LEMMA WarmIsTyped ==
  ASSUME TypeOK, Warm
  PROVE  cache \in [Feeds -> Days]
  BY DEF TypeOK, Warm

(* Each step keeps the lock with one scan, and the cache as it was served.   *)
LEMMA IInvStep == IInv /\ [Next]_vars => IInv'
<1> SUFFICES ASSUME IInv, [Next]_vars PROVE IInv'
  OBVIOUS
<1> USE FeedAssumption, WarmIsTyped
    DEF IInv, TypeOK, PcStates, Ended, Feeds, Days, Move, Warm
<1>1. ASSUME NEW s \in Scans, ServeWarm(s) PROVE IInv'
  BY <1>1 DEF ServeWarm, LockIsExclusive, DownloadsAreNeeded, ServedFromCache
<1>2. ASSUME NEW s \in Scans, AskForLock(s) PROVE IInv'
  BY <1>2 DEF AskForLock, LockIsExclusive, DownloadsAreNeeded, ServedFromCache
<1>3. ASSUME NEW s \in Scans, Lock(s) PROVE IInv'
  <2>1. CASE Warm
    BY <1>3, <2>1 DEF Lock, Serve, LockIsExclusive, DownloadsAreNeeded, ServedFromCache
  <2>2. CASE ~Warm
    <3>1. PICK f \in Feeds : /\ Download(s, f) /\ cache[f] = None
                             /\ f = "kev" => cache["epss"] # None
      BY <1>3, <2>2 DEF Lock
    <3>2. holder = None /\ UNCHANGED <<cache, day>>
      BY <1>3 DEF Lock
    <3>3. \A t \in Scans : pc[t] \notin Feeds /\ pc[t] # "served"
      BY <2>2, <3>2 DEF LockIsExclusive, ServedFromCache
    <3>4. TypeOK'
      BY <3>1, <3>2 DEF Download
    <3> QED
      BY <3>1, <3>2, <3>3, <3>4
      DEF Download, LockIsExclusive, DownloadsAreNeeded, ServedFromCache
  <2> QED
    BY <2>1, <2>2
<1>4. ASSUME NEW s \in Scans, Loaded(s) PROVE IInv'
  <2>1. holder = s /\ \A t \in Scans \ {s} : pc[t] \notin Feeds
    BY <1>4 DEF Loaded, LockIsExclusive
  <2>2. \A t \in Scans : pc[t] # "served"
    BY <1>4 DEF Loaded, DownloadsAreNeeded, ServedFromCache
  <2>3. CASE pc[s] = "epss" /\ cache["kev"] = None
    BY <1>4, <2>1, <2>2, <2>3
    DEF Loaded, Download, LockIsExclusive, DownloadsAreNeeded, ServedFromCache
  <2>4. CASE ~(pc[s] = "epss" /\ cache["kev"] = None)
    <3>1. Warm' /\ cache' \in [Feeds -> Days]
      BY <1>4, <2>4 DEF Loaded, Serve, DownloadsAreNeeded
    <3>2. /\ pc' = [pc EXCEPT ![s] = "served"]
          /\ got' = [got EXCEPT ![s] = cache']
          /\ holder' = None /\ UNCHANGED <<day, loads>>
      BY <1>4, <2>4 DEF Loaded, Serve
    <3>3. TypeOK'
      BY <3>1, <3>2
    <3>4. LockIsExclusive' /\ DownloadsAreNeeded'
      BY <2>1, <3>2 DEF LockIsExclusive, DownloadsAreNeeded
    <3>5. ServedFromCache'
      BY <2>2, <3>1, <3>2 DEF ServedFromCache
    <3> QED
      BY <3>3, <3>4, <3>5
  <2> QED
    BY <2>3, <2>4
<1>5. ASSUME NEW s \in Scans, DownloadFails(s) \/ Cancel(s) PROVE IInv'
  BY <1>5
  DEF DownloadFails, Cancel, Raise, LockIsExclusive, DownloadsAreNeeded, ServedFromCache
<1>6. ASSUME NextDay PROVE IInv'
  BY <1>6 DEF NextDay, LockIsExclusive, DownloadsAreNeeded, ServedFromCache
<1>7. CASE UNCHANGED vars
  BY <1>7 DEF vars, LockIsExclusive, DownloadsAreNeeded, ServedFromCache
<1> QED
  BY <1>1, <1>2, <1>3, <1>4, <1>5, <1>6, <1>7 DEF Next, Step, Over

(* The inductive invariant holds in every reachable state.                   *)
THEOREM IInvHolds == Spec => []IInv
  BY IInvInit, IInvStep, PTL DEF Spec

(* A scan is given a pair of editions, and never None in place of one.       *)
THEOREM TypeCorrect == Spec => []TypeOK
<1>1. IInv => TypeOK
  BY DEF IInv
<1> QED
  BY <1>1, IInvHolds, PTL

(* All scans of a process, however they race, fail and are cancelled, rank   *)
(* by the same two editions.                                                 *)
THEOREM FeedsAreShared == Spec => []ScansAgree
<1>1. IInv => ScansAgree
  BY DEF IInv, ServedFromCache, ScansAgree, Warm
<1> QED
  BY <1>1, IInvHolds, PTL

----------------------------------------------------------------------------
(* The number of downloads.                                                  *)

(* The scans that raised are finitely many, and one more raising adds one.   *)
LEMMA RaisedCount ==
  ASSUME TypeOK, TypeOK'
  PROVE  /\ Cardinality(Raised) \in Nat
         /\ Raised' = Raised => Cardinality(Raised)' = Cardinality(Raised)
         /\ \A s \in Scans : s \notin Raised /\ Raised' = Raised \cup {s}
              => Cardinality(Raised)' = Cardinality(Raised) + 1
<1>1. IsFiniteSet(Raised)
  BY FeedAssumption, FS_Subset DEF Raised
<1> QED
  BY <1>1, FS_CardinalityType, FS_AddElement

(* A download starts only if its feed is neither cached nor on its way, and  *)
(* it ends with the feed cached or with its scan raising.                    *)
LEMMA LoadsSoFarStep ==
  ASSUME IInv, IInv', LoadsSoFar, [Next]_vars
  PROVE  LoadsSoFar'
<1> USE FeedAssumption, RaisedCount DEF IInv, TypeOK, Feeds, Move
<1>1. ASSUME NEW s \in Scans, ServeWarm(s) \/ AskForLock(s) PROVE LoadsSoFar'
  <2>1. Raised' = Raised
    BY <1>1 DEF ServeWarm, AskForLock, Raised
  <2>2. \A f \in Feeds : Fetched(f)' <=> Fetched(f)
    BY <1>1 DEF ServeWarm, AskForLock, Fetched
  <2> QED
    BY <1>1, <2>1, <2>2 DEF ServeWarm, AskForLock, LoadsSoFar
<1>2. ASSUME NEW s \in Scans, Lock(s) PROVE LoadsSoFar'
  <2>1. Raised' = Raised /\ cache' = cache
    <3>1. \E to \in Feeds \cup {"served"} : pc' = [pc EXCEPT ![s] = to]
      BY <1>2 DEF Lock, Download, Serve, Warm
    <3> QED
      BY <1>2, <3>1 DEF Lock, Raised
  <2>2. \A t \in Scans : pc[t] \notin Feeds
    BY <1>2 DEF Lock, LockIsExclusive
  <2>3. \A f \in Feeds : Fetched(f) => Fetched(f)'
    BY <2>1, <2>2 DEF Fetched
  <2>4. CASE Warm
    BY <1>2, <2>1, <2>3, <2>4 DEF Lock, Serve, Warm, LoadsSoFar
  <2>5. CASE ~Warm
    <3>1. PICK f \in Feeds : Download(s, f) /\ cache[f] = None
      BY <1>2, <2>5 DEF Lock, Warm
    <3>2. ~Fetched(f) /\ Fetched(f)'
      BY <2>2, <3>1 DEF Download, Fetched
    <3> QED
      BY <2>1, <2>3, <3>1, <3>2 DEF Download, LoadsSoFar
  <2> QED
    BY <2>4, <2>5
<1>3. ASSUME NEW s \in Scans, Loaded(s) PROVE LoadsSoFar'
  <2>1. Raised' = Raised
    BY <1>3 DEF Loaded, Download, Serve, Raised
  <2>2. \A t \in Scans \ {s} : pc[t] \notin Feeds
    BY <1>3 DEF Loaded, LockIsExclusive
  <2>3. cache'[pc[s]] # None /\ \A f \in Feeds : cache[f] # None => cache'[f] # None
    BY <1>3 DEF Loaded, Days
  <2>4. \A f \in Feeds : Fetched(f) => Fetched(f)'
    BY <2>2, <2>3 DEF Fetched
  <2>5. CASE pc[s] = "epss" /\ cache["kev"] = None
    <3>1. ~Fetched("kev") /\ Fetched("kev")'
      BY <1>3, <2>2, <2>5 DEF Loaded, Download, Fetched
    <3> QED
      BY <1>3, <2>1, <2>4, <2>5, <3>1 DEF Loaded, Download, LoadsSoFar
  <2>6. CASE ~(pc[s] = "epss" /\ cache["kev"] = None)
    BY <1>3, <2>1, <2>4, <2>6 DEF Loaded, Serve, LoadsSoFar
  <2> QED
    BY <2>5, <2>6
<1>4. ASSUME NEW s \in Scans, DownloadFails(s) \/ Cancel(s) PROVE LoadsSoFar'
  <2>1. s \notin Raised /\ Raised' = Raised \cup {s}
    BY <1>4 DEF DownloadFails, Cancel, Raise, Raised
  <2>2. \A f \in Feeds : Fetched(f) => Fetched(f)' \/ pc[s] = f
    BY <1>4 DEF DownloadFails, Cancel, Raise, Fetched
  <2> QED
    BY <1>4, <2>1, <2>2 DEF DownloadFails, Cancel, Raise, LoadsSoFar
<1>5. CASE NextDay \/ UNCHANGED vars
  <2>1. Raised' = Raised /\ \A f \in Feeds : Fetched(f)' <=> Fetched(f)
    BY <1>5 DEF NextDay, vars, Raised, Fetched
  <2> QED
    BY <1>5, <2>1 DEF NextDay, vars, LoadsSoFar
<1> QED
  BY <1>1, <1>2, <1>3, <1>4, <1>5 DEF Next, Step, Over

(* Before anyone asks there is no download.                                  *)
LEMMA LoadsSoFarInit == Init => LoadsSoFar
<1> SUFFICES ASSUME Init PROVE LoadsSoFar
  OBVIOUS
<1>1. IsFiniteSet(Raised)
  BY FeedAssumption, FS_Subset DEF Raised
<1>2. Cardinality(Raised) \in Nat
  BY <1>1, FS_CardinalityType
<1> QED
  BY <1>2 DEF Init, LoadsSoFar

(* A feed is downloaded at most once more than there are scans that raised.  *)
THEOREM ColdStartIsCheap == Spec => []NoStampede
<1>1. Init => LoadsSoFar
  BY LoadsSoFarInit
<1>2. IInv /\ IInv' /\ LoadsSoFar /\ [Next]_vars => LoadsSoFar'
  BY LoadsSoFarStep
<1>3. IInv /\ LoadsSoFar => NoStampede
  <2> SUFFICES ASSUME IInv, LoadsSoFar PROVE NoStampede
    OBVIOUS
  <2>1. IsFiniteSet(Raised)
    BY FeedAssumption, FS_Subset DEF Raised
  <2>2. Cardinality(Raised) \in Nat
    BY <2>1, FS_CardinalityType
  <2> QED
    BY <2>2 DEF IInv, TypeOK, LoadsSoFar, NoStampede
<1> QED
  BY <1>1, <1>2, <1>3, IInvHolds, PTL DEF Spec

----------------------------------------------------------------------------
(* A cached edition stays.                                                   *)

(* A global of scanner.py is set once: whoever downloads a feed looked again *)
(* under the lock, and nobody resets one, so that an edition that has been   *)
(* handed out is never replaced by the next day's.                           *)
CacheIsWrittenOnce ==
  [][\A f \in Feeds : cache[f] # None => cache'[f] = cache[f]]_vars

(* Downloads overwrite nothing, whatever the scans race for.                 *)
THEOREM EditionsStay == Spec => CacheIsWrittenOnce
<1>1. IInv /\ [Next]_vars => [\A f \in Feeds : cache[f] # None => cache'[f] = cache[f]]_vars
  <2> SUFFICES ASSUME IInv, Next, NEW f \in Feeds, cache[f] # None
               PROVE  cache'[f] = cache[f]
    OBVIOUS
  <2>1. ASSUME NEW s \in Scans, Loaded(s) PROVE cache'[f] = cache[f]
    <3>1. pc[s] # f
      BY <2>1 DEF IInv, Loaded, DownloadsAreNeeded
    <3> QED
      BY <2>1, <3>1 DEF IInv, TypeOK, Loaded
  <2>2. ASSUME NEW s \in Scans, ~Loaded(s), Step(s) \/ Cancel(s) PROVE UNCHANGED cache
    BY <2>2
    DEF Step, ServeWarm, AskForLock, Lock, DownloadFails, Cancel, Raise
  <2> QED
    BY <2>1, <2>2 DEF Next, NextDay, Over, vars
<1> QED
  BY <1>1, IInvHolds, PTL DEF Spec, CacheIsWrittenOnce
=============================================================================
