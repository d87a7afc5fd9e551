------------------------- MODULE VersionRangeProofs -------------------------
(* Proofs about VersionRange, for any package: any number of ranges, of      *)
(* events and of versions.                                                   *)
EXTENDS VersionRange, WellFoundedInduction, TLAPS

(* Of some naturals one is the least.                                        *)
LEMMA LeastExists ==
  ASSUME NEW S \in SUBSET Nat, S # {}
  PROVE  \E v \in S : \A w \in S : v <= w
<1>1. PICK v \in S : \A w \in S : <<w, v>> \notin OpToRel(<, Nat)
  BY NatLessThanWellFounded, WFMin
<1>2. ASSUME NEW w \in S PROVE v <= w
  <2>1. <<w, v>> \in Nat \X Nat
    OBVIOUS
  <2>2. ~(w < v)
    BY <1>1, <2>1 DEF OpToRel
  <2> QED
    BY <2>2
<1> QED
  BY <1>2

(* smallest_above gives the least of the candidates above, or None.          *)
LEMMA SmallestAboveIs ==
  ASSUME installed \in Boundaries, NEW S \in SUBSET Boundaries
  PROVE  /\ SmallestAbove(S) \in Versions \cup {None}
         /\ SmallestAbove(S) = None <=> Above(S) = {}
         /\ SmallestAbove(S) # None =>
              /\ SmallestAbove(S) \in S /\ SmallestAbove(S) > installed
              /\ \A w \in Above(S) : SmallestAbove(S) <= w
<1>1. Above(S) \subseteq Versions /\ Above(S) \in SUBSET Nat
  BY VersionAssumption DEF Above, Boundaries
<1>2. CASE Above(S) = {}
  BY <1>2 DEF SmallestAbove
<1>3. CASE Above(S) # {}
  <2>1. \E v \in Above(S) : \A w \in Above(S) : v <= w
    BY <1>1, <1>3, LeastExists
  <2>2. /\ SmallestAbove(S) \in Above(S)
        /\ \A w \in Above(S) : SmallestAbove(S) <= w
    BY <1>3, <2>1 DEF SmallestAbove
  <2> QED
    BY <1>1, <1>3, <2>2, VersionAssumption DEF Above
<1> QED
  BY <1>2, <1>3

(* The fixed boundaries are boundaries.                                      *)
LEMMA FixesAreBoundaries ==
  ASSUME ranges \in Seq(Ranges)
  PROVE  /\ \A k \in DOMAIN ranges : Fixes(ranges[k]) \in SUBSET Boundaries
         /\ FixedVersions \in SUBSET Boundaries
<1>1. ASSUME NEW k \in DOMAIN ranges PROVE Fixes(ranges[k]) \in SUBSET Boundaries
  <2>1. ranges[k] \in Ranges
    OBVIOUS
  <2>2. \A i \in DOMAIN ranges[k].events : ranges[k].events[i] \in Events
    BY <2>1 DEF Ranges
  <2> QED
    BY <2>2 DEF Fixes, Events
<1> QED
  BY <1>1 DEF FixedVersions

(* What is advised is a version or nothing.                                  *)
LEMMA UpgradeIsTyped ==
  ASSUME TypeOK PROVE UpgradeTo \in Versions \cup {None}
<1>1. matched # 0 => matched \in DOMAIN ranges
  BY DEF TypeOK
<1> QED
  BY <1>1, FixesAreBoundaries, SmallestAboveIs
  DEF TypeOK, UpgradeTo, FixOfRange

----------------------------------------------------------------------------
(* Nothing has been read.                                                    *)
LEMMA IInvInit == Init => IInv
<1> SUFFICES ASSUME Init PROVE IInv
  OBVIOUS
<1>1. ranges \in Seq(Ranges) /\ Len(ranges) \in Nat
  BY VersionAssumption DEF Init
<1>2. 1 \in 1 .. Len(ranges) + 1 /\ 0 \in 0 .. Len(ranges) /\ 1 \in Nat \ {0}
  BY <1>1
<1>3. TypeOK
  BY <1>1, <1>2 DEF Init, TypeOK
<1> QED
  BY <1>3 DEF Init, IInv, ReadSoFar, Cited, Advised

(* The loop's local after one more event.                                    *)
LEMMA OneMoreEvent ==
  ASSUME NEW r, NEW v, NEW n \in Nat
  PROVE  Open(r, v, n + 1) <=>
           \/ Reached(r.events[n + 1], v)
           \/ Open(r, v, n) /\ ~Closed(r.events[n + 1], v)
<1>1. ASSUME Open(r, v, n + 1), ~Reached(r.events[n + 1], v)
      PROVE  Open(r, v, n) /\ ~Closed(r.events[n + 1], v)
  <2>1. PICK i \in 1 .. n + 1 :
          Reached(r.events[i], v) /\ \A j \in i + 1 .. n + 1 : ~Closed(r.events[j], v)
    BY <1>1 DEF Open
  <2>2. i \in 1 .. n
    BY <1>1, <2>1
  <2>3. n + 1 \in i + 1 .. n + 1 /\ \A j \in i + 1 .. n : j \in i + 1 .. n + 1
    BY <2>2
  <2> QED
    BY <2>1, <2>2, <2>3 DEF Open
<1>2. ASSUME Reached(r.events[n + 1], v) PROVE Open(r, v, n + 1)
  <2>1. n + 1 \in 1 .. n + 1 /\ (n + 1) + 1 .. n + 1 = {}
    OBVIOUS
  <2> QED
    BY <1>2, <2>1 DEF Open
<1>3. ASSUME Open(r, v, n), ~Closed(r.events[n + 1], v) PROVE Open(r, v, n + 1)
  <2>1. PICK i \in 1 .. n :
          Reached(r.events[i], v) /\ \A j \in i + 1 .. n : ~Closed(r.events[j], v)
    BY <1>3 DEF Open
  <2>2. i \in 1 .. n + 1 /\ \A j \in i + 1 .. n + 1 : j = n + 1 \/ j \in i + 1 .. n
    BY <2>1
  <2> QED
    BY <1>3, <2>1, <2>2 DEF Open
<1> QED
  BY <1>1, <1>2, <1>3

(* Each step of the loops keeps what is known of the events and the ranges   *)
(* read so far.                                                              *)
LEMMA IInvStep == IInv /\ [Next]_vars => IInv'
<1> SUFFICES ASSUME IInv, [Next]_vars PROVE IInv'
  OBVIOUS
<1> USE DEF IInv
<1>0. ASSUME UNCHANGED input, UNCHANGED matched PROVE UpgradeTo' = UpgradeTo
  BY <1>0 DEF input, UpgradeTo, FixOfRange, FixedVersions, SmallestAbove, Above, Fixes
<1>len. Len(ranges) \in Nat /\ rng \in Nat /\ DOMAIN ranges = 1 .. Len(ranges)
  BY DEF TypeOK
<1>1. ASSUME Begin PROVE IInv'
  <2>1. CASE installed = Junk
    BY <1>1, <2>1 DEF Begin, TypeOK, ReadSoFar, Cited, Advised, input
  <2>2. CASE installed # Junk
    <3>1. TypeOK'
      BY <1>1, <2>2 DEF Begin, TypeOK, input
    <3> QED
      BY <1>1, <2>2, <3>1 DEF Begin, TypeOK, ReadSoFar, Cited, Advised, input
  <2> QED
    BY <2>1, <2>2
<1>2. ASSUME NextRange PROVE IInv'
  <2>1. /\ pc = "ranges" /\ rng \in DOMAIN ranges
        /\ UNCHANGED <<input, matched, upgrade>>
    BY <1>2 DEF NextRange, TypeOK
  <2>2. CASE Comparable(ranges[rng])
    <3>1. pc' = "events" /\ ev' = 1 /\ affected' = FALSE /\ rng' = rng
      BY <1>2, <2>2 DEF NextRange
    <3>2. ~Open(ranges[rng], installed, 0)
      BY DEF Open
    <3>3. Len(ranges[rng].events) \in Nat
      BY <2>1 DEF TypeOK, Ranges
    <3>4. TypeOK'
      <4>1. rng <= Len(ranges) /\ 1 \in Nat \ {0}
        BY <1>len, <2>1
      <4>2. affected' \in BOOLEAN
        BY <3>1
      <4> QED
        BY <2>1, <3>1, <4>1, <4>2 DEF TypeOK, input
    <3>5. ReadSoFar'
      BY <2>1, <2>2, <3>1, <3>2, <3>3 DEF ReadSoFar, input
    <3> QED
      BY <3>1, <3>4, <3>5 DEF Cited, Advised
  <2>3. CASE ~Comparable(ranges[rng])
    <3>1. rng' = rng + 1 /\ UNCHANGED <<pc, ev, affected>>
      BY <1>2, <2>3 DEF NextRange
    <3>2. ~Matches(ranges[rng], installed)
      BY <2>3 DEF Matches
    <3>3. TypeOK'
      BY <2>1, <3>1 DEF TypeOK, input
    <3>4. \A k \in 1 .. rng' - 1 : ~Matches(ranges[k], installed)
      <4>1. \A k \in 1 .. rng' - 1 : k = rng \/ k \in 1 .. rng - 1
        BY <1>len, <3>1
      <4> QED
        BY <2>1, <3>2, <4>1 DEF ReadSoFar
    <3>5. ReadSoFar'
      BY <2>1, <3>1, <3>4 DEF ReadSoFar, input
    <3> QED
      BY <2>1, <3>1, <3>3, <3>5 DEF Cited, Advised
  <2> QED
    BY <2>2, <2>3
<1>3. ASSUME NoRange PROVE IInv'
  <2>1. UNCHANGED <<input, rng, ev, affected, matched, upgrade>> /\ pc' = "matched"
    BY <1>3 DEF NoRange
  <2>2. \A k \in DOMAIN ranges : ~Matches(ranges[k], installed)
    BY <1>3 DEF NoRange, TypeOK, ReadSoFar
  <2>3. matched = 0
    BY <1>3 DEF NoRange, ReadSoFar
  <2>4. TypeOK'
    BY <2>1 DEF TypeOK, input
  <2>5. Cited'
    BY <2>1, <2>2, <2>3 DEF Cited, input
  <2> QED
    BY <2>1, <2>4, <2>5 DEF ReadSoFar, Advised
<1>4. ASSUME ReadEvent PROVE IInv'
  <2> DEFINE e == ranges[rng].events[ev]
  <2>1. /\ pc = "events" /\ pc' = pc /\ ev' = ev + 1 /\ ev <= Len(ranges[rng].events)
        /\ UNCHANGED <<input, rng, matched, upgrade>>
        /\ affected' = (Reached(e, installed) \/ (affected /\ ~Closed(e, installed)))
    BY <1>4 DEF ReadEvent
  <2>2. ev - 1 \in Nat /\ (ev - 1) + 1 = ev /\ ev' - 1 = ev
    BY <2>1 DEF TypeOK
  <2>3. affected <=> Open(ranges[rng], installed, ev - 1)
    BY <2>1 DEF ReadSoFar
  <2>4. affected' <=> Open(ranges[rng], installed, ev)
    <3>1. Open(ranges[rng], installed, (ev - 1) + 1) <=>
            \/ Reached(ranges[rng].events[(ev - 1) + 1], installed)
            \/ /\ Open(ranges[rng], installed, ev - 1)
               /\ ~Closed(ranges[rng].events[(ev - 1) + 1], installed)
      BY <2>2, OneMoreEvent
    <3>2. Open(ranges[rng], installed, ev) <=>
            \/ Reached(e, installed)
            \/ Open(ranges[rng], installed, ev - 1) /\ ~Closed(e, installed)
      BY <2>2, <3>1
    <3> QED
      BY <2>1, <2>3, <3>2
  <2>5. Len(ranges[rng].events) \in Nat
    BY <2>1 DEF TypeOK, Ranges
  <2>6. TypeOK'
    <3>1. affected' \in BOOLEAN
      BY <2>1
    <3> QED
      BY <2>1, <2>2, <3>1 DEF TypeOK, input
  <2>7. ReadSoFar'
    <3>1. affected' <=> Open(ranges[rng], installed, ev' - 1)
      BY <2>2, <2>4
    <3>2. ev' <= Len(ranges[rng].events) + 1
      BY <2>1, <2>5 DEF TypeOK
    <3>3. /\ ranges' = ranges /\ installed' = installed /\ rng' = rng
          /\ pc' = "events" /\ matched' = matched /\ upgrade' = upgrade
      BY <2>1 DEF input
    <3> QED
      BY <2>1, <3>1, <3>2, <3>3 DEF ReadSoFar
  <2> QED
    BY <2>1, <2>6, <2>7 DEF Cited, Advised
<1>5. ASSUME EndRange PROVE IInv'
  <2>1. /\ pc = "events" /\ ev > Len(ranges[rng].events) /\ rng \in DOMAIN ranges
        /\ UNCHANGED <<input, ev, affected, upgrade>>
    BY <1>5 DEF EndRange, TypeOK
  <2>2. ev - 1 = Len(ranges[rng].events)
    BY <2>1 DEF TypeOK, ReadSoFar, Ranges
  <2>3. affected <=> Matches(ranges[rng], installed)
    BY <2>1, <2>2 DEF ReadSoFar, Matches
  <2>4. matched = 0 /\ installed # Junk /\ \A k \in 1 .. rng - 1 : ~Matches(ranges[k], installed)
    BY <2>1 DEF ReadSoFar
  <2>5. CASE affected
    <3>1. matched' = rng /\ pc' = "matched" /\ rng' = rng
      BY <1>5, <2>5 DEF EndRange
    <3>2. TypeOK'
      BY <2>1, <3>1 DEF TypeOK, input
    <3>3. \A k \in DOMAIN ranges : Matches(ranges[k], installed) => rng # 0 /\ rng <= k
      BY <2>1, <2>4
    <3>4. Cited'
      BY <2>1, <2>3, <2>4, <2>5, <3>1, <3>3 DEF Cited, input
    <3> QED
      BY <3>1, <3>2, <3>4 DEF ReadSoFar, Advised
  <2>6. CASE ~affected
    <3>1. rng' = rng + 1 /\ pc' = "ranges" /\ matched' = matched
      BY <1>5, <2>6 DEF EndRange
    <3>2. TypeOK'
      BY <2>1, <3>1 DEF TypeOK, input
    <3>3. \A k \in 1 .. rng' - 1 : ~Matches(ranges[k], installed)
      <4>1. \A k \in 1 .. rng' - 1 : k = rng \/ k \in 1 .. rng - 1
        BY <1>len, <3>1
      <4> QED
        BY <2>3, <2>4, <2>6, <4>1
    <3>4. ReadSoFar'
      BY <2>1, <2>4, <3>1, <3>3 DEF ReadSoFar, input
    <3> QED
      BY <3>1, <3>2, <3>4 DEF Cited, Advised
  <2> QED
    BY <2>5, <2>6
<1>6. ASSUME Remediate PROVE IInv'
  <2>1. pc = "matched" /\ UNCHANGED <<input, rng, ev, affected, matched>>
    BY <1>6 DEF Remediate
  <2>2. pc' \in {"found", "clean"}
    BY <1>6 DEF Remediate
  <2>3. Cited'
    BY <2>1, <2>2 DEF Cited, input
  <2>4. CASE HasFinding
    <3>1. pc' = "found" /\ upgrade' = UpgradeTo
      BY <1>6, <2>4 DEF Remediate
    <3>2. TypeOK'
      BY <2>1, <3>1, UpgradeIsTyped DEF TypeOK, input
    <3> QED
      BY <2>1, <2>3, <3>1, <3>2, <1>0 DEF ReadSoFar, Advised
  <2>5. CASE ~HasFinding
    <3>1. pc' = "clean" /\ upgrade' = upgrade
      BY <1>6, <2>5 DEF Remediate
    <3>2. TypeOK'
      BY <2>1, <2>5, <3>1 DEF TypeOK, HasFinding, input
    <3> QED
      BY <2>3, <3>1, <3>2 DEF ReadSoFar, Advised
  <2> QED
    BY <2>4, <2>5
<1>7. ASSUME UNCHANGED vars PROVE IInv'
  <2>1. UNCHANGED <<input, rng, ev, affected, matched, upgrade, pc>>
    BY <1>7 DEF vars, input
  <2>2. TypeOK'
    BY <2>1 DEF TypeOK, input
  <2>3. ReadSoFar' /\ Cited'
    BY <2>1 DEF ReadSoFar, Cited, input
  <2> QED
    BY <2>1, <2>2, <2>3, <1>0 DEF Advised
<1> QED
  BY <1>1, <1>2, <1>3, <1>4, <1>5, <1>6, <1>7 DEF Next, Over

(* The invariant holds in every reachable state.                             *)
THEOREM IInvHolds == Spec => []IInv
  BY IInvInit, IInvStep, PTL DEF Spec

(* The types hold in every reachable state.                                  *)
THEOREM TypeCorrect == Spec => []TypeOK
<1>1. IInv => TypeOK
  BY DEF IInv
<1> QED
  BY <1>1, IInvHolds, PTL

----------------------------------------------------------------------------
(* For boundaries that parse and come in ascending order, a version that the *)
(* loop leaves open is one in an interval, and conversely.                   *)
LEMMA LoopFindsIntervals ==
  ASSUME NEW r \in Ranges, NEW v \in Versions, Reliable(r), Ascending(r)
  PROVE  Open(r, v, Len(r.events)) <=> InInterval(r, v)
<1> DEFINE es == r.events
<1>1. /\ DOMAIN es = 1 .. Len(es) /\ Len(es) \in Nat
      /\ \A i \in DOMAIN es :
           /\ es[i].kind \in {"introduced", "fixed", "last_affected"}
           /\ es[i].at \in Nat \/ (es[i].kind = "introduced" /\ es[i].at = Zero)
  <2>1. es \in Seq(Events)
    BY DEF Ranges
  <2>2. \A i \in DOMAIN es : es[i] \in Events /\ es[i].at # Junk
    BY <2>1 DEF Reliable
  <2>3. ASSUME NEW e \in Events, e.at # Junk
        PROVE  /\ e.kind \in {"introduced", "fixed", "last_affected"}
               /\ e.at \in Nat \/ (e.kind = "introduced" /\ e.at = Zero)
    <3>1. CASE e \in [kind : {"introduced"}, at : Boundaries \cup {Zero}]
      BY <2>3, <3>1, VersionAssumption DEF Boundaries
    <3>2. CASE e \in [kind : {"fixed", "last_affected"}, at : Boundaries]
      BY <2>3, <3>2, VersionAssumption DEF Boundaries
    <3> QED
      BY <3>1, <3>2 DEF Events
  <2> QED
    BY <2>1, <2>2, <2>3
<1>2. v \in Nat /\ Zero \notin Nat
  BY VersionAssumption
<1>3. \A i \in DOMAIN es : Place(es[i]) \in Nat
  BY <1>1 DEF Place
<1>4. \A i \in DOMAIN es :
        Reached(es[i], v) <=> es[i].kind = "introduced" /\ Place(es[i]) <= v + 1
  BY <1>1, <1>2 DEF Reached, Place
<1>5. \A j \in DOMAIN es :
        ~Closed(es[j], v) <=>
          /\ es[j].kind = "fixed" => v < es[j].at
          /\ es[j].kind = "last_affected" => v <= es[j].at
  BY <1>1, <1>2 DEF Closed
<1>6. \A i, j \in DOMAIN es : es[i].kind = "introduced" /\ es[j].kind # "introduced" =>
        (i < j <=> Place(es[i]) <= Place(es[j]))
  <2> SUFFICES ASSUME NEW i \in DOMAIN es, NEW j \in DOMAIN es,
                      es[i].kind = "introduced", es[j].kind # "introduced"
               PROVE  i < j <=> Place(es[i]) <= Place(es[j])
    OBVIOUS
  <2>1. i < j => Place(es[i]) <= Place(es[j])
    BY <1>3 DEF Ascending
  <2>2. j < i => Place(es[j]) < Place(es[i])
    BY <1>3 DEF Ascending
  <2> QED
    BY <1>1, <1>3, <2>1, <2>2
<1>7. ASSUME Open(r, v, Len(es)) PROVE InInterval(r, v)
  <2>1. PICK i \in DOMAIN es :
          Reached(es[i], v) /\ \A j \in i + 1 .. Len(es) : ~Closed(es[j], v)
    BY <1>1, <1>7 DEF Open
  <2>2. ASSUME NEW j \in DOMAIN es, Place(es[j]) >= Place(es[i])
        PROVE  ~Closed(es[j], v)
    <3>1. CASE es[j].kind = "introduced"
      BY <3>1 DEF Closed
    <3>2. CASE es[j].kind # "introduced"
      <4>1. i < j
        BY <1>3, <1>4, <1>6, <2>1, <2>2, <3>2
      <4> QED
        BY <1>1, <2>1, <4>1
    <3> QED
      BY <3>1, <3>2
  <2> QED
    BY <1>4, <1>5, <2>1, <2>2 DEF InInterval
<1>8. ASSUME InInterval(r, v) PROVE Open(r, v, Len(es))
  <2>1. PICK i \in DOMAIN es :
          /\ es[i].kind = "introduced" /\ Place(es[i]) <= v + 1
          /\ \A j \in DOMAIN es : Place(es[j]) >= Place(es[i]) =>
               /\ es[j].kind = "fixed" => v < es[j].at
               /\ es[j].kind = "last_affected" => v <= es[j].at
    BY <1>8 DEF InInterval
  <2>2. ASSUME NEW j \in i + 1 .. Len(es) PROVE ~Closed(es[j], v)
    <3>1. j \in DOMAIN es /\ i < j
      BY <1>1
    <3>2. CASE es[j].kind = "introduced"
      BY <3>2 DEF Closed
    <3>3. CASE es[j].kind # "introduced"
      <4>1. Place(es[j]) >= Place(es[i])
        BY <1>3, <1>6, <2>1, <3>1, <3>3
      <4> QED
        BY <1>5, <2>1, <3>1, <4>1
    <3> QED
      BY <3>2, <3>3
  <2>3. Reached(es[i], v)
    BY <1>4, <2>1
  <2> QED
    BY <1>1, <2>2, <2>3 DEF Open
<1> QED
  BY <1>7, <1>8

(* Reading the events one by one finds the intervals, for any number of      *)
(* ranges and events: the first range that contains the version is cited.    *)
THEOREM MatchingIsExact == Spec => []MatchesByIntervals
<1>1. IInv => MatchesByIntervals
  <2> SUFFICES ASSUME IInv, pc \in {"matched", "found", "clean"},
                      \A k \in DOMAIN ranges : Reliable(ranges[k]) => Ascending(ranges[k])
               PROVE  /\ matched # 0 => Contains(matched)
                      /\ \A k \in DOMAIN ranges : Contains(k) => matched # 0 /\ matched <= k
    BY DEF MatchesByIntervals
  <2>1. ASSUME NEW k \in DOMAIN ranges, installed # Junk
        PROVE  Contains(k) <=> Matches(ranges[k], installed)
    <3>1. ranges[k] \in Ranges /\ installed \in Versions
      BY <2>1 DEF IInv, TypeOK, Boundaries
    <3>2. Reliable(ranges[k]) <=> Comparable(ranges[k])
      BY <3>1 DEF Reliable, Comparable, Ranges
    <3>3. Reliable(ranges[k]) =>
            (Open(ranges[k], installed, Len(ranges[k].events)) <=> InInterval(ranges[k], installed))
      BY <3>1, LoopFindsIntervals
    <3> QED
      BY <2>1, <3>2, <3>3 DEF Contains, Matches
  <2>2. matched # 0 => matched \in DOMAIN ranges
    BY DEF IInv, TypeOK
  <2>3. \A k \in DOMAIN ranges : Contains(k) => installed # Junk
    BY DEF Contains
  <2> QED
    BY <2>1, <2>2, <2>3 DEF IInv, Cited
<1> QED
  BY <1>1, IInvHolds, PTL

(* The version advised from the range cited is its lowest fix above the      *)
(* installed version, and is in none of its intervals.                       *)
THEOREM UpgradeIsSafe == Spec => []UpgradeLeavesRange
<1>1. IInv => UpgradeLeavesRange
  <2> SUFFICES ASSUME IInv, pc = "found", matched # 0, FixOfRange # None
               PROVE  /\ upgrade # None /\ upgrade > installed
                      /\ \E i \in DOMAIN ranges[matched].events :
                           ranges[matched].events[i] = [kind |-> "fixed", at |-> upgrade]
                      /\ \A i \in DOMAIN ranges[matched].events :
                           LET e == ranges[matched].events[i]
                           IN e.kind = "fixed" /\ e.at > installed => upgrade <= e.at
                      /\ ~InInterval(ranges[matched], upgrade)
    BY DEF UpgradeLeavesRange
  <2> DEFINE r == ranges[matched]
             es == r.events
  <2>1. matched \in DOMAIN ranges /\ r \in Ranges /\ installed \in Boundaries
    BY DEF IInv, TypeOK
  <2>2. Comparable(r) /\ installed # Junk
    BY DEF IInv, Cited, Matches
  <2>3. \A i \in DOMAIN es : es[i] \in Events /\ es[i].at # Junk
    BY <2>1, <2>2 DEF Ranges, Comparable
  <2>4. upgrade = SmallestAbove(Fixes(r))
    BY DEF IInv, Advised, UpgradeTo, FixOfRange
  <2>5. SmallestAbove(Fixes(r)) # None
    BY DEF FixOfRange
  <2>6. Fixes(r) \in SUBSET Boundaries
    BY <2>1, FixesAreBoundaries DEF IInv, TypeOK
  <2>7. /\ upgrade \in Versions /\ upgrade \in Fixes(r) /\ upgrade > installed
        /\ \A w \in Above(Fixes(r)) : upgrade <= w
    BY <2>1, <2>4, <2>5, <2>6, SmallestAboveIs
  <2>8. PICK f \in DOMAIN es : es[f].kind = "fixed" /\ es[f].at = upgrade
    BY <2>7 DEF Fixes
  <2>9. es[f] = [kind |-> "fixed", at |-> upgrade]
    BY <2>3, <2>8 DEF Events
  <2>10. ASSUME NEW i \in DOMAIN es, es[i].kind = "fixed", es[i].at > installed
         PROVE  upgrade <= es[i].at
    <3>1. es[i].at \in Above(Fixes(r))
      BY <2>2, <2>3, <2>10 DEF Above, Fixes
    <3> QED
      BY <2>7, <3>1
  <2>11. ~InInterval(r, upgrade)
    <3> SUFFICES ASSUME NEW i \in DOMAIN es, Place(es[i]) <= upgrade + 1,
                        Place(es[f]) >= Place(es[i]) => upgrade < es[f].at
                 PROVE  FALSE
      BY <2>8 DEF InInterval
    <3>1. upgrade \in Nat /\ upgrade # Zero
      BY <2>7, VersionAssumption
    <3>2. Place(es[f]) = upgrade + 1
      BY <2>8, <3>1 DEF Place
    <3> QED
      BY <2>8, <3>1, <3>2
  <2> QED
    BY <2>7, <2>8, <2>9, <2>10, <2>11, VersionAssumption
<1> QED
  BY <1>1, IInvHolds, PTL

(* A fix above the installed version, in any range but those of commits, is  *)
(* never passed over for "no fixed version", nor is a downgrade advised.     *)
THEOREM NoFixIsPassedOver == Spec => []UpgradeIfAnyFix
<1>1. IInv => UpgradeIfAnyFix
  <2> SUFFICES ASSUME IInv, pc = "found", installed # Junk
               PROVE  UpgradeIfAnyFix
    BY DEF UpgradeIfAnyFix
  <2>1. upgrade = UpgradeTo /\ ranges \in Seq(Ranges) /\ installed \in Versions
    BY DEF IInv, Advised, TypeOK, Boundaries
  <2>2. installed \in Boundaries /\ installed \in Nat
    BY <2>1, VersionAssumption DEF Boundaries
  <2>3. CASE upgrade # None
    <3>1. \/ matched # 0 /\ upgrade = SmallestAbove(Fixes(ranges[matched]))
          \/ upgrade = SmallestAbove(FixedVersions)
      BY <2>1, <2>3 DEF UpgradeTo, FixOfRange
    <3>2. matched # 0 => matched \in DOMAIN ranges
      BY DEF IInv, TypeOK
    <3>3. upgrade > installed
      BY <2>1, <2>2, <2>3, <3>1, <3>2, FixesAreBoundaries, SmallestAboveIs
    <3> QED
      BY <2>3, <3>3 DEF UpgradeIfAnyFix
  <2>4. CASE upgrade = None
    <3>1. SmallestAbove(FixedVersions) = None
      BY <2>1, <2>4 DEF UpgradeTo
    <3>2. Above(FixedVersions) = {}
      BY <2>1, <2>2, <3>1, FixesAreBoundaries, SmallestAboveIs
    <3>3. ASSUME NEW k \in DOMAIN ranges, NEW i \in DOMAIN ranges[k].events,
                 ranges[k].type # "GIT", ranges[k].events[i].kind = "fixed",
                 ranges[k].events[i].at # Junk
          PROVE  ranges[k].events[i].at <= installed
      <4> DEFINE a == ranges[k].events[i].at
      <4>1. a \in FixedVersions
        BY <3>3 DEF FixedVersions, Fixes
      <4>2. a \in Nat
        BY <2>1, <3>3, <4>1, FixesAreBoundaries, VersionAssumption DEF Boundaries
      <4>3. ~(a > installed)
        BY <2>1, <3>2, <3>3, <4>1 DEF Above
      <4> QED
        BY <2>2, <4>2, <4>3
    <3> QED
      BY <2>4, <3>3 DEF UpgradeIfAnyFix
  <2> QED
    BY <2>3, <2>4
<1> QED
  BY <1>1, IInvHolds, PTL

----------------------------------------------------------------------------
(* The minimal safe upgrade.                                                 *)

(* Between a version in an interval and the lowest fix above it nothing      *)
(* closes that interval.                                                     *)
LEMMA IntervalReachesFix ==
  ASSUME NEW r \in Ranges, Reliable(r), NEW x \in Versions, InInterval(r, x),
         \A i \in DOMAIN r.events : r.events[i].kind # "last_affected",
         NEW u \in Versions,
         \A i \in DOMAIN r.events :
           r.events[i].kind = "fixed" /\ r.events[i].at > x => u <= r.events[i].at,
         NEW v \in Versions, x <= v, v < u
  PROVE  InInterval(r, v)
<1> DEFINE es == r.events
<1>1. x \in Nat /\ u \in Nat /\ v \in Nat
  BY VersionAssumption
<1>2. \A i \in DOMAIN es : es[i] \in Events /\ es[i].at # Junk
  BY DEF Ranges, Reliable
<1>3. \A i \in DOMAIN es : es[i].kind = "fixed" => es[i].at \in Nat
  BY <1>2, VersionAssumption DEF Events, Boundaries
<1>4. \A i \in DOMAIN es : Place(es[i]) \in Nat
  <2>1. \A i \in DOMAIN es : es[i].at \in Nat \/ es[i].at = Zero
    BY <1>2, VersionAssumption DEF Events, Boundaries
  <2> QED
    BY <2>1 DEF Place
<1>5. PICK i \in DOMAIN es :
        /\ es[i].kind = "introduced" /\ Place(es[i]) <= x + 1
        /\ \A j \in DOMAIN es :
             Place(es[j]) >= Place(es[i]) /\ es[j].kind = "fixed" => x < es[j].at
  BY DEF InInterval
<1>6. Place(es[i]) <= v + 1
  BY <1>1, <1>4, <1>5
<1>7. ASSUME NEW j \in DOMAIN es, Place(es[j]) >= Place(es[i]), es[j].kind = "fixed"
      PROVE  v < es[j].at
  <2>1. x < es[j].at /\ es[j].at \in Nat
    BY <1>3, <1>5, <1>7
  <2>2. u <= es[j].at
    BY <1>1, <1>7, <2>1
  <2> QED
    BY <1>1, <2>1, <2>2
<1> QED
  BY <1>5, <1>6, <1>7 DEF InInterval

(* The upgrade is safe because it is in no interval of the range, and        *)
(* minimal because the interval of the installed version reaches up to it.   *)
THEOREM UpgradeIsMinimal == Spec => []MinimalSafeUpgrade
<1>1. IInv /\ UpgradeLeavesRange => MinimalSafeUpgrade
  <2> SUFFICES ASSUME IInv, UpgradeLeavesRange, pc = "found", matched # 0,
                      FixOfRange # None, Ascending(ranges[matched])
               PROVE  MinimalSafeUpgrade
    BY DEF MinimalSafeUpgrade
  <2> DEFINE r == ranges[matched]
  <2>1. matched \in DOMAIN ranges /\ r \in Ranges
    BY DEF IInv, TypeOK
  <2>2. Comparable(r) /\ installed \in Versions /\ Open(r, installed, Len(r.events))
    BY DEF IInv, TypeOK, Boundaries, Cited, Matches
  <2>3. Reliable(r)
    BY <2>1, <2>2 DEF Reliable, Comparable, Ranges
  <2>4. /\ upgrade \in Versions
        /\ ~InInterval(r, upgrade)
        /\ \A i \in DOMAIN r.events :
             r.events[i].kind = "fixed" /\ r.events[i].at > installed
               => upgrade <= r.events[i].at
    BY DEF UpgradeLeavesRange, IInv, TypeOK
  <2>5. ~Matches(r, upgrade)
    BY <2>1, <2>3, <2>4, LoopFindsIntervals DEF Matches
  <2>6. InInterval(r, installed)
    BY <2>1, <2>2, <2>3, LoopFindsIntervals
  <2>7. ASSUME \A i \in DOMAIN r.events : r.events[i].kind # "last_affected",
               NEW v \in Versions, installed <= v, v < upgrade
        PROVE  Matches(r, v)
    <3>1. InInterval(r, v)
      BY <2>1, <2>2, <2>3, <2>4, <2>6, <2>7, IntervalReachesFix
    <3> QED
      BY <2>1, <2>2, <2>3, <3>1, LoopFindsIntervals DEF Matches
  <2> QED
    BY <2>5, <2>7 DEF MinimalSafeUpgrade
<1> QED
  BY <1>1, IInvHolds, UpgradeIsSafe, PTL
=============================================================================
