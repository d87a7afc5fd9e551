---------------------------- MODULE VersionRange ----------------------------
(* One installed version against one affected package of an advisory: is it  *)
(* affected, by which range, and which version is advised instead.           *)
(*                                                                           *)
(* Sources: src/src/palisade/matching/version.py and matching/matcher.py,    *)
(* and build_remediation in src/src/palisade/agents/nodes.py.                *)
(*                                                                           *)
(* A version that parses is a number, its place in the order of PEP 440 or   *)
(* semver; two spellings of one version are the same number.  match() goes   *)
(* through the ranges twice, for the verdict and for the range to cite: the  *)
(* same loop with the same outcome, and one pass of it here.                 *)

EXTENDS Naturals, Sequences

CONSTANTS Versions,   \* versions that parse
          Junk,       \* one that does not
          Zero,       \* the string "0": from the beginning
          None,       \* Python's None
          Packages    \* the lists of ranges that are looked at

Boundaries == Versions \cup {Junk}
Events == [kind : {"introduced"}, at : Boundaries \cup {Zero}]
          \cup [kind : {"fixed", "last_affected"}, at : Boundaries]
Ranges == [type : {"SEMVER", "ECOSYSTEM", "GIT"}, events : Seq(Events)]

ASSUME VersionAssumption ==
  /\ Versions \subseteq Nat
  /\ Junk \notin Nat /\ Zero \notin Nat /\ None \notin Nat /\ Junk # Zero
  /\ Packages \subseteq Seq(Ranges)

VARIABLES
  ranges,      \* the package's ranges
  listed,      \* whether the installed version is among its `versions`
  installed,   \* the installed version
  rng, ev,     \* the range and the event that are read next
  affected,    \* _events_match's local
  matched,     \* the finding's matched_range, 0 for None
  upgrade,     \* the remediation's upgrade_to
  pc

input == <<ranges, listed, installed>>
vars == <<ranges, listed, installed, rng, ev, affected, matched, upgrade, pc>>

Init ==
  /\ ranges \in Packages
  /\ listed \in BOOLEAN
  /\ installed \in Boundaries
  /\ rng = 1 /\ ev = 1 /\ affected = FALSE
  /\ matched = 0 /\ upgrade = None
  /\ pc = "start"

----------------------------------------------------------------------------
(* is_version_affected and matching_range                                   *)

(* An installed version that does not parse is in no range.                  *)
Begin ==
  /\ pc = "start"
  /\ pc' = IF installed = Junk THEN "matched" ELSE "ranges"
  /\ UNCHANGED <<input, rng, ev, affected, matched, upgrade>>

(* A range whose versions can be compared: not of commits, and every one of  *)
(* its boundaries parses (_VERSION_RANGE_TYPES, _range_comparable).          *)
Comparable(r) ==
  r.type # "GIT" /\ \A i \in DOMAIN r.events : r.events[i].at # Junk

(* The next range is skipped, or its events are to be read.                  *)
NextRange ==
  /\ pc = "ranges" /\ rng <= Len(ranges)
  /\ IF Comparable(ranges[rng])
     THEN pc' = "events" /\ ev' = 1 /\ affected' = FALSE /\ UNCHANGED rng
     ELSE rng' = rng + 1 /\ UNCHANGED <<pc, ev, affected>>
  /\ UNCHANGED <<input, matched, upgrade>>

(* There is no range left: none contains the version.                        *)
NoRange ==
  /\ pc = "ranges" /\ rng > Len(ranges)
  /\ pc' = "matched"
  /\ UNCHANGED <<input, rng, ev, affected, matched, upgrade>>

(* Where v is with respect to an event: it has been reached by an            *)
(* introduction, or left behind by a fix or the last affected version.       *)
Reached(e, v) == e.kind = "introduced" /\ (e.at = Zero \/ v >= e.at)

\* Variant of Closed: the last affected version is taken for a fix.
ClosedAtLast(e, v) == e.kind # "introduced" /\ v >= e.at

Closed(e, v) ==
  \/ e.kind = "fixed" /\ v >= e.at
  \/ e.kind = "last_affected" /\ v > e.at

(* One round of _events_match's loop: the events are read as they come.      *)
ReadEvent ==
  /\ pc = "events" /\ ev <= Len(ranges[rng].events)
  /\ LET e == ranges[rng].events[ev]
     IN affected' = (Reached(e, installed) \/ (affected /\ ~Closed(e, installed)))
  /\ ev' = ev + 1
  /\ UNCHANGED <<input, rng, matched, upgrade, pc>>

(* Its end: the first range that contains the version is the one to cite.    *)
EndRange ==
  /\ pc = "events" /\ ev > Len(ranges[rng].events)
  /\ IF affected
     THEN matched' = rng /\ pc' = "matched" /\ UNCHANGED rng
     ELSE rng' = rng + 1 /\ pc' = "ranges" /\ UNCHANGED matched
  /\ UNCHANGED <<input, ev, affected, upgrade>>

----------------------------------------------------------------------------
(* match's finding and build_remediation                                    *)

\* Variant of Fixes: what ends an interval, whatever its kind.
FixesAndLast(r) ==
  {r.events[i].at : i \in {j \in DOMAIN r.events : r.events[j].kind # "introduced"}}

(* The fixed boundaries of a range; and a finding's fixed_versions, those of *)
(* all ranges but GIT's, the unreliable ones included.                       *)
Fixes(r) ==
  {r.events[i].at : i \in {j \in DOMAIN r.events : r.events[j].kind = "fixed"}}
FixedVersions ==
  UNION {Fixes(ranges[k]) : k \in {l \in DOMAIN ranges : ranges[l].type # "GIT"}}

(* smallest_above(installed, S).                                             *)
Above(S) == {v \in S : v # Junk /\ installed # Junk /\ v > installed}
SmallestAbove(S) ==
  IF Above(S) = {} THEN None
  ELSE CHOOSE v \in Above(S) : \A w \in Above(S) : v <= w

FixOfRange == IF matched = 0 THEN None ELSE SmallestAbove(Fixes(ranges[matched]))

\* Variant of UpgradeTo: there is no falling back on other ranges.
UpgradeInRange == FixOfRange

(* The fix of the range, or else of any other.                               *)
UpgradeTo == IF FixOfRange # None THEN FixOfRange ELSE SmallestAbove(FixedVersions)

\* Variant of HasFinding: the enumerated versions alone decide.
HasFindingIfListed == listed

HasFinding == listed \/ matched # 0

(* match makes a finding or none, and the finding gets its remediation.      *)
Remediate ==
  /\ pc = "matched"
  /\ IF HasFinding
     THEN pc' = "found" /\ upgrade' = UpgradeTo
     ELSE pc' = "clean" /\ UNCHANGED upgrade
  /\ UNCHANGED <<input, rng, ev, affected, matched>>

Over == pc \in {"found", "clean"} /\ UNCHANGED vars

Next ==
  Begin \/ NextRange \/ NoRange \/ ReadEvent \/ EndRange \/ Remediate \/ Over

Spec == Init /\ [][Next]_vars

----------------------------------------------------------------------------

(* The types, and: a version is called clean only if no range matched it.    *)
TypeOK ==
  /\ ranges \in Seq(Ranges)
  /\ listed \in BOOLEAN
  /\ installed \in Boundaries
  /\ rng \in 1 .. Len(ranges) + 1
  /\ ev \in Nat \ {0}
  /\ affected \in BOOLEAN
  /\ matched \in 0 .. Len(ranges)
  /\ upgrade \in Versions \cup {None}
  /\ pc \in {"start", "ranges", "events", "matched", "found", "clean"}
  /\ pc = "events" => rng <= Len(ranges)
  /\ pc = "clean" => matched = 0 /\ ~listed

(* "A version is affected iff it falls in an [introduced, fixed) interval    *)
(* (or <= last_affected)" (version.py:4-5), by where the boundaries are and  *)
(* not by the order in which they are listed: v is at or above some          *)
(* introduction, and before whatever ends an interval above that.            *)
Place(e) == IF e.at = Zero THEN 0 ELSE e.at + 1
InInterval(r, v) ==
  \E i \in DOMAIN r.events :
    /\ r.events[i].kind = "introduced" /\ Place(r.events[i]) <= v + 1
    /\ \A j \in DOMAIN r.events : Place(r.events[j]) >= Place(r.events[i]) =>
         /\ r.events[j].kind = "fixed" => v < r.events[j].at
         /\ r.events[j].kind = "last_affected" => v <= r.events[j].at

(* OSV's events in ascending order; an interval may be a single version.     *)
Ascending(r) ==
  \A i, j \in DOMAIN r.events : i < j =>
    \/ Place(r.events[i]) < Place(r.events[j])
    \/ /\ Place(r.events[i]) = Place(r.events[j])
       /\ r.events[i].kind = "introduced" /\ r.events[j].kind # "introduced"

(* Ranges of commits, and ranges with a boundary that does not parse, are no *)
(* evidence (version.py:5-8), nor is an installed version that does not.     *)
Reliable(r) ==
  r.type \in {"SEMVER", "ECOSYSTEM"} /\ \A i \in DOMAIN r.events : r.events[i].at # Junk
Contains(k) ==
  installed # Junk /\ Reliable(ranges[k]) /\ InInterval(ranges[k], installed)

(* Reading the events one by one finds the intervals: the range cited is the *)
(* first that contains the version, and without one none does.               *)
MatchesByIntervals ==
  pc \in {"matched", "found", "clean"}
  /\ (\A k \in DOMAIN ranges : Reliable(ranges[k]) => Ascending(ranges[k]))
  => /\ matched # 0 => Contains(matched)
     /\ \A k \in DOMAIN ranges : Contains(k) => matched # 0 /\ matched <= k

(* When the range cited has a fix above the installed version, the version   *)
(* advised is the lowest such fix, and it is in no interval of that range,   *)
(* in whatever order the events come.                                        *)
UpgradeLeavesRange ==
  pc = "found" /\ matched # 0 /\ FixOfRange # None =>
    /\ upgrade # None /\ upgrade > installed
    /\ \E i \in DOMAIN ranges[matched].events :
         ranges[matched].events[i] = [kind |-> "fixed", at |-> upgrade]
    /\ \A i \in DOMAIN ranges[matched].events :
         LET e == ranges[matched].events[i]
         IN e.kind = "fixed" /\ e.at > installed => upgrade <= e.at
    /\ ~InInterval(ranges[matched], upgrade)

(* What the loop would answer for v: of the first n events one introduces it *)
(* and no later one closes that.                                             *)
Open(r, v, n) ==
  \E i \in 1 .. n :
    Reached(r.events[i], v) /\ \A j \in i + 1 .. n : ~Closed(r.events[j], v)
Matches(r, v) == Comparable(r) /\ Open(r, v, Len(r.events))

(* "The minimal safe upgrade target" (version.py:124), by the loop's own     *)
(* answers, for a range in ascending order: a scan after the upgrade finds   *)
(* nothing in that range (safe), and one after any lesser upgrade would      *)
(* still have found it (minimal) -- this for ranges that do not say          *)
(* `last_affected`, which may end an interval before a fix does.             *)
MinimalSafeUpgrade ==
  pc = "found" /\ matched # 0 /\ FixOfRange # None /\ Ascending(ranges[matched]) =>
    LET r == ranges[matched]
    IN /\ ~Matches(r, upgrade)
       /\ (\A i \in DOMAIN r.events : r.events[i].kind # "last_affected")
          => \A v \in Versions : installed <= v /\ v < upgrade => Matches(r, v)

(* "No fixed version is published" (nodes.py:57) is said only if none above  *)
(* the installed version is, in any range; and what is advised is never a    *)
(* downgrade (nodes.py:38-40).                                               *)
UpgradeIfAnyFix ==
  pc = "found" /\ installed # Junk =>
    IF upgrade = None
    THEN \A k \in DOMAIN ranges : \A i \in DOMAIN ranges[k].events :
           LET e == ranges[k].events[i]
           IN ranges[k].type # "GIT" /\ e.kind = "fixed" /\ e.at # Junk => e.at <= installed
    ELSE upgrade > installed

----------------------------------------------------------------------------
(* What makes these inductive: `affected` says whether v is Open after the   *)
(* events read so far; and the ranges read so far did not match.             *)
ReadSoFar ==
  /\ pc = "start" => rng = 1
  /\ pc \in {"start", "ranges", "events"} => matched = 0 /\ upgrade = None
  /\ pc \in {"ranges", "events"} =>
       installed # Junk /\ \A k \in 1 .. rng - 1 : ~Matches(ranges[k], installed)
  /\ pc = "events" =>
       /\ Comparable(ranges[rng]) /\ ev <= Len(ranges[rng].events) + 1
       /\ affected <=> Open(ranges[rng], installed, ev - 1)

Cited ==
  pc \in {"matched", "found", "clean"} =>
    /\ matched # 0 => installed # Junk /\ Matches(ranges[matched], installed)
    /\ installed # Junk => \A k \in DOMAIN ranges :
         Matches(ranges[k], installed) => matched # 0 /\ matched <= k

Advised == pc = "found" => upgrade = UpgradeTo

IInv == TypeOK /\ ReadSoFar /\ Cited /\ Advised
=============================================================================
