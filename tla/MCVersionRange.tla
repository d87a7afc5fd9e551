--------------------------- MODULE MCVersionRange ---------------------------
(* VersionRange for TLC: three versions, and packages of one range of up to  *)
(* three events, or of four in order, or of two ranges with up to three      *)
(* events between them, one of which may be a range of commits.              *)
EXTENDS VersionRange

MCVersions == 1 .. 3

MCEvents ==
  [kind : {"introduced"}, at : MCVersions \cup {Junk, Zero}]
  \cup [kind : {"fixed", "last_affected"}, at : MCVersions \cup {Junk}]

RangesUpTo(n, types) ==
  [type : types, events : UNION {[1 .. m -> MCEvents] : m \in 0 .. n}]
Compared(n) == RangesUpTo(n, {"ECOSYSTEM"})
InOrder(n) ==
  {r \in [type : {"SEMVER"}, events : [1 .. n -> {e \in MCEvents : e.at # Junk}]] : Ascending(r)}
Commits == RangesUpTo(1, {"GIT"})

MCPackages ==
  {<<r>> : r \in Compared(3) \cup InOrder(4) \cup Commits}
  \cup (Compared(2) \X (Compared(1) \cup Commits))
  \cup ((Compared(1) \cup Commits) \X Compared(2))
=============================================================================
