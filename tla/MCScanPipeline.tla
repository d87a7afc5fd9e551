--------------------------- MODULE MCScanPipeline ---------------------------
(* ScanPipeline for TLC: a lockfile of three dependencies, of which two are  *)
(* one package; a lockfile of one; and an empty one.                         *)
EXTENDS ScanPipeline

CONSTANTS s1, s2, a, b, v1, v2, v3, c1, c2, c3

Dep(k, direct) == [key |-> k, direct |-> direct]
MCLockfile ==
  [s \in Scans |->
    CASE s = s1 -> <<Dep(a, FALSE), Dep(b, FALSE), Dep(a, TRUE)>>
      [] s = s2 -> <<Dep(b, TRUE)>>
      [] OTHER -> <<>>]

\* OSV answers v2 for a, though by its entries it affects b alone.
MCHits == [k \in Keys |-> IF k = a THEN {v1, v2} ELSE {v3}]
MCAffected ==
  [v \in Vulns |->
    CASE v = v1 -> <<{a}>> [] v = v2 -> <<{b}>> [] v = v3 -> <<{b}, {b}>>]
MCSeverity == [v \in Vulns |-> IF v = v3 THEN 4 ELSE 0]

\* v1 is listed but has no score on the first day; v3 is not, and scores highest.
MCAliases ==
  [v \in Vulns |-> CASE v = v1 -> {c1} [] v = v2 -> {c1, c2} [] v = v3 -> {c2, c3}]
MCEpss ==
  [d \in Days |-> [c \in CVEs |->
    CASE c = c1 -> (IF d = 0 THEN None ELSE 50) [] c = c2 -> 1 [] c = c3 -> 100]]
MCKev == [d \in Days |-> {c1}]
=============================================================================
