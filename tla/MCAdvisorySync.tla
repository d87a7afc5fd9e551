--------------------------- MODULE MCAdvisorySync ---------------------------
(* AdvisorySync for TLC: four runs, three versions of which two differ from  *)
(* the first in a column each, and exports that disagree.                    *)
EXTENDS AdvisorySync, TLC

CONSTANTS v1, v2, v3

Symmetry == Permutations(Runs)

MCColumns == {"details", "severity"}
MCField ==
  [v \in Versions |->
    [details |-> IF v = v2 THEN 2 ELSE 1, severity |-> IF v = v3 THEN 2 ELSE 1]]

Rec(i, b) == [id |-> i, body |-> b]
MCExports ==
  {<<Rec("a", v1), Rec("b", v1), Rec("c", "rejected")>>,
   <<Rec("b", v2), Rec("a", v2), Rec("c", v1)>>,
   <<Rec("a", v3), Rec("c", v1)>>,
   <<Rec("a", v1), Rec("b", "poison"), Rec("c", v1)>>}
=============================================================================
