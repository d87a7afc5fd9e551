--------------------------- MODULE MCPullRequest ---------------------------
(* PullRequest for TLC.  Tasks are interchangeable, and so are lockfiles.    *)
EXTENDS PullRequest, TLC

Symmetry == Permutations(Tasks) \cup Permutations(Lockfiles)

(* What a lockfile may be at a head: absent, or changed or not and oversized *)
(* or not.                                                                   *)
Kinds == {"absent", "changed", "same", "big", "same_big"}
HeadOf(k) ==
  [tree    |-> {f \in Lockfiles : k[f] # "absent"},
   changed |-> {f \in Lockfiles : k[f] \in {"changed", "big"}},
   big     |-> {f \in Lockfiles : k[f] \in {"big", "same_big"}}]

(* The lockfiles of a head are all alike, or all are changed but one that is *)
(* oversized too or is not there.                                            *)
MCHeads ==
  {HeadOf([f \in Lockfiles |-> k]) : k \in {"changed", "same", "same_big"}}
  \cup {HeadOf([[f \in Lockfiles |-> "changed"] EXCEPT ![g] = k]) :
          g \in Lockfiles, k \in {"big", "absent"}}
=============================================================================
