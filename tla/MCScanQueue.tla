---------------------------- MODULE MCScanQueue ----------------------------
(* ScanQueue for TLC.  Scans are interchangeable, and so are workers.        *)
EXTENDS ScanQueue, TLC

Symmetry == Permutations(Jobs) \cup Permutations(Workers)
=============================================================================
