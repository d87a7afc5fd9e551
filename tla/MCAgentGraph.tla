---------------------------- MODULE MCAgentGraph ----------------------------
(* AgentGraph for TLC.  Findings are interchangeable.                        *)
EXTENDS AgentGraph, TLC

Symmetry == Permutations(Findings)
=============================================================================
