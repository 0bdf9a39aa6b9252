-------------------------- MODULE MissionCouncilMC --------------------------
(* A small council for TLC.                                                 *)
EXTENDS MissionCouncil, TLC

CONSTANTS a1, a2, a3

\* The agents are interchangeable: no definition orders or names them.
Symmetry == Permutations(Agents)
=============================================================================
