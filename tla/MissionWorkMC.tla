---------------------------- MODULE MissionWorkMC ----------------------------
(* Small missions for TLC.                                                  *)
EXTENDS MissionWork, TLC

CONSTANTS a1, a2, a3, t1, t2

AllWriters == [t \in Tasks |-> "Writer"]
WriterAndBuild == [t \in Tasks |-> IF t = t1 THEN "Writer" ELSE "HeavyProcess"]

OneSlot == {[class \in Classes |-> 1]}

Disjoint == {}
Overlapping == {<<t1, t2>>, <<t2, t1>>}

\* The agents are interchangeable: no definition orders or names them.
Symmetry == Permutations(Agents)
=============================================================================
