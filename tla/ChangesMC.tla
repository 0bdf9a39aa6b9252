----------------------------- MODULE ChangesMC -----------------------------
(* Small histories of changes for TLC.                                      *)
EXTENDS Changes, TLC

CONSTANTS c1, c2, c3

Every == {{"overlap", "editor"}, {"save", "editor"}, {"save", "remove", "crash"}}

\* The changes are interchangeable: no definition orders or names them.
Symmetry == Permutations(Changes)
=============================================================================
