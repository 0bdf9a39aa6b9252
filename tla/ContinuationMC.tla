---- MODULE ContinuationMC ----
EXTENDS Continuation, TLC
CONSTANTS t1, t2, s1, s2, w1, w2
Clients == Permutations(Sessions) \union Permutations(Workspaces)
====
