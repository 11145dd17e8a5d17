---------------------------- MODULE MCWorkerQueue ----------------------------
\* Small instances of WorkerQueue: main dispatches j1, j3 dispatches j4, j1 the
\* others; j5 is the one that is not urgent.
EXTENDS WorkerQueue

CONSTANTS w1, w2, main, j1, j2, j3, j4, j5

NestedCreator == [j \in Jobs |-> CASE j = j1 -> main [] j = j4 -> j3 [] OTHER -> j1]
OneNormal == [j \in Jobs |-> IF j = j5 THEN "Normal" ELSE "High"]

\* Workers are alike; the jobs are not.
Alike == Permutations(Workers)
=============================================================================
