---------------------------- MODULE MCScheduler ----------------------------
(***************************************************************************)
(* Instances of Scheduler for TLC.                                         *)
(***************************************************************************)
EXTENDS Scheduler, TLC

CONSTANTS main, w1, w2, j1, j2, j3, j4

\* main dispatches everything: a flat fork-join.
FlatCreator == [j \in Jobs |-> main]

\* j1 is itself a fork-join over the other jobs.
NestedCreator == [j \in Jobs |-> IF j = j1 THEN main ELSE j1]

\* Workers are alike: no property of a safety run tells them apart.
Alike == Permutations(Workers)
=============================================================================
