------------------------------ MODULE ForkJoin ------------------------------
(***************************************************************************)
(* What the scheduler promises its callers, without threads, queues or     *)
(* signals: a body (a job or an external thread's own code) dispatches the *)
(* jobs it created, waits for those it counted, and comes out of the wait  *)
(* only when all of them are done; a job runs in one place at a time, may  *)
(* yield and be run again, and never runs after it finished.               *)
(***************************************************************************)
EXTENDS FiniteSets

CONSTANTS
  Jobs,
  Externals,   \* threads whose own code uses the scheduler
  Creator,     \* Creator[j]: the body that dispatches j
  Detached     \* jobs nobody waits for

VARIABLES
  state,       \* state[j]: "created", "ready", "running" or "done"
  waiting      \* bodies inside wait_for_counter

vars == <<state, waiting>>

Bodies == Jobs \cup Externals

TypeOK ==
  /\ state \in [Jobs -> {"created", "ready", "running", "done"}]
  /\ waiting \in SUBSET Bodies

Created(b) == {j \in Jobs : Creator[j] = b /\ state[j] = "created"}

\* The jobs a wait of body b waits for.
Awaited(b) ==
  {j \in Jobs : Creator[j] = b /\ j \notin Detached /\ state[j] \in {"ready", "running"}}

\* The code of body b is executing, and not inside a wait.
Acting(b) == (b \in Externals \/ state[b] = "running") /\ b \notin waiting

Init ==
  /\ state = [j \in Jobs |-> "created"]
  /\ waiting = {}

Dispatch(b, S) ==
  /\ Acting(b)
  /\ S # {} /\ S \subseteq Created(b)
  /\ state' = [j \in Jobs |-> IF j \in S THEN "ready" ELSE state[j]]
  /\ UNCHANGED waiting

Start(j) ==
  /\ state[j] = "ready"
  /\ state' = [state EXCEPT ![j] = "running"]
  /\ UNCHANGED waiting

Yield(j) ==
  /\ state[j] = "running" /\ Acting(j)
  /\ state' = [state EXCEPT ![j] = "ready"]
  /\ UNCHANGED waiting

Finish(j) ==
  /\ state[j] = "running" /\ Acting(j)
  /\ Created(j) = {} /\ Awaited(j) = {}
  /\ state' = [state EXCEPT ![j] = "done"]
  /\ UNCHANGED waiting

BeginWait(b) ==
  /\ Acting(b)
  /\ waiting' = waiting \cup {b}
  /\ UNCHANGED state

EndWait(b) ==
  /\ b \in waiting
  /\ Awaited(b) = {}
  /\ waiting' = waiting \ {b}
  /\ UNCHANGED state

Next ==
  \/ \E b \in Bodies :
       \/ \E S \in SUBSET Created(b) : Dispatch(b, S)
       \/ BeginWait(b)
       \/ EndWait(b)
  \/ \E j \in Jobs : Start(j) \/ Yield(j) \/ Finish(j)

Spec == Init /\ [][Next]_vars
=============================================================================
