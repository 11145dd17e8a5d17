----------------------------- MODULE WorkerQueue -----------------------------
(***************************************************************************)
(* The queues below the scheduler at the grain of their atomics: each      *)
(* context has a local and a stealable set of queues, one queue for each   *)
(* JobPriority, and beside every queue an atomic count of its jobs that is *)
(* updated before or after the queue, never together with it.  try_steal   *)
(* looks at a queue only when its count is above zero.                     *)
(*                                                                         *)
(* One step is one access to state another thread can see.  The local set  *)
(* of a worker is touched by that worker alone; its stealable set by the   *)
(* worker and the thieves; the local set of global_context by everyone.    *)
(* The nest of waiting bodies, counters and suspensions are the subject of *)
(* Scheduler: here a thread is inside of one body at a time.               *)
(***************************************************************************)
EXTENDS Integers, Sequences, FiniteSets, SequencesExt

CONSTANTS
  Workers,     \* threads running worker_thread_loop
  Externals,   \* every other thread that calls into the Scheduler
  Jobs,        \* coroutine handles
  Creator,     \* Creator[j]: the body (job or external thread) that dispatches j
  Urgency,     \* Urgency[j]: the JobPriority j is dispatched with
  Global,      \* names global_context
  None,        \* no job
  CountMax,    \* the largest size_t, where a count wraps
  CacheSize,   \* WorkerContext::job_cache.size()
  Threshold,   \* THRESHOLD of migrate_jobs_to_stealable
  MoveCount    \* MOVE_COUNT of migrate_jobs_to_stealable

Threads == Workers \cup Externals
Contexts == Workers \cup {Global}

\* The priorities in the order every bulk access goes through them.  Mutant:
\* the order of their numbers.
LevelsAscending == <<"Low", "Normal", "High">>
Levels == <<"High", "Normal", "Low">>
Priorities == {"High", "Normal", "Low"}
Queues == {"local", "stealable"} \X Contexts \X Priorities

ASSUME QueueNamesAssumption ==
  /\ Workers \cap Externals = {} /\ Global \notin Threads /\ None \notin Jobs \cup Workers
  /\ IsFiniteSet(Threads) /\ IsFiniteSet(Jobs) /\ Jobs \cap Threads = {}
  /\ Creator \in [Jobs -> Jobs \cup Externals] /\ Urgency \in [Jobs -> Priorities]

\* A count never has to hold more than all jobs.
ASSUME QueueSizesAssumption ==
  /\ CountMax \in Nat /\ Cardinality(Jobs) <= CountMax
  /\ CacheSize \in Nat \ {0}
  /\ Threshold \in Nat
  /\ MoveCount \in Nat \ {0}

VARIABLES
  queue,      \* QueueSet::queues of local_set and stealable_set
  count,      \* local_count and stealable_count
  cache,      \* the filled part of WorkerContext::job_cache
  dispatched, \* the jobs that were handed to dispatch_jobs
  finished,   \* the jobs whose body has ended
  running,    \* the job whose body a thread is inside of
  pc,         \* where the thread is
  level,      \* the index in Levels a thread has reached in a bulk access
  victim,     \* the worker a thread in try_steal picked
  moved       \* the jobs of the last queue access that its count does not reflect yet

vars == <<queue, count, cache, dispatched, finished, running, pc, level, victim, moved>>

-----------------------------------------------------------------------------
(* Helpers *)

Ctx(t) == IF t \in Workers THEN t ELSE Global
Local(x, p) == <<"local", x, p>>
Stealable(x, p) == <<"stealable", x, p>>

Least(m, n) == IF m <= n THEN m ELSE n
Taken(s, n) == SubSeq(s, 1, Least(n, Len(s)))
Left(s, n) == SubSeq(s, Least(n, Len(s)) + 1, Len(s))

\* fetch_add and fetch_sub on a size_t.  Mutant: a count that does not wrap back.
IncreasedUnbounded(n, k) == n + k
Increased(n, k) == (n + k) % (CountMax + 1)
Decreased(n, k) == (n - k) % (CountMax + 1)

\* Where a thread goes after an iteration that executed nothing.
Loop(t) == IF t \in Workers THEN "iterate" ELSE "body"

\* A thread moves on to the next priority, or past the last one.
NextLevel(t, again, past) ==
  IF level[t] < Len(Levels)
    THEN pc' = [pc EXCEPT ![t] = again] /\ level' = [level EXCEPT ![t] = @ + 1]
    ELSE pc' = [pc EXCEPT ![t] = past] /\ level' = [level EXCEPT ![t] = 1]

\* The index a priority has in the order of access.
LevelOf(p) == CHOOSE i \in 1..Len(Levels) : Levels[i] = p

\* try_pop_bulk for n jobs takes from each queue what the queues before it have left
\* room for: how many those are, and the jobs.
Found(x, i) == queue[Local(x, Levels[i])]
Pops(x, n) ==
  LET first == Least(n, Len(Found(x, 1)))
      second == Least(n - first, Len(Found(x, 2)))
  IN  <<first, second, Least(n - first - second, Len(Found(x, 3)))>>
PopBulk(x, n) ==
  Taken(Found(x, 1), Pops(x, n)[1]) \o Taken(Found(x, 2), Pops(x, n)[2])
    \o Taken(Found(x, 3), Pops(x, n)[3])
Popped(x, n, p) == Pops(x, n)[LevelOf(p)]

-----------------------------------------------------------------------------
Init ==
  /\ queue = [q \in Queues |-> <<>>]
  /\ count = [q \in Queues |-> 0]
  /\ cache = [t \in Threads |-> <<>>]
  /\ dispatched = {}
  /\ finished = {}
  /\ running = [t \in Threads |-> None]
  /\ pc = [t \in Threads |-> Loop(t)]
  /\ level = [t \in Threads |-> 1]
  /\ victim = [t \in Threads |-> None]
  /\ moved = [t \in Threads |-> 0]

-----------------------------------------------------------------------------
(* Dispatching: submit_job_batch *)

Batches(S) ==
  {s \in UNION {[1..n -> S] : n \in 1..Cardinality(S)} :
     /\ IsInjective(s)
     /\ \A i \in DOMAIN s : Urgency[s[i]] = Urgency[s[1]]}

\* The jobs the body a thread is inside of has still to dispatch.
Pending(t) ==
  {j \in Jobs \ dispatched : Creator[j] = IF running[t] = None THEN t ELSE running[t]}

\* enqueue_bulk.  A worker's local count is its own affair, so its update is part
\* of the same step; that of global_context is not.
Submit(t) ==
  /\ pc[t] = "body"
  /\ \E batch \in Batches(Pending(t)) :
       LET q == Local(Ctx(t), Urgency[batch[1]])
       IN  /\ queue' = [queue EXCEPT ![q] = @ \o batch]
           /\ dispatched' = dispatched \cup Range(batch)
           /\ IF t \in Workers
                THEN /\ count' = [count EXCEPT ![q] = Increased(@, Len(batch))]
                     /\ UNCHANGED <<pc, level, moved>>
                ELSE /\ pc' = [pc EXCEPT ![t] = "count_submitted"]
                     /\ level' = [level EXCEPT ![t] = LevelOf(Urgency[batch[1]])]
                     /\ moved' = [moved EXCEPT ![t] = Len(batch)]
                     /\ UNCHANGED count
  /\ UNCHANGED <<cache, finished, running, victim>>

\* local_count.fetch_add on global_context.
CountSubmitted(t) ==
  /\ pc[t] = "count_submitted"
  /\ count' = [count EXCEPT ![Local(Global, Levels[level[t]])] = Increased(@, moved[t])]
  /\ moved' = [moved EXCEPT ![t] = 0]
  /\ level' = [level EXCEPT ![t] = 1]
  /\ pc' = [pc EXCEPT ![t] = "body"]
  /\ UNCHANGED <<queue, cache, dispatched, finished, running, victim>>

-----------------------------------------------------------------------------
(* worker_thread_iteration *)

\* main_thread_do_work.
Pump(t) ==
  /\ t \in Externals
  /\ pc[t] = "body" /\ running[t] = None
  /\ pc' = [pc EXCEPT ![t] = "iterate"]
  /\ UNCHANGED <<queue, count, cache, dispatched, finished, running, level, victim, moved>>

\* The last job of the cache is resumed.
Execute(t) ==
  /\ pc[t] = "iterate" /\ cache[t] # <<>>
  /\ running' = [running EXCEPT ![t] = Last(cache[t])]
  /\ cache' = [cache EXCEPT ![t] = Front(@)]
  /\ pc' = [pc EXCEPT ![t] = "body"]
  /\ UNCHANGED <<queue, count, dispatched, finished, level, victim, moved>>

EndBody(t) ==
  /\ pc[t] = "body" /\ running[t] # None /\ Pending(t) = {}
  /\ running' = [running EXCEPT ![t] = None]
  /\ finished' = finished \cup {running[t]}
  /\ pc' = [pc EXCEPT ![t] = Loop(t)]
  /\ UNCHANGED <<queue, count, cache, dispatched, level, victim, moved>>

\* Every STEAL_CHECK_INTERVAL-th iteration with an empty cache (any such
\* iteration, here) starts with migrate_jobs_to_stealable.
BeginMigration(t) ==
  /\ t \in Workers
  /\ pc[t] = "iterate" /\ cache[t] = <<>>
  /\ pc' = [pc EXCEPT ![t] = "migrate"]
  /\ UNCHANGED <<queue, count, cache, dispatched, finished, running, level, victim, moved>>

\* move_to_stealable up to the enqueue_bulk that makes the jobs visible.
Migrate(t) ==
  LET from == Local(t, Levels[level[t]])
      to == Stealable(t, Levels[level[t]])
      jobs == Taken(queue[from], MoveCount)
  IN  /\ pc[t] = "migrate"
      /\ IF count[from] > Threshold /\ jobs # <<>>
           THEN /\ queue' = [queue EXCEPT ![from] = Left(@, MoveCount), ![to] = @ \o jobs]
                /\ count' = [count EXCEPT ![from] = Decreased(@, Len(jobs))]
                /\ moved' = [moved EXCEPT ![t] = Len(jobs)]
                /\ pc' = [pc EXCEPT ![t] = "publish"]
                /\ UNCHANGED level
           ELSE /\ NextLevel(t, "migrate", "pop")
                /\ UNCHANGED <<queue, count, moved>>
      /\ UNCHANGED <<cache, dispatched, finished, running, victim>>

\* Mutant: the count is set where it should be added to.
PublishOverwrites(t) ==
  /\ pc[t] = "publish"
  /\ count' = [count EXCEPT ![Stealable(t, Levels[level[t]])] = moved[t]]
  /\ moved' = [moved EXCEPT ![t] = 0]
  /\ NextLevel(t, "migrate", "pop")
  /\ UNCHANGED <<queue, cache, dispatched, finished, running, victim>>

\* stealable_cnt.fetch_add.
Publish(t) ==
  /\ pc[t] = "publish"
  /\ count' = [count EXCEPT ![Stealable(t, Levels[level[t]])] = Increased(@, moved[t])]
  /\ moved' = [moved EXCEPT ![t] = 0]
  /\ NextLevel(t, "migrate", "pop")
  /\ UNCHANGED <<queue, cache, dispatched, finished, running, victim>>

\* try_pop_bulk on the worker's own queue.
PopLocal(t) ==
  /\ t \in Workers
  /\ pc[t] = "pop" \/ (pc[t] = "iterate" /\ cache[t] = <<>>)
  /\ cache' = [cache EXCEPT ![t] = PopBulk(t, CacheSize)]
  /\ queue' = [q \in Queues |->
       IF q[1] = "local" /\ q[2] = t THEN Left(queue[q], Popped(t, CacheSize, q[3])) ELSE queue[q]]
  /\ count' = [q \in Queues |->
       IF q[1] = "local" /\ q[2] = t THEN Decreased(count[q], Popped(t, CacheSize, q[3])) ELSE count[q]]
  /\ pc' = [pc EXCEPT ![t] = IF cache'[t] = <<>> THEN "pick" ELSE "iterate"]
  /\ UNCHANGED <<dispatched, finished, running, level, victim, moved>>

\* try_steal picks a victim; picking itself, a worker steals nothing.
PickVictim(t) ==
  /\ pc[t] = "pick" \/ (pc[t] = "iterate" /\ cache[t] = <<>> /\ t \in Externals)
  /\ IF Workers = {}
       THEN pc' = [pc EXCEPT ![t] = "global"] /\ UNCHANGED victim
       ELSE \E w \in Workers :
              /\ pc' = [pc EXCEPT ![t] = IF w = t THEN "global" ELSE "gate"]
              /\ victim' = [victim EXCEPT ![t] = IF w = t THEN None ELSE w]
  /\ UNCHANGED <<queue, count, cache, dispatched, finished, running, level, moved>>

\* What attempt_steal comes back with decides whether the global queue is tried.
Stolen(t) == IF cache[t] = <<>> THEN "global" ELSE Loop(t)

NextSteal(t) ==
  /\ NextLevel(t, "gate", Stolen(t))
  /\ victim' = [victim EXCEPT ![t] = IF level[t] < Len(Levels) THEN @ ELSE None]

\* attempt_steal looks at stealable_count.
Gate(t) ==
  /\ pc[t] = "gate"
  /\ IF count[Stealable(victim[t], Levels[level[t]])] > 0
       THEN pc' = [pc EXCEPT ![t] = "steal"] /\ UNCHANGED <<level, victim>>
       ELSE NextSteal(t)
  /\ UNCHANGED <<queue, count, cache, dispatched, finished, running, moved>>

\* Mutant: the thief's bulk leaves the jobs in the queue.
StealCopies(t) ==
  LET q == Stealable(victim[t], Levels[level[t]])
      jobs == Taken(queue[q], CacheSize - Len(cache[t]))
  IN  /\ pc[t] = "steal"
      /\ IF jobs # <<>>
           THEN /\ cache' = [cache EXCEPT ![t] = @ \o jobs]
                /\ moved' = [moved EXCEPT ![t] = Len(jobs)]
                /\ pc' = [pc EXCEPT ![t] = "count_stolen"]
                /\ UNCHANGED <<queue, level, victim>>
           ELSE /\ NextSteal(t)
                /\ UNCHANGED <<queue, cache, moved>>
      /\ UNCHANGED <<count, dispatched, finished, running>>

\* try_dequeue_bulk of attempt_steal, for the space left in the cache.
Steal(t) ==
  LET q == Stealable(victim[t], Levels[level[t]])
      jobs == Taken(queue[q], CacheSize - Len(cache[t]))
  IN  /\ pc[t] = "steal"
      /\ IF jobs # <<>>
           THEN /\ queue' = [queue EXCEPT ![q] = Left(@, Len(jobs))]
                /\ cache' = [cache EXCEPT ![t] = @ \o jobs]
                /\ moved' = [moved EXCEPT ![t] = Len(jobs)]
                /\ pc' = [pc EXCEPT ![t] = "count_stolen"]
                /\ UNCHANGED <<level, victim>>
           ELSE /\ NextSteal(t)
                /\ UNCHANGED <<queue, cache, moved>>
      /\ UNCHANGED <<count, dispatched, finished, running>>

\* stealable_count.fetch_sub.  The thief stops when this one queue filled its cache.
CountStolen(t) ==
  /\ pc[t] = "count_stolen"
  /\ count' = [count EXCEPT ![Stealable(victim[t], Levels[level[t]])] = Decreased(@, moved[t])]
  /\ moved' = [moved EXCEPT ![t] = 0]
  /\ IF moved[t] >= CacheSize
       THEN /\ pc' = [pc EXCEPT ![t] = Loop(t)]
            /\ level' = [level EXCEPT ![t] = 1]
            /\ victim' = [victim EXCEPT ![t] = None]
       ELSE NextSteal(t)
  /\ UNCHANGED <<queue, cache, dispatched, finished, running>>

\* try_dequeue_global: one priority of try_pop_bulk.
PopGlobal(t) ==
  LET q == Local(Global, Levels[level[t]])
      jobs == Taken(queue[q], CacheSize - Len(cache[t]))
  IN  /\ pc[t] = "global"
      /\ queue' = [queue EXCEPT ![q] = Left(@, Len(jobs))]
      /\ cache' = [cache EXCEPT ![t] = @ \o jobs]
      /\ moved' = [moved EXCEPT ![t] = Len(jobs)]
      /\ pc' = [pc EXCEPT ![t] = "count_global"]
      /\ UNCHANGED <<count, dispatched, finished, running, level, victim>>

\* local_count.fetch_sub on global_context.  A full cache ends the access.
CountGlobal(t) ==
  /\ pc[t] = "count_global"
  /\ count' = [count EXCEPT ![Local(Global, Levels[level[t]])] = Decreased(@, moved[t])]
  /\ moved' = [moved EXCEPT ![t] = 0]
  /\ IF Len(cache[t]) = CacheSize
       THEN pc' = [pc EXCEPT ![t] = Loop(t)] /\ level' = [level EXCEPT ![t] = 1]
       ELSE NextLevel(t, "global", Loop(t))
  /\ UNCHANGED <<queue, cache, dispatched, finished, running, victim>>

-----------------------------------------------------------------------------
Step(t) ==
  \/ Submit(t) \/ CountSubmitted(t)
  \/ Pump(t) \/ Execute(t) \/ EndBody(t)
  \/ BeginMigration(t) \/ Migrate(t) \/ Publish(t) \/ PopLocal(t)
  \/ PickVictim(t) \/ Gate(t) \/ Steal(t) \/ CountStolen(t)
  \/ PopGlobal(t) \/ CountGlobal(t)

Next == \E t \in Threads : Step(t)

Spec == Init /\ [][Next]_vars

-----------------------------------------------------------------------------
(* Properties *)

TypeOK ==
  /\ queue \in [Queues -> Seq(Jobs)]
  /\ count \in [Queues -> 0..CountMax]
  /\ cache \in [Threads -> Seq(Jobs)]
  /\ \A t \in Threads : Len(cache[t]) <= CacheSize
  /\ dispatched \in SUBSET Jobs /\ finished \in SUBSET Jobs
  /\ running \in [Threads -> Jobs \cup {None}]
  /\ pc \in [Threads -> {"body", "count_submitted", "iterate", "migrate", "publish", "pop",
                         "pick", "gate", "steal", "count_stolen", "global", "count_global"}]
  /\ level \in [Threads -> 1..Len(Levels)]
  /\ victim \in [Threads -> Workers \cup {None}]
  /\ moved \in [Threads -> 0..Cardinality(Jobs)]

\* The queues, caches and bodies hold every unfinished job, and each in one place:
\* no bulk access of one thread takes a job another thread already has.
Places == Queues \cup ({"cache", "body"} \X Threads)
Contents(x) ==
  CASE x[1] \in {"local", "stealable"} -> queue[x]
    [] x[1] = "cache" -> cache[x[2]]
    [] x[1] = "body" -> IF running[x[2]] = None THEN <<>> ELSE <<running[x[2]]>>
EachJobOnce ==
  /\ UNION {Range(Contents(x)) : x \in Places} = dispatched \ finished
  /\ \A x \in Places : IsInjective(Contents(x))
  /\ \A x, y \in Places : x # y => Range(Contents(x)) \cap Range(Contents(y)) = {}

\* Thread t has put jobs into queue q, or taken jobs out of it, and has still to
\* change its count: an element for each of the jobs.
Adding(t, q) ==
  \/ pc[t] = "count_submitted" /\ q = Local(Global, Levels[level[t]])
  \/ pc[t] = "publish" /\ q = Stealable(t, Levels[level[t]])
Removing(t, q) ==
  \/ pc[t] = "count_global" /\ q = Local(Global, Levels[level[t]])
  \/ pc[t] = "count_stolen" /\ q = Stealable(victim[t], Levels[level[t]])
Owed(q) == {e \in Threads \X (1..Cardinality(Jobs)) : Adding(e[1], q) /\ e[2] <= moved[e[1]]}
Due(q) == {e \in Threads \X (1..Cardinality(Jobs)) : Removing(e[1], q) /\ e[2] <= moved[e[1]]}

\* A count differs from the length of its queue by what threads in the middle of
\* an access still have to add or subtract, and by nothing else: a thief that
\* subtracts before the owner has added wraps the count, and the addition brings
\* it back.
CountsExact ==
  \A q \in Queues :
    count[q] = (Len(queue[q]) + Cardinality(Due(q)) - Cardinality(Owed(q))) % (CountMax + 1)

\* attempt_steal skips a queue whose count is zero.  A zero count hides stealable
\* jobs only while their owner is about to add them.
ZeroHidesNothing ==
  \A w \in Workers, p \in Priorities :
    count[Stealable(w, p)] = 0 /\ queue[Stealable(w, p)] # <<>> =>
      pc[w] = "publish" /\ Levels[level[w]] = p

Rank(j) == CHOOSE i \in 1..Len(Levels) : <<"High", "Normal", "Low">>[i] = Urgency[j]
MoreUrgent(j, k) == Rank(j) < Rank(k)

\* A worker that refills its cache from its own queue leaves no job behind that
\* is more urgent than one it took.
UrgentFirst ==
  [][\A w \in Workers, p \in Priorities :
       \A k \in Range(queue'[Local(w, p)]), j \in Range(cache'[w]) \ Range(cache[w]) :
         pc[w] \in {"iterate", "pop"} => ~MoreUrgent(k, j)]_vars

=============================================================================
