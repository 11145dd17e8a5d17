------------------------------ MODULE Scheduler ------------------------------
(***************************************************************************)
(* The work-stealing scheduler of core/portal/core/jobs: worker threads    *)
(* and external threads executing coroutine handles out of caches, local   *)
(* queues, stealable queues and the global queue, with fork-join counters  *)
(* and the wake signal of wait_for_counter.                                *)
(*                                                                         *)
(* One step is one access to state another thread can see: a queue         *)
(* operation, an access to a Counter, an access to wake_signal.  Work on   *)
(* state that only the executing thread touches is part of the step before *)
(* it.  All jobs have one priority here; the three levels, and the atomic  *)
(* counts beside the queues, are the subject of WorkerQueue.               *)
(***************************************************************************)
EXTENDS Integers, Sequences, FiniteSets

CONSTANTS
  Workers,             \* threads running worker_thread_loop (tls_worker_id < num_workers)
  Externals,           \* every other thread that calls into the Scheduler
  Jobs,                \* coroutine frames
  Creator,             \* Creator[j]: the body (job or external thread) that dispatches j
  Detached,            \* jobs dispatched with counter = nullptr
  Global,              \* names global_context
  None,                \* nullptr
  MaxSuspends,         \* bound: how often one job awaits SuspendJob
  CounterMax,          \* the largest size_t, where Counter::count wraps
  CacheSize,           \* WorkerContext::job_cache.size()
  Threshold,           \* THRESHOLD of migrate_jobs_to_stealable
  MoveCount,           \* MOVE_COUNT of migrate_jobs_to_stealable
  StealCheckInterval   \* WorkerContext::STEAL_CHECK_INTERVAL

Threads == Workers \cup Externals
Bodies == Jobs \cup Externals
Contexts == Workers \cup {Global}

ASSUME NamesAssumption ==
  /\ Workers \cap Externals = {}
  /\ Jobs \cap Threads = {}
  /\ Global \notin Threads \cup Jobs
  /\ None \notin Threads \cup Jobs \cup {Global}

ASSUME ProgramAssumption ==
  /\ IsFiniteSet(Jobs)
  /\ Creator \in [Jobs -> Bodies]
  /\ Detached \subseteq Jobs
  /\ MaxSuspends \in Nat
  /\ CounterMax \in Nat
  /\ Cardinality(Jobs) <= CounterMax

\* global_context has no synchronisation of its own: one external thread at a time.
ASSUME ExternalsAssumption == \A t, u \in Externals : t = u

ASSUME SizesAssumption ==
  /\ CacheSize \in Nat \ {0}
  /\ Threshold \in Nat
  /\ MoveCount \in Nat \ {0}
  /\ MoveCount <= Threshold
  /\ StealCheckInterval \in Nat \ {0}

(***************************************************************************)
(* The containers of coroutine handles.  Stack(t) is the nest of job       *)
(* bodies thread t is inside of (a body waiting in wait_for_counter        *)
(* executes other jobs on top of itself); Batch(t) is job_pointers of the  *)
(* dispatch_jobs call t is in.                                             *)
(***************************************************************************)
Local(x) == <<"local", x>>
Stealable(x) == <<"stealable", x>>
Cache(x) == <<"cache", x>>
Stack(t) == <<"stack", t>>
Batch(t) == <<"batch", t>>

Containers ==
  ({"local", "stealable", "cache"} \X Contexts) \cup ({"stack", "batch"} \X Threads)

VARIABLES
  held,          \* held[c]: the coroutine handles in container c
  phase,         \* phase[j]: "created" (never dispatched), "live", "done" (finalized)
  counter,       \* counter[b]: count of the Counter on the stack of body b
  job_counter,   \* JobPromise::counter
  continuation,  \* JobPromise::continuation: the execute_job frame that resumed the job
  suspends,      \* how often the job has suspended
  wake_signal,   \* Scheduler::wake_signal
  checks,        \* WorkerContext::iterations_since_steal_check
  pc,            \* where the thread is, see Locations
  resuming,      \* the continuation a thread in await_suspend is going to resume
  pumping,       \* external threads inside main_thread_do_work
  stop           \* request_stop was called on every worker

vars == <<held, phase, counter, job_counter, continuation, suspends, wake_signal,
          checks, pc, resuming, pumping, stop>>

(***************************************************************************)
(* A thread is in the body on top of its stack ("body"), in dispatch_jobs  *)
(* after the counter was bumped ("submit"), in wait_for_counter ("check",  *)
(* "set", "recheck", "wait", "asleep"), in worker_thread_iteration         *)
(* ("fetch", "steal", "global"), in an await_suspend ("clear", "notify",   *)
(* "resume") or, for good, out of worker_thread_loop ("stopped").          *)
(***************************************************************************)
Locations ==
  {"body", "submit", "check", "set", "recheck", "wait", "asleep",
   "fetch", "steal", "global", "clear", "notify", "resume", "stopped"}

-----------------------------------------------------------------------------
(* Helpers *)

\* get_context
Ctx(t) == IF t \in Workers THEN t ELSE Global

LastOf(s) == s[Len(s)]
FrontOf(s) == SubSeq(s, 1, Len(s) - 1)
Least(m, n) == IF m <= n THEN m ELSE n
ElementsOf(s) == {s[i] : i \in 1..Len(s)}

\* The first n handles leave s, or all of them (try_dequeue_bulk).  Mutants: a
\* dequeue that leaves the handles behind, and one that skips a handle.
Taken(s, n) == SubSeq(s, 1, Least(n, Len(s)))
LeftKept(s, n) == s
LeftSkipping(s, n) == SubSeq(s, Least(n, Len(s)) + 2, Len(s))
Left(s, n) == SubSeq(s, Least(n, Len(s)) + 1, Len(s))

\* The innermost body thread t is inside of: a job, or an external thread's own code.
InLoop(t) == t \in Workers /\ held[Stack(t)] = <<>>
Top(t) == IF held[Stack(t)] = <<>> THEN t ELSE LastOf(held[Stack(t)])

\* Where worker_thread_iteration returns to: the wait_for_counter loop of the
\* innermost body, worker_thread_loop, or the caller of main_thread_do_work.
Caller(t, nest) ==
  CASE nest = <<>> /\ t \in Workers -> "fetch"
    [] nest = <<>> /\ t \in pumping -> "body"
    [] OTHER -> "check"

Goto(t, location) == pc' = [pc EXCEPT ![t] = location]

\* A worker_thread_iteration that ends without resuming a job.
EndIteration(t, location) ==
  /\ Goto(t, location)
  /\ pumping' = IF held[Stack(t)] = <<>> THEN pumping \ {t} ELSE pumping

Children(b) == {j \in Jobs : Creator[j] = b}
Undispatched(b) == {j \in Children(b) : phase[j] = "created"}

\* The job lists a body may hand to dispatch_jobs: all with a counter, or all without.
Batches(S) ==
  {s \in UNION {[1..n -> S] : n \in 1..Cardinality(S)} :
     /\ \A i, k \in DOMAIN s : s[i] = s[k] => i = k
     /\ \A i \in DOMAIN s : s[i] \in Detached <=> s[1] \in Detached}

FetchAdd(n, k) == (n + k) % (CounterMax + 1)
FetchSub(n) == IF n = 0 THEN CounterMax ELSE n - 1

-----------------------------------------------------------------------------
Init ==
  /\ held = [c \in Containers |-> <<>>]
  /\ phase = [j \in Jobs |-> "created"]
  /\ counter = [b \in Bodies |-> 0]
  /\ job_counter = [j \in Jobs |-> None]
  /\ continuation = [j \in Jobs |-> None]
  /\ suspends = [j \in Jobs |-> 0]
  /\ wake_signal = FALSE
  /\ checks = [w \in Workers |-> 0]
  /\ pc = [t \in Threads |-> IF t \in Workers THEN "fetch" ELSE "body"]
  /\ resuming = [t \in Threads |-> None]
  /\ pumping = {}
  /\ stop = FALSE

-----------------------------------------------------------------------------
(* Dispatching.  A body hands over jobs nobody dispatched before.          *)

\* dispatch_jobs up to the fetch_add: mark the jobs and bump the counter.
DispatchJobs(t) ==
  /\ pc[t] = "body" /\ ~stop
  /\ \E batch \in Batches(Undispatched(Top(t))) :
       LET counted == batch[1] \notin Detached
       IN  /\ phase' = [j \in Jobs |-> IF j \in ElementsOf(batch) THEN "live" ELSE phase[j]]
           /\ job_counter' = [j \in Jobs |->
                IF counted /\ j \in ElementsOf(batch) THEN Top(t) ELSE job_counter[j]]
           /\ counter' = IF counted
                           THEN [counter EXCEPT ![Top(t)] = FetchAdd(@, Len(batch))]
                           ELSE counter
           /\ held' = [held EXCEPT ![Batch(t)] = batch]
  /\ Goto(t, "submit")
  /\ UNCHANGED <<continuation, suspends, wake_signal, checks, resuming, pumping, stop>>

\* submit_job_batch into the queue of the dispatching thread.  A dispatch made
\* by SuspendJob goes on to signal_wake, any other returns to the body.
SubmitJobs(t) ==
  /\ pc[t] = "submit"
  /\ held' = [held EXCEPT ![Local(Ctx(t))] = @ \o held[Batch(t)],
                          ![Batch(t)] = <<>>]
  /\ Goto(t, IF resuming[t] = None THEN "body" ELSE "clear")
  /\ UNCHANGED <<phase, counter, job_counter, continuation, suspends, wake_signal,
                 checks, resuming, pumping, stop>>

-----------------------------------------------------------------------------
(* wait_for_counter *)

\* A call whose counter is zero returns at once and changes nothing.
BeginWait(t) ==
  /\ pc[t] = "body"
  /\ counter[Top(t)] > 0
  /\ Goto(t, "check")
  /\ UNCHANGED <<held, phase, counter, job_counter, continuation, suspends,
                 wake_signal, checks, resuming, pumping, stop>>

\* The head of the while loop.
CheckCounter(t) ==
  /\ pc[t] = "check"
  /\ Goto(t, IF counter[Top(t)] > 0 THEN "fetch" ELSE "body")
  /\ UNCHANGED <<held, phase, counter, job_counter, continuation, suspends,
                 wake_signal, checks, resuming, pumping, stop>>

SetWakeSignal(t) ==
  /\ pc[t] = "set"
  /\ wake_signal' = TRUE
  /\ Goto(t, "recheck")
  /\ UNCHANGED <<held, phase, counter, job_counter, continuation, suspends,
                 checks, resuming, pumping, stop>>

\* Mutant: the signal is armed and waited for without a second look at the counter.
WaitUnchecked(t) ==
  /\ pc[t] = "recheck"
  /\ Goto(t, "wait")
  /\ UNCHANGED <<held, phase, counter, job_counter, continuation, suspends,
                 wake_signal, checks, resuming, pumping, stop>>

\* The second look at the counter, after the signal was armed.  Disarming it
\* (wake_signal.clear) notifies nobody.
RecheckCounter(t) ==
  /\ pc[t] = "recheck"
  /\ IF counter[Top(t)] > 0
       THEN Goto(t, "wait") /\ UNCHANGED wake_signal
       ELSE Goto(t, "check") /\ wake_signal' = FALSE
  /\ UNCHANGED <<held, phase, counter, job_counter, continuation, suspends,
                 checks, resuming, pumping, stop>>

\* Mutant: a thread that is woken leaves wait_for_counter without another look.
WaitWithoutLoop(t) ==
  /\ pc[t] = "wait"
  /\ Goto(t, IF wake_signal THEN "asleep" ELSE "body")
  /\ UNCHANGED <<held, phase, counter, job_counter, continuation, suspends,
                 wake_signal, checks, resuming, pumping, stop>>

\* atomic_flag::wait(true): return if the flag is clear, else block.
WaitForSignal(t) ==
  /\ pc[t] = "wait"
  /\ Goto(t, IF wake_signal THEN "asleep" ELSE "check")
  /\ UNCHANGED <<held, phase, counter, job_counter, continuation, suspends,
                 wake_signal, checks, resuming, pumping, stop>>

-----------------------------------------------------------------------------
(* worker_thread_iteration *)

\* main_thread_do_work: one iteration on the global context.
PumpMainThread(t) ==
  /\ t \in Externals
  /\ pc[t] = "body" /\ held[Stack(t)] = <<>> /\ ~stop
  /\ Goto(t, "fetch")
  /\ pumping' = pumping \cup {t}
  /\ UNCHANGED <<held, phase, counter, job_counter, continuation, suspends,
                 wake_signal, checks, resuming, stop>>

\* JobAwaiter::await_suspend.  Mutant: a job keeps the frame that first resumed it.
SetContinuationOnce(job, t) ==
  [continuation EXCEPT ![job] = IF @ = None THEN t ELSE @]
SetContinuation(job, t) == [continuation EXCEPT ![job] = t]

\* The cache holds a job: take the last one and resume it (execute_job).
ExecuteCached(t) ==
  LET cache == held[Cache(Ctx(t))]
      job == LastOf(cache)
  IN  /\ pc[t] = "fetch" /\ ~(InLoop(t) /\ stop)
      /\ cache # <<>>
      /\ held' = [held EXCEPT ![Cache(Ctx(t))] = FrontOf(@), ![Stack(t)] = Append(@, job)]
      /\ continuation' = SetContinuation(job, t)
      /\ Goto(t, "body")
      /\ UNCHANGED <<phase, counter, job_counter, suspends, wake_signal, checks,
                     resuming, pumping, stop>>

\* The handles migrate_jobs_to_stealable moves out of a local queue.
Migrating(queue) == IF Len(queue) > Threshold THEN Taken(queue, MoveCount) ELSE <<>>

\* iterations_since_steal_check after another iteration; a worker whose count
\* comes back to zero migrates.  Mutant: the count is never reset.
NextCheckNoReset(n) == n + 1
NextCheck(n) == IF n + 1 >= StealCheckInterval THEN 0 ELSE n + 1

\* A worker whose cache is empty: every StealCheckInterval-th time expose part
\* of the local queue to thieves, then refill the cache from the local queue.
RefillFromLocal(t) ==
  LET due == NextCheck(checks[t]) = 0
      queue == held[Local(t)]
      exposed == IF due THEN Migrating(queue) ELSE <<>>
      rest == Left(queue, Len(exposed))
      filled == Taken(rest, CacheSize)
  IN  /\ t \in Workers
      /\ pc[t] = "fetch" /\ ~(InLoop(t) /\ stop)
      /\ held[Cache(t)] = <<>>
      /\ checks' = [checks EXCEPT ![t] = NextCheck(@)]
      /\ held' = [held EXCEPT ![Local(t)] = Left(rest, CacheSize),
                              ![Stealable(t)] = @ \o exposed,
                              ![Cache(t)] = filled]
      /\ Goto(t, IF filled = <<>> THEN "steal" ELSE Caller(t, held[Stack(t)]))
      /\ UNCHANGED <<phase, counter, job_counter, continuation, suspends,
                     wake_signal, resuming, pumping, stop>>

\* A thread that is no worker never pops its own queue here.
SkipLocal(t) ==
  /\ t \in Externals
  /\ pc[t] = "fetch"
  /\ held[Cache(Global)] = <<>>
  /\ Goto(t, "steal")
  /\ UNCHANGED <<held, phase, counter, job_counter, continuation, suspends,
                 wake_signal, checks, resuming, pumping, stop>>

\* Mutant: the victim is drawn from one worker too few.
StealFromAllButOne(t, victim) ==
  LET queue == held[Stealable(victim)]
  IN  /\ pc[t] = "steal"
      /\ victim \notin {t, CHOOSE w \in Workers : TRUE}
      /\ queue # <<>>
      /\ held' = [held EXCEPT ![Stealable(victim)] = Left(queue, CacheSize),
                              ![Cache(Ctx(t))] = Taken(queue, CacheSize)]
      /\ EndIteration(t, Caller(t, held[Stack(t)]))
      /\ UNCHANGED <<phase, counter, job_counter, continuation, suspends,
                     wake_signal, checks, resuming, stop>>

\* try_steal finds something at the victim the random generator picked.
StealFrom(t, victim) ==
  LET queue == held[Stealable(victim)]
  IN  /\ pc[t] = "steal"
      /\ victim # t
      /\ queue # <<>>
      /\ held' = [held EXCEPT ![Stealable(victim)] = Left(queue, CacheSize),
                              ![Cache(Ctx(t))] = Taken(queue, CacheSize)]
      /\ EndIteration(t, Caller(t, held[Stack(t)]))
      /\ UNCHANGED <<phase, counter, job_counter, continuation, suspends,
                     wake_signal, checks, resuming, stop>>

\* try_steal comes back with nothing: no workers, the thief picked itself, or
\* the one victim it picked has nothing stealable.
StealNothing(t) ==
  /\ pc[t] = "steal"
  /\ Workers # {} => \E victim \in Workers : victim = t \/ held[Stealable(victim)] = <<>>
  /\ Goto(t, "global")
  /\ UNCHANGED <<held, phase, counter, job_counter, continuation, suspends,
                 wake_signal, checks, resuming, pumping, stop>>

\* try_dequeue_global.  After EmptyQueue a waiting thread arms the wake signal.
FetchGlobal(t) ==
  LET queue == held[Local(Global)]
      caller == Caller(t, held[Stack(t)])
  IN  /\ pc[t] = "global"
      /\ held' = [held EXCEPT ![Local(Global)] = Left(queue, CacheSize),
                              ![Cache(Ctx(t))] = Taken(queue, CacheSize)]
      /\ EndIteration(t, IF queue = <<>> /\ caller = "check" THEN "set" ELSE caller)
      /\ UNCHANGED <<phase, counter, job_counter, continuation, suspends,
                     wake_signal, checks, resuming, stop>>

-----------------------------------------------------------------------------
(* Suspension points of a job *)

\* Mutant: a suspended job is counted off as if it had finished.
SuspendDecrements(t) ==
  LET job == Top(t)
  IN  /\ pc[t] = "body" /\ held[Stack(t)] # <<>>
      /\ suspends[job] < MaxSuspends
      /\ suspends' = [suspends EXCEPT ![job] = @ + 1]
      /\ counter' = IF job_counter[job] # None
                      THEN [counter EXCEPT ![job_counter[job]] = FetchSub(@)]
                      ELSE counter
      /\ resuming' = [resuming EXCEPT ![t] = continuation[job]]
      /\ held' = [held EXCEPT ![Stack(t)] = FrontOf(@), ![Batch(t)] = <<job>>]
      /\ Goto(t, "submit")
      /\ UNCHANGED <<phase, job_counter, continuation, wake_signal, checks, pumping, stop>>

\* SuspendJob::await_suspend: read the continuation, then dispatch the handle
\* again without a counter (the job keeps the one it has).
SuspendJob(t) ==
  LET job == Top(t)
  IN  /\ pc[t] = "body" /\ held[Stack(t)] # <<>>
      /\ suspends[job] < MaxSuspends
      /\ suspends' = [suspends EXCEPT ![job] = @ + 1]
      /\ resuming' = [resuming EXCEPT ![t] = continuation[job]]
      /\ held' = [held EXCEPT ![Stack(t)] = FrontOf(@), ![Batch(t)] = <<job>>]
      /\ Goto(t, "submit")
      /\ UNCHANGED <<phase, counter, job_counter, continuation, wake_signal, checks,
                     pumping, stop>>

\* FinalizeJob::await_suspend up to the fetch_sub.  The body has dispatched all
\* its jobs, and its Counter, which dies with it, has no job left.
FinalizeJob(t) ==
  LET job == Top(t)
  IN  /\ pc[t] = "body" /\ held[Stack(t)] # <<>>
      /\ Undispatched(job) = {}
      /\ counter[job] = 0
      /\ phase' = [phase EXCEPT ![job] = "done"]
      /\ counter' = IF job_counter[job] # None
                      THEN [counter EXCEPT ![job_counter[job]] = FetchSub(@)]
                      ELSE counter
      /\ resuming' = [resuming EXCEPT ![t] = continuation[job]]
      /\ held' = [held EXCEPT ![Stack(t)] = FrontOf(@)]
      /\ Goto(t, "clear")
      /\ UNCHANGED <<job_counter, continuation, suspends, wake_signal, checks, pumping, stop>>

\* signal_wake: clear the flag, then notify_all.
ClearWakeSignal(t) ==
  /\ pc[t] = "clear"
  /\ wake_signal' = FALSE
  /\ Goto(t, "notify")
  /\ UNCHANGED <<held, phase, counter, job_counter, continuation, suspends,
                 checks, resuming, pumping, stop>>

\* Mutant: the flag is cleared and nobody is told.
NotifyNobody(t) ==
  /\ pc[t] = "notify"
  /\ Goto(t, "resume")
  /\ UNCHANGED <<held, phase, counter, job_counter, continuation, suspends,
                 wake_signal, checks, resuming, pumping, stop>>

NotifyAll(t) ==
  /\ pc[t] = "notify"
  /\ pc' = [u \in Threads |-> IF u = t THEN "resume"
                              ELSE IF pc[u] = "asleep" THEN "wait" ELSE pc[u]]
  /\ UNCHANGED <<held, phase, counter, job_counter, continuation, suspends,
                 wake_signal, checks, resuming, pumping, stop>>

\* The execute_job frame is resumed, ends, and the iteration reports Executed.
ResumeContinuation(t) ==
  /\ pc[t] = "resume"
  /\ resuming[t] = t
  /\ resuming' = [resuming EXCEPT ![t] = None]
  /\ EndIteration(t, Caller(t, held[Stack(t)]))
  /\ UNCHANGED <<held, phase, counter, job_counter, continuation, suspends,
                 wake_signal, checks, stop>>

-----------------------------------------------------------------------------
(* Shutdown *)

\* ~Scheduler.  Its documentation asks that all jobs have completed.
DestroyScheduler(t) ==
  /\ t \in Externals
  /\ ~stop
  /\ \A u \in Externals : pc[u] = "body" /\ held[Stack(u)] = <<>>
  /\ \A j \in Jobs : phase[j] = "done"
  /\ stop' = TRUE
  /\ UNCHANGED <<held, phase, counter, job_counter, continuation, suspends,
                 wake_signal, checks, pc, resuming, pumping>>

\* worker_thread_loop looks at its stop token before every iteration.
StopWorker(t) ==
  /\ pc[t] = "fetch" /\ InLoop(t)
  /\ stop
  /\ Goto(t, "stopped")
  /\ UNCHANGED <<held, phase, counter, job_counter, continuation, suspends,
                 wake_signal, checks, resuming, pumping, stop>>

\* Every worker is joined; the destructor has returned.
Destroyed ==
  /\ stop
  /\ \A w \in Workers : pc[w] = "stopped"
  /\ UNCHANGED vars

-----------------------------------------------------------------------------
\* What the bodies decide, and what the scheduler's own code does next.
BodyStep(t) ==
  \/ DispatchJobs(t)
  \/ BeginWait(t)
  \/ PumpMainThread(t)
  \/ SuspendJob(t)
  \/ FinalizeJob(t)
  \/ DestroyScheduler(t)

SchedulerStep(t) ==
  \/ SubmitJobs(t)
  \/ CheckCounter(t)
  \/ SetWakeSignal(t)
  \/ RecheckCounter(t)
  \/ WaitForSignal(t)
  \/ ExecuteCached(t)
  \/ RefillFromLocal(t)
  \/ SkipLocal(t)
  \/ \E victim \in Workers : StealFrom(t, victim)
  \/ StealNothing(t)
  \/ FetchGlobal(t)
  \/ ClearWakeSignal(t)
  \/ NotifyAll(t)
  \/ ResumeContinuation(t)
  \/ StopWorker(t)

Next ==
  \/ \E t \in Threads : BodyStep(t) \/ SchedulerStep(t)
  \/ Destroyed

Spec == Init /\ [][Next]_vars

-----------------------------------------------------------------------------
(* Fairness: threads are scheduled, bodies do not run forever, and the random  *)
(* generator of try_steal does not avoid a victim forever.                     *)
BodyProgress(t) == DispatchJobs(t) \/ BeginWait(t) \/ SuspendJob(t) \/ FinalizeJob(t)

Fairness ==
  /\ \A t \in Threads : WF_vars(SchedulerStep(t))
  /\ \A w \in Workers : WF_vars(BodyProgress(w))
  /\ \A e \in Externals : SF_vars(BodyProgress(e))
  /\ \A t \in Threads : \A victim \in Workers \ {t} : SF_vars(StealFrom(t, victim))

FairSpec == Spec /\ Fairness

-----------------------------------------------------------------------------
(* Properties *)

TypeOK ==
  /\ held \in [Containers -> Seq(Jobs)]
  /\ phase \in [Jobs -> {"created", "live", "done"}]
  /\ counter \in [Bodies -> 0..CounterMax]
  /\ job_counter \in [Jobs -> Bodies \cup {None}]
  /\ continuation \in [Jobs -> Threads \cup {None}]
  /\ suspends \in [Jobs -> 0..MaxSuspends]
  /\ wake_signal \in BOOLEAN
  /\ checks \in [Workers -> 0..(StealCheckInterval - 1)]
  /\ pc \in [Threads -> Locations]
  /\ resuming \in [Threads -> Threads \cup {None}]
  /\ pumping \in SUBSET Externals
  /\ stop \in BOOLEAN

\* A coroutine handle is in at most one place, once: no two threads can resume
\* the same coroutine, and no queue hands a job out twice.
HandleUnique ==
  \A c, d \in Containers : \A i \in DOMAIN held[c], k \in DOMAIN held[d] :
    held[c][i] = held[d][k] => c = d /\ i = k

\* Every job that was dispatched and has not finished is in some container, and
\* nothing else is: no handle is dropped between queues and caches, and a
\* finished coroutine is never queued (resuming it would be undefined).
NoJobLost ==
  {j \in Jobs : phase[j] = "live"} = UNION {ElementsOf(held[c]) : c \in Containers}

\* A Counter holds the number of its jobs that have not finalized yet, at every
\* moment: never less (wait_for_counter would return early), never more (it would
\* never return), never wrapped below zero.
Pending(b) == {j \in Jobs : phase[j] = "live" /\ job_counter[j] = b}
CounterExact == \A b \in Bodies : counter[b] = Cardinality(Pending(b))

\* A job that will decrement a Counter finds the body it lives in unfinished.
CounterAlive ==
  \A j \in Jobs :
    (phase[j] = "live" /\ job_counter[j] \in Jobs) => phase[job_counter[j]] = "live"

\* await_suspend returns to the execute_job frame of its own thread, even when
\* the suspended job was already picked up and resumed by another thread.
ReturnsToOwnFrame == \A t \in Threads : resuming[t] \in {None, t}

\* A thread blocked in wait_for_counter on a finished counter is about to be
\* woken by the finalizer.  True while one thread at a time waits.
SleeperWillBeWoken ==
  \A t \in Threads :
    pc[t] = "asleep" /\ counter[Top(t)] = 0 =>
      \E u \in Threads : pc[u] = "clear" \/ (pc[u] = "notify" /\ ~wake_signal)

\* wait_for_counter comes back only when every job counted on it has finished.
JoinComplete ==
  [][\A t \in Threads : pc[t] = "check" /\ pc'[t] = "body" => Pending(Top(t)) = {}]_vars

\* Every dispatched job finishes.
AllJobsFinish == \A j \in Jobs : phase[j] = "live" ~> phase[j] = "done"

\* A thread whose counter has dropped to zero comes out of wait_for_counter.
WaitReturns ==
  \A t \in Threads : pc[t] = "asleep" /\ counter[Top(t)] = 0 ~> pc[t] # "asleep"

-----------------------------------------------------------------------------
(* The scheduler implements ForkJoin.                                      *)

\* The bodies thread t is inside of, the innermost last.
Nest(t) == (IF t \in Externals THEN <<t>> ELSE <<>>) \o held[Stack(t)]

\* The innermost body of t is running its own code or is inside dispatch_jobs.
InBody(t) == pc[t] = "body" \/ (pc[t] = "submit" /\ resuming[t] = None)

\* Every body of the nest is inside wait_for_counter, but for the innermost one
\* while it acts and an external thread inside main_thread_do_work.
WaitingOf(t) ==
  LET depth == IF InBody(t) THEN Len(Nest(t)) - 1 ELSE Len(Nest(t))
  IN  {Nest(t)[i] : i \in 1..depth} \ pumping

OnStack(j) == \E t \in Threads : j \in ElementsOf(held[Stack(t)])

JobState(j) ==
  CASE phase[j] # "live" -> phase[j]
    [] OnStack(j) -> "running"
    [] OTHER -> "ready"

Abstract == INSTANCE ForkJoin
  WITH state <- [j \in Jobs |-> JobState(j)],
       waiting <- UNION {WaitingOf(t) : t \in Threads}

\* The scheduler does what ForkJoin promises.
ImplementsForkJoin == Abstract!Spec

=============================================================================
