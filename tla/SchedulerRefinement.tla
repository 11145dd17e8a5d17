-------------------------- MODULE SchedulerRefinement --------------------------
(***************************************************************************)
(* Scheduler implements ForkJoin, for every set of jobs and workers and    *)
(* every program, proved.                                                  *)
(*                                                                         *)
(* The abstract state is read off the stacks of the threads: a job is      *)
(* running while it is on a stack, and a body waits unless it acts, which  *)
(* only the innermost body of a thread does.  So a step maps to a step of  *)
(* ForkJoin when it changes a stack, a phase, or whether a thread acts,    *)
(* and to a stutter otherwise.  Besides IInv this needs to know that a     *)
(* thread that is to resume a frame is inside an await_suspend, that an    *)
(* external thread inside main_thread_do_work does not act, and that each  *)
(* job is counted by the body that dispatched it.                          *)
(*                                                                         *)
(* Who waits, thread by thread, is also what the wake signal needs: where  *)
(* one body alone waits, nobody sleeps through the end of its jobs.        *)
(***************************************************************************)
EXTENDS SchedulerProofs

Suspending == \A t \in Threads : resuming[t] # None => pc[t] \in {"submit", "clear", "notify", "resume"}
PumpingIdles == \A t \in pumping : AtBody(t) => held[Stack(t)] # <<>>
CountedByCreator ==
  \A j \in Jobs \ Detached : phase[j] = "live" => job_counter[j] = Creator[j]

RInv == IInv /\ Suspending /\ PumpingIdles /\ CountedByCreator

-----------------------------------------------------------------------------
(* The abstract state, thread by thread.                                   *)
Running(t) == ElementsOf(held[Stack(t)])
Bodied(t) == Running(t) \cup ({t} \cap Externals)
Waits(t) == (IF InBody(t) THEN Bodied(t) \ {Top(t)} ELSE Bodied(t)) \ ({t} \cap pumping)
Waiting == UNION {Waits(t) : t \in Threads}
StateOf(j) ==
  IF phase[j] # "live" THEN phase[j]
  ELSE IF \E t \in Threads : j \in Running(t) THEN "running" ELSE "ready"
States == [j \in Jobs |-> StateOf(j)]

LEMMA StackContents ==
  ASSUME IInv, NEW t \in Threads
  PROVE  /\ Stack(t) \in Containers /\ held[Stack(t)] \in Seq(Jobs) /\ Distinct(held[Stack(t)])
         /\ Running(t) \subseteq Jobs /\ t \notin Jobs
         /\ \A j \in Running(t) : phase[j] = "live"
         /\ \A u \in Threads \ {t} : Running(t) \cap Running(u) = {}
         /\ \A u \in Threads \ {t} : Bodied(t) \cap Bodied(u) = {}
<1>1. Stack(t) \in Containers /\ \A u \in Threads \ {t} : Stack(u) \in Containers /\ Stack(u) # Stack(t)
  BY ContainerNames
<1>2. held[Stack(t)] \in Seq(Jobs) /\ Distinct(held[Stack(t)]) /\ Running(t) \subseteq Placed(held)
  BY <1>1, HeldPlacement, UniqueParts, PlacedOf DEF Running
<1>3. \A u \in Threads \ {t} : Running(t) \cap Running(u) = {}
  BY <1>1, HeldPlacement, UniqueParts DEF Running
<1>4. Running(t) \subseteq Jobs /\ \A j \in Running(t) : phase[j] = "live"
  BY <1>2, HeldPlacement
<1>5. \A u \in Threads : u \notin Jobs
  BY NamesAssumption
<1>6. \A u \in Threads : Running(u) \subseteq Jobs
  <2> SUFFICES ASSUME NEW u \in Threads PROVE Running(u) \subseteq Jobs
    OBVIOUS
  <2> QED  BY ContainerNames, HeldPlacement, PlacedOf DEF Running
<1>7. \A u \in Threads \ {t} : Bodied(t) \cap Bodied(u) = {}
  BY <1>3, <1>5, <1>6 DEF Bodied
<1> QED  BY <1>1, <1>2, <1>3, <1>4, <1>5, <1>7

(* A thread that acts does so for the innermost of its bodies.             *)
LEMMA TopOnStack ==
  ASSUME IInv, NEW t \in Threads, AtBody(t)
  PROVE  /\ Top(t) \in Bodied(t)
         /\ held[Stack(t)] # <<>> => Top(t) \in Running(t)
         /\ held[Stack(t)] = <<>> => Top(t) = t /\ t \in Externals
<1>1. held[Stack(t)] = <<>> => t \in Externals
  BY DEF IInv, ControlInv, BodiesOnStack, Threads
<1>2. held[Stack(t)] # <<>> => LastOf(held[Stack(t)]) \in Running(t)
  BY StackContents, FrontLast DEF Running
<1> QED  BY <1>1, <1>2 DEF Top, Bodied

(* What WaitingOf reads off the nest of a thread.                          *)
LEMMA WaitingByThread ==
  ASSUME IInv, NEW t \in Threads
  PROVE  WaitingOf(t) = Waits(t)
<1> DEFINE s == held[Stack(t)]
           base == IF t \in Externals THEN <<t>> ELSE <<>>
           nest == base \o s
<1>1. s \in Seq(Jobs) /\ Distinct(s) /\ ElementsOf(s) = Running(t) /\ Running(t) \subseteq Jobs /\ t \notin Jobs
  BY StackContents DEF Running
<1>2. base \in Seq(Bodies) /\ Distinct(base) /\ ElementsOf(base) = {t} \cap Externals
  <2>1. CASE t \in Externals
    <3>1. t \in Bodies
      BY <2>1 DEF Bodies
    <3>2. <<t>> \in Seq(Bodies) /\ Distinct(<<t>>) /\ ElementsOf(<<t>>) = {t}
      BY <3>1, Singleton
    <3> QED  BY <2>1, <3>2
  <2>2. CASE t \notin Externals
    <3>1. <<>> \in Seq(Bodies) /\ Distinct(<<>>) /\ ElementsOf(<<>>) = {}
      BY EmptyQueue
    <3> QED  BY <2>2, <3>1
  <2> QED  BY <2>1, <2>2
<1>3. s \in Seq(Bodies)
  BY <1>1 DEF Bodies
<1>4. s = <<>> /\ t \in Externals => nest # <<>> /\ LastOf(nest) = t
  BY DEF LastOf
<1> HIDE DEF base
<1>5. Len(nest) = Len(base) + Len(s) /\ (s # <<>> => nest # <<>> /\ LastOf(nest) = LastOf(s))
  <2>1. /\ Len(nest) = Len(base) + Len(s)
        /\ \A i \in 1..(Len(base) + Len(s)) :
             nest[i] = IF i <= Len(base) THEN base[i] ELSE s[i - Len(base)]
    BY <1>2, <1>3, ConcatProperties
  <2>2. Len(base) \in Nat /\ Len(s) \in Nat
    BY <1>2, <1>3
  <2>3. ASSUME s # <<>> PROVE nest # <<>> /\ LastOf(nest) = LastOf(s)
    <3>1. Len(s) \in Nat \ {0}
      BY <1>1, <2>3, EmptySeq
    <3>2. nest[Len(nest)] = s[Len(s)] /\ Len(nest) # 0
      BY <2>1, <2>2, <3>1
    <3> QED  BY <3>2 DEF LastOf
  <2> QED  BY <2>1, <2>3
<1> HIDE DEF s
<1>6. nest \in Seq(Bodies) /\ Distinct(nest) /\ ElementsOf(nest) = Bodied(t)
  <2>1. ElementsOf(base) \cap ElementsOf(s) = {}
    BY <1>1, <1>2
  <2>2. nest \in Seq(Bodies) /\ Distinct(nest) /\ ElementsOf(nest) = ElementsOf(base) \cup ElementsOf(s)
    BY <1>2, <1>1, <1>3, <2>1, Concatenation
  <2> QED  BY <2>2, <1>1, <1>2 DEF Bodied
<1>7. nest = Nest(t)
  BY DEF Nest, base, s
<1> HIDE DEF nest
<1>8. ASSUME InBody(t) PROVE {nest[i] : i \in 1..(Len(nest) - 1)} = Bodied(t) \ {Top(t)}
  <2>1. AtBody(t)
    BY <1>8 DEF InBody, AtBody
  <2>2. nest # <<>> /\ LastOf(nest) = Top(t)
    BY <2>1, <1>4, <1>5, TopOnStack DEF Top, s
  <2>3. ElementsOf(FrontOf(nest)) = ElementsOf(nest) \ {LastOf(nest)}
    BY <1>6, <2>2, FrontLast
  <2>4. Len(nest) \in Nat \ {0} /\ DOMAIN nest = 1..Len(nest)
    BY <1>6, <2>2, EmptySeq
  <2>5. Len(FrontOf(nest)) = Len(nest) - 1 /\ \A i \in 1..(Len(nest) - 1) : FrontOf(nest)[i] = nest[i]
    <3>1. nest \in Seq(Bodies)
      BY <1>6
    <3> QED  BY <3>1, <2>4 DEF FrontOf
  <2>6. ElementsOf(FrontOf(nest)) = {nest[i] : i \in 1..(Len(nest) - 1)}
    BY <2>5 DEF ElementsOf
  <2> QED  BY <1>6, <2>2, <2>3, <2>6
<1>9. ElementsOf(nest) = {nest[i] : i \in 1..Len(nest)}
  BY DEF ElementsOf
<1>10. Bodied(t) \cap pumping = Bodied(t) \cap {t} \cap pumping
  BY <1>1, NamesAssumption DEF IInv, TypeOK, Bodied, Threads
<1>11. CASE InBody(t)
  <2>1. WaitingOf(t) = {nest[i] : i \in 1..(Len(nest) - 1)} \ pumping
    BY <1>7, <1>11 DEF WaitingOf
  <2> QED  BY <2>1, <1>8, <1>10, <1>11 DEF Waits
<1>12. CASE ~InBody(t)
  <2>1. WaitingOf(t) = {nest[i] : i \in 1..Len(nest)} \ pumping
    BY <1>7, <1>12 DEF WaitingOf
  <2> QED  BY <2>1, <1>6, <1>9, <1>10, <1>12 DEF Waits
<1> QED  BY <1>11, <1>12

(* The abstract variables.                                                 *)
LEMMA WaitingBodies == IInv => UNION {WaitingOf(t) : t \in Threads} = Waiting
BY WaitingByThread DEF Waiting

LEMMA JobStates == IInv => [j \in Jobs |-> JobState(j)] = States
<1> SUFFICES ASSUME IInv, NEW j \in Jobs PROVE JobState(j) = StateOf(j)
  BY DEF States
<1>1. OnStack(j) <=> \E t \in Threads : j \in Running(t)
  BY DEF OnStack, Running
<1>2. OnStack(j) => phase[j] = "live"
  BY <1>1, StackContents
<1>3. CASE phase[j] # "live"
  BY <1>2, <1>3 DEF JobState, StateOf
<1>4. CASE phase[j] = "live" /\ OnStack(j)
  BY <1>1, <1>4 DEF JobState, StateOf
<1>5. CASE phase[j] = "live" /\ ~OnStack(j)
  BY <1>1, <1>5 DEF JobState, StateOf
<1> QED  BY <1>3, <1>4, <1>5

-----------------------------------------------------------------------------
(* What a step of one thread leaves alone.                                 *)

\* Nothing that is read off thread u has changed.
Kept(u) ==
  /\ held'[Stack(u)] = held[Stack(u)]
  /\ resuming'[u] = resuming[u]
  /\ u \in pumping' <=> u \in pumping
  /\ pc'[u] = pc[u] \/ (pc[u] = "asleep" /\ pc'[u] = "wait")

StepOf(t) == BodyStep(t) \/ SchedulerStep(t)

LEMMA KeptStacks ==
  ASSUME IInv, NEW t \in Threads, StepOf(t), NEW u \in Threads \ {t}
  PROVE  held'[Stack(u)] = held[Stack(u)]
<1>1. /\ Stack(u) \in Containers /\ Stack(u) # Stack(t)
      /\ \A x : /\ Stack(u) # Local(x) /\ Stack(u) # Stealable(x)
                /\ Stack(u) # Cache(x) /\ Stack(u) # Batch(x)
  BY ContainerNames
<1>2. held \in [Containers -> Seq(Jobs)]
  BY DEF IInv, TypeOK
<1>3. CASE BodyStep(t)
  BY <1>1, <1>2, <1>3
  DEF BodyStep, DispatchJobs, BeginWait, PumpMainThread, SuspendJob, FinalizeJob, DestroyScheduler
<1>4. CASE SchedulerStep(t)
  <2>1. CASE SubmitJobs(t)
    BY <1>1, <1>2, <2>1 DEF SubmitJobs
  <2>2. CASE ExecuteCached(t)
    BY <1>1, <1>2, <2>2 DEF ExecuteCached
  <2>3. CASE RefillFromLocal(t)
    BY <1>1, <1>2, <2>3 DEF RefillFromLocal
  <2>4. CASE \E victim \in Workers : StealFrom(t, victim)
    BY <1>1, <1>2, <2>4 DEF StealFrom
  <2>5. CASE FetchGlobal(t)
    BY <1>1, <1>2, <2>5 DEF FetchGlobal
  <2>6. CASE UNCHANGED held
    BY <2>6
  <2> QED
    BY <1>4, <2>1, <2>2, <2>3, <2>4, <2>5, <2>6
    DEF SchedulerStep, CheckCounter, SetWakeSignal, RecheckCounter, WaitForSignal, SkipLocal,
        StealNothing, ClearWakeSignal, NotifyAll, ResumeContinuation, StopWorker
<1> QED  BY <1>3, <1>4 DEF StepOf

LEMMA KeptThreads ==
  ASSUME IInv, NEW t \in Threads, StepOf(t), NEW u \in Threads \ {t}
  PROVE  Kept(u)
<1>1. held'[Stack(u)] = held[Stack(u)]
  BY KeptStacks
<1>2. /\ pc \in [Threads -> Locations] /\ resuming \in [Threads -> Threads \cup {None}]
      /\ pumping \in SUBSET Externals
  BY DEF IInv, TypeOK
<1>3. CASE BodyStep(t)
  BY <1>1, <1>2, <1>3
  DEF Kept, BodyStep, DispatchJobs, BeginWait, PumpMainThread, SuspendJob, FinalizeJob,
      DestroyScheduler, Goto
<1>4. CASE SchedulerStep(t)
  BY <1>1, <1>2, <1>4
  DEF Kept, SchedulerStep, SubmitJobs, CheckCounter, SetWakeSignal, RecheckCounter, WaitForSignal,
      ExecuteCached, RefillFromLocal, SkipLocal, StealFrom, StealNothing, FetchGlobal,
      ClearWakeSignal, NotifyAll, ResumeContinuation, StopWorker, EndIteration, Goto
<1> QED  BY <1>3, <1>4 DEF StepOf

(* What is read off a thread that is kept.                                 *)
LEMMA KeptWaits ==
  ASSUME NEW u \in Threads, Kept(u)
  PROVE  /\ Running(u)' = Running(u) /\ Waits(u)' = Waits(u)
         /\ AtBody(u)' = AtBody(u) /\ InBody(u)' = InBody(u)
<1>1. InBody(u)' = InBody(u) /\ AtBody(u)' = AtBody(u)
  BY DEF Kept, InBody, AtBody
<1>2. Running(u)' = Running(u) /\ Bodied(u)' = Bodied(u) /\ Top(u)' = Top(u)
  BY DEF Kept, Running, Bodied, Top
<1>3. ({u} \cap pumping)' = {u} \cap pumping
  BY DEF Kept
<1> QED  BY <1>1, <1>2, <1>3 DEF Waits

(* So a step of t changes what waits, and what runs, on t alone.           *)
LEMMA WaitingChange ==
  ASSUME IInv, NEW t \in Threads, StepOf(t)
  PROVE  /\ Waits(t)' = Waits(t) => Waiting' = Waiting
         /\ \A b : b \notin Waits(t) /\ Waits(t)' = Waits(t) \cup {b} => Waiting' = Waiting \cup {b}
         /\ \A b : /\ b \in Waits(t) /\ Waits(t)' = Waits(t) \ {b}
                   /\ \A u \in Threads \ {t} : b \notin Waits(u)
                   => Waiting' = Waiting \ {b}
<1>1. \A u \in Threads \ {t} : Waits(u)' = Waits(u)
  BY KeptThreads, KeptWaits
<1> DEFINE others == UNION {Waits(u) : u \in Threads \ {t}}
<1>2. Waiting = others \cup Waits(t)
  BY DEF Waiting
<1>3. Waiting' = others \cup Waits(t)'
  BY <1>1 DEF Waiting
<1> QED  BY <1>2, <1>3

\* The steps that change no stack.
LEMMA OwnStack ==
  ASSUME IInv, NEW t \in Threads, StepOf(t), ~ExecuteCached(t), ~SuspendJob(t), ~FinalizeJob(t)
  PROVE  held'[Stack(t)] = held[Stack(t)]
<1>1. /\ Stack(t) \in Containers
      /\ \A x : /\ Stack(t) # Local(x) /\ Stack(t) # Stealable(x)
                /\ Stack(t) # Cache(x) /\ Stack(t) # Batch(x)
  BY ContainerNames
<1>2. held \in [Containers -> Seq(Jobs)]
  BY DEF IInv, TypeOK
<1>3. CASE DispatchJobs(t)
  BY <1>1, <1>2, <1>3 DEF DispatchJobs
<1>4. CASE SubmitJobs(t)
  BY <1>1, <1>2, <1>4 DEF SubmitJobs
<1>5. CASE RefillFromLocal(t)
  BY <1>1, <1>2, <1>5 DEF RefillFromLocal
<1>6. CASE \E victim \in Workers : StealFrom(t, victim)
  BY <1>1, <1>2, <1>6 DEF StealFrom
<1>7. CASE FetchGlobal(t)
  BY <1>1, <1>2, <1>7 DEF FetchGlobal
<1>8. CASE UNCHANGED held
  BY <1>8
<1> QED
  BY <1>3, <1>4, <1>5, <1>6, <1>7, <1>8
  DEF StepOf, BodyStep, SchedulerStep, BeginWait, PumpMainThread, DestroyScheduler, CheckCounter,
      SetWakeSignal, RecheckCounter, WaitForSignal, SkipLocal, StealNothing, ClearWakeSignal,
      NotifyAll, ResumeContinuation, StopWorker

-----------------------------------------------------------------------------
(* The invariant of the refinement.                                        *)

LEMMA SuspendingNext ==
  ASSUME RInv, NEW t \in Threads, StepOf(t)
  PROVE  Suspending'
<1>1. /\ pc \in [Threads -> Locations] /\ resuming \in [Threads -> Threads \cup {None}]
  BY DEF RInv, IInv, TypeOK
<1>2. ASSUME NEW u \in Threads \ {t}, resuming'[u] # None
      PROVE  pc'[u] \in {"submit", "clear", "notify", "resume"}
  BY <1>2, KeptThreads DEF RInv, Suspending, Kept
<1>3. resuming[t] # None => pc[t] \in {"submit", "clear", "notify", "resume"}
  BY DEF RInv, Suspending
<1>4. resuming'[t] # None => pc'[t] \in {"submit", "clear", "notify", "resume"}
  <2>1. CASE BodyStep(t)
    BY <1>1, <1>3, <2>1
    DEF BodyStep, DispatchJobs, BeginWait, PumpMainThread, SuspendJob, FinalizeJob,
        DestroyScheduler, Goto
  <2>2. CASE SchedulerStep(t)
    BY <1>1, <1>3, <2>2
    DEF SchedulerStep, SubmitJobs, CheckCounter, SetWakeSignal, RecheckCounter, WaitForSignal,
        ExecuteCached, RefillFromLocal, SkipLocal, StealFrom, StealNothing, FetchGlobal,
        ClearWakeSignal, NotifyAll, ResumeContinuation, StopWorker, EndIteration, Goto
  <2> QED  BY <2>1, <2>2 DEF StepOf
<1> QED  BY <1>2, <1>4 DEF Suspending

LEMMA PumpingIdlesNext ==
  ASSUME RInv, IInv', NEW t \in Threads, StepOf(t)
  PROVE  PumpingIdles'
<1>1. /\ pc \in [Threads -> Locations] /\ resuming \in [Threads -> Threads \cup {None}]
      /\ pumping \in SUBSET Externals /\ IInv
  BY DEF RInv, IInv, TypeOK
<1>2. ASSUME NEW u \in Threads \ {t}, u \in pumping', AtBody(u)'
      PROVE  held'[Stack(u)] # <<>>
  <2>1. Kept(u) /\ AtBody(u)
    BY <1>1, <1>2, KeptThreads, KeptWaits
  <2> QED  BY <1>2, <2>1 DEF RInv, PumpingIdles, Kept
<1>3. t \in pumping /\ AtBody(t) => held[Stack(t)] # <<>>
  BY DEF RInv, PumpingIdles
<1>4. ASSUME t \in pumping', AtBody(t)' PROVE held'[Stack(t)] # <<>>
  <2>1. CASE ExecuteCached(t)
    <3>1. Stack(t) \in Containers /\ held \in [Containers -> Seq(Jobs)]
      BY <1>1, ContainerNames DEF IInv, TypeOK
    <3>2. held'[Stack(t)] = Append(held[Stack(t)], LastOf(held[Cache(Ctx(t))]))
      BY <2>1, <3>1, ContainerNames DEF ExecuteCached
    <3> QED  BY <3>1, <3>2
  <2>2. CASE SuspendJob(t) \/ FinalizeJob(t)
    <3>1. ~AtBody(t)'
      <4>1. CASE SuspendJob(t)
        <5>1. continuation[Top(t)] = t
          BY <1>1, <4>1, TopOfStack DEF SuspendJob
        <5> QED  BY <1>1, <4>1, <5>1, NamesAssumption DEF SuspendJob, Goto, AtBody
      <4>2. CASE FinalizeJob(t)
        BY <1>1, <4>2 DEF FinalizeJob, Goto, AtBody
      <4> QED  BY <2>2, <4>1, <4>2
    <3> QED  BY <1>4, <3>1
  <2>3. CASE ~ExecuteCached(t) /\ ~SuspendJob(t) /\ ~FinalizeJob(t)
    <3>1. held'[Stack(t)] = held[Stack(t)]
      BY <1>1, <2>3, OwnStack
    <3>2. CASE BodyStep(t)
      BY <1>1, <1>3, <1>4, <2>3, <3>1, <3>2
      DEF BodyStep, DispatchJobs, BeginWait, PumpMainThread, DestroyScheduler, Goto, AtBody
    <3>3. CASE SubmitJobs(t)
      BY <1>1, <1>3, <1>4, <3>1, <3>3 DEF SubmitJobs, Goto, AtBody
    <3>4. CASE \/ CheckCounter(t) \/ SetWakeSignal(t) \/ RecheckCounter(t) \/ WaitForSignal(t)
               \/ SkipLocal(t) \/ StealNothing(t) \/ ClearWakeSignal(t) \/ NotifyAll(t)
               \/ StopWorker(t)
      BY <1>1, <1>3, <1>4, <3>1, <3>4
      DEF CheckCounter, SetWakeSignal, RecheckCounter, WaitForSignal, SkipLocal, StealNothing,
          ClearWakeSignal, NotifyAll, StopWorker, Goto, AtBody
    <3>5. CASE RefillFromLocal(t)
      BY <1>1, <1>4, <3>5, NamesAssumption DEF RefillFromLocal
    <3>6. CASE \/ \E victim \in Workers : StealFrom(t, victim)
               \/ FetchGlobal(t) \/ ResumeContinuation(t)
      BY <1>4, <3>1, <3>6 DEF StealFrom, FetchGlobal, ResumeContinuation, EndIteration
    <3> QED  BY <2>3, <3>2, <3>3, <3>4, <3>5, <3>6 DEF StepOf, SchedulerStep
  <2> QED  BY <2>1, <2>2, <2>3
<1>5. pumping' \subseteq Threads
  BY DEF IInv, TypeOK, Threads
<1> QED  BY <1>2, <1>4, <1>5 DEF PumpingIdles

(* The jobs of one dispatch_jobs call.                                     *)
LEMMA Dispatched ==
  ASSUME IInv, NEW t \in Threads, DispatchJobs(t)
  PROVE  \E S \in SUBSET Undispatched(Top(t)) :
           /\ S # {}
           /\ \A j \in Jobs : phase'[j] = IF j \in S THEN "live" ELSE phase[j]
           /\ \A j \in Jobs \ S : job_counter'[j] = job_counter[j]
           /\ \A j \in S \ Detached : job_counter'[j] = Top(t)
<1> DEFINE body == Top(t)
<1>1. PICK batch \in Batches(Undispatched(body)) :
        /\ phase' = [j \in Jobs |-> IF j \in ElementsOf(batch) THEN "live" ELSE phase[j]]
        /\ job_counter' = [j \in Jobs |->
             IF batch[1] \notin Detached /\ j \in ElementsOf(batch) THEN body ELSE job_counter[j]]
  BY DEF DispatchJobs
<1>2. Undispatched(body) \in SUBSET Jobs
  BY DEF Undispatched, Children
<1>3. /\ ElementsOf(batch) \subseteq Undispatched(body)
      /\ \A j \in ElementsOf(batch) : j \in Detached <=> batch[1] \in Detached
  BY <1>2, BatchFacts
<1>4. ElementsOf(batch) # {}
  <2>1. PICK n \in 1..Cardinality(Undispatched(body)) : batch \in [1..n -> Undispatched(body)]
    BY DEF Batches
  <2>2. Cardinality(Undispatched(body)) \in Nat
    BY <1>2, ProgramAssumption, FS_Subset, FS_CardinalityType
  <2>3. n \in Nat \ {0}
    BY <2>2
  <2>4. batch \in Seq(Undispatched(body)) /\ Len(batch) = n
    <3> HIDE DEF body
    <3> QED  BY <2>1, <2>3
  <2>5. batch[1] \in ElementsOf(batch)
    BY <2>3, <2>4 DEF ElementsOf
  <2> QED  BY <2>5
<1> QED  BY <1>1, <1>2, <1>3, <1>4

LEMMA CountedByCreatorNext ==
  ASSUME RInv, NEW t \in Threads, StepOf(t)
  PROVE  CountedByCreator'
<1>1. IInv /\ phase \in [Jobs -> {"created", "live", "done"}]
  BY DEF RInv, IInv, TypeOK
<1>2. CASE DispatchJobs(t)
  <2>1. PICK S \in SUBSET Undispatched(Top(t)) :
           /\ \A j \in Jobs : phase'[j] = IF j \in S THEN "live" ELSE phase[j]
           /\ \A j \in Jobs \ S : job_counter'[j] = job_counter[j]
           /\ \A j \in S \ Detached : job_counter'[j] = Top(t)
    BY <1>1, <1>2, Dispatched
  <2>2. \A j \in S : Creator[j] = Top(t)
    BY DEF Undispatched, Children
  <2> QED  BY <2>1, <2>2 DEF RInv, CountedByCreator
<1>3. CASE FinalizeJob(t)
  BY <1>1, <1>3 DEF FinalizeJob, RInv, CountedByCreator
<1>4. CASE UNCHANGED <<phase, job_counter>>
  BY <1>4 DEF RInv, CountedByCreator
<1> QED
  BY <1>2, <1>3, <1>4
  DEF StepOf, BodyStep, SchedulerStep, BeginWait, PumpMainThread, SuspendJob, DestroyScheduler,
      SubmitJobs, CheckCounter, SetWakeSignal, RecheckCounter, WaitForSignal, ExecuteCached,
      RefillFromLocal, SkipLocal, StealFrom, StealNothing, FetchGlobal, ClearWakeSignal,
      NotifyAll, ResumeContinuation, StopWorker

LEMMA InitRInv == Init => RInv
<1> SUFFICES ASSUME Init PROVE RInv
  OBVIOUS
<1>1. IInv
  BY InitIInv
<1>2. Suspending /\ PumpingIdles /\ CountedByCreator
  BY DEF Init, Suspending, PumpingIdles, CountedByCreator
<1> QED  BY <1>1, <1>2 DEF RInv

LEMMA NextRInv == RInv /\ [Next]_vars => RInv'
<1> SUFFICES ASSUME RInv, [Next]_vars PROVE RInv'
  OBVIOUS
<1>1. IInv'
  BY NextIInv DEF RInv
<1>2. CASE UNCHANGED vars \/ Destroyed
  <2>1. UNCHANGED vars
    BY <1>2 DEF Destroyed
  <2> QED
    BY <1>1, <2>1 DEF vars, RInv, Suspending, PumpingIdles, CountedByCreator, AtBody
<1>3. ASSUME NEW t \in Threads, StepOf(t) PROVE RInv'
  BY <1>1, <1>3, SuspendingNext, PumpingIdlesNext, CountedByCreatorNext DEF RInv
<1> QED  BY <1>2, <1>3 DEF Next, StepOf

-----------------------------------------------------------------------------
(* Steps that ForkJoin does not see.                                       *)

LEMMA StatesChange ==
  ASSUME NEW t \in Threads, \A u \in Threads \ {t} : Running(u)' = Running(u)
  PROVE  /\ \A j \in Jobs : phase'[j] # "live" => States'[j] = phase'[j]
         /\ \A j \in Jobs : phase'[j] = "live" /\ j \in Running(t)' => States'[j] = "running"
         /\ \A j \in Jobs :
              phase'[j] = phase[j] /\ (j \in Running(t)' <=> j \in Running(t)) => States'[j] = States[j]
<1>1. \A j \in Jobs : States[j] = StateOf(j) /\ States'[j] = StateOf(j)'
  BY DEF States
<1>2. \A j \in Jobs : phase'[j] # "live" => States'[j] = phase'[j]
  BY <1>1 DEF StateOf
<1>3. \A j \in Jobs : phase'[j] = "live" /\ j \in Running(t)' => States'[j] = "running"
  BY <1>1 DEF StateOf
<1>4. \A j \in Jobs :
        phase'[j] = phase[j] /\ (j \in Running(t)' <=> j \in Running(t)) => States'[j] = States[j]
  BY <1>1 DEF StateOf
<1> QED  BY <1>2, <1>3, <1>4

\* The steps that change neither a job's state nor whether a body waits.
Unseen(t) ==
  \/ PumpMainThread(t)
  \/ DestroyScheduler(t)
  \/ SchedulerStep(t) /\ ~ExecuteCached(t) /\ ~(pc[t] = "check" /\ pc'[t] = "body")

LEMMA UnseenStep ==
  ASSUME RInv, NEW t \in Threads, Unseen(t)
  PROVE  States' = States /\ Waiting' = Waiting
<1>1. /\ pc \in [Threads -> Locations] /\ resuming \in [Threads -> Threads \cup {None}]
      /\ pumping \in SUBSET Externals /\ IInv
  BY DEF RInv, IInv, TypeOK
<1>2. StepOf(t) /\ ~ExecuteCached(t) /\ ~SuspendJob(t) /\ ~FinalizeJob(t)
  <2>1. CASE PumpMainThread(t) \/ DestroyScheduler(t)
    BY <2>1
    DEF StepOf, BodyStep, PumpMainThread, DestroyScheduler, ExecuteCached, SuspendJob, FinalizeJob
  <2>2. CASE SchedulerStep(t) /\ ~ExecuteCached(t)
    <3>1. pc[t] # "body"
      BY <2>2
      DEF SchedulerStep, SubmitJobs, CheckCounter, SetWakeSignal, RecheckCounter, WaitForSignal,
          RefillFromLocal, SkipLocal, StealFrom, StealNothing, FetchGlobal, ClearWakeSignal,
          NotifyAll, ResumeContinuation, StopWorker
    <3> QED  BY <2>2, <3>1 DEF StepOf, SuspendJob, FinalizeJob
  <2> QED  BY <2>1, <2>2 DEF Unseen
<1>3. held'[Stack(t)] = held[Stack(t)]
  BY <1>1, <1>2, OwnStack
<1>4. Running(t)' = Running(t) /\ Bodied(t)' = Bodied(t) /\ Top(t)' = Top(t)
  BY <1>3 DEF Running, Bodied, Top
<1>5. phase' = phase
  BY DEF Unseen, PumpMainThread, DestroyScheduler, SchedulerStep, SubmitJobs, CheckCounter,
         SetWakeSignal, RecheckCounter, WaitForSignal, ExecuteCached, RefillFromLocal, SkipLocal,
         StealFrom, StealNothing, FetchGlobal, ClearWakeSignal, NotifyAll, ResumeContinuation,
         StopWorker
<1>6. States' = States
  <2>1. \A u \in Threads \ {t} : Running(u)' = Running(u)
    BY <1>1, <1>2, KeptThreads, KeptWaits
  <2>2. \A j \in Jobs : States'[j] = States[j]
    BY <1>4, <1>5, <2>1, StatesChange
  <2> QED  BY <2>2 DEF States
<1>7. ASSUME (InBody(t)' <=> InBody(t)), pumping' = pumping PROVE Waits(t)' = Waits(t)
  BY <1>4, <1>7 DEF Waits
<1>8. Waits(t)' = Waits(t)
  <2>1. CASE PumpMainThread(t)
    <3>1. t \in Externals /\ held[Stack(t)] = <<>> /\ Running(t) = {}
      BY <2>1, EmptyQueue DEF PumpMainThread, Running
    <3>2. InBody(t) /\ Top(t) = t /\ Bodied(t) = {t}
      BY <2>1, <3>1 DEF PumpMainThread, InBody, Top, Bodied
    <3>3. ~InBody(t)' /\ t \in pumping'
      BY <1>1, <2>1 DEF PumpMainThread, Goto, InBody
    <3> QED  BY <1>4, <3>2, <3>3 DEF Waits
  <2>2. CASE DestroyScheduler(t)
    BY <1>7, <2>2 DEF DestroyScheduler, InBody
  <2>3. CASE SubmitJobs(t)
    BY <1>1, <1>7, <2>3 DEF SubmitJobs, Goto, InBody
  <2>4. CASE CheckCounter(t)
    BY <1>1, <1>7, <2>4 DEF Unseen, PumpMainThread, DestroyScheduler, CheckCounter, Goto, InBody
  <2>5. CASE \/ SetWakeSignal(t) \/ RecheckCounter(t) \/ WaitForSignal(t)
             \/ SkipLocal(t) \/ StealNothing(t) \/ ClearWakeSignal(t) \/ NotifyAll(t)
             \/ StopWorker(t)
    BY <1>1, <1>7, <2>5
    DEF SetWakeSignal, RecheckCounter, WaitForSignal, SkipLocal, StealNothing, ClearWakeSignal,
        NotifyAll, StopWorker, Goto, InBody
  <2>6. CASE RefillFromLocal(t)
    <3>1. t \notin pumping
      BY <1>1, <2>6, NamesAssumption DEF RefillFromLocal
    <3>2. Caller(t, held[Stack(t)]) \in {"fetch", "check"}
      BY <3>1 DEF Caller
    <3> QED  BY <1>1, <1>7, <2>6, <3>2 DEF RefillFromLocal, Goto, InBody
  <2>7. CASE \/ \E victim \in Workers : StealFrom(t, victim)
             \/ FetchGlobal(t) \/ ResumeContinuation(t)
    <3> DEFINE caller == Caller(t, held[Stack(t)])
    <3>1. /\ pc[t] \in {"steal", "global", "resume"} /\ pc'[t] \in {caller, "set"}
          /\ pc'[t] = "set" => caller = "check"
          /\ pumping' = IF held[Stack(t)] = <<>> THEN pumping \ {t} ELSE pumping
      BY <1>1, <2>7, CallerLocation DEF StealFrom, FetchGlobal, ResumeContinuation, EndIteration, Goto
    <3>2. ~InBody(t)
      BY <3>1 DEF InBody
    <3>3. CASE held[Stack(t)] = <<>> /\ t \in pumping
      <4>1. t \in Externals /\ Bodied(t) = {t} /\ Top(t) = t
        BY <1>1, <3>3, EmptyQueue DEF Bodied, Running, Top
      <4>2. caller = "body"
        BY <1>1, <3>3, NamesAssumption DEF Caller
      <4>3. InBody(t)'
        BY <3>1, <4>2 DEF InBody
      <4> QED  BY <1>4, <3>2, <3>3, <4>1, <4>3 DEF Waits
    <3>4. CASE ~(held[Stack(t)] = <<>> /\ t \in pumping)
      <4>1. caller \in {"fetch", "check"}
        BY <3>4 DEF Caller
      <4>2. ~InBody(t)' /\ ({t} \cap pumping)' = {t} \cap pumping
        BY <3>1, <3>4, <4>1 DEF InBody
      <4> QED  BY <1>4, <3>2, <4>2 DEF Waits
    <3> QED  BY <3>3, <3>4
  <2> QED
    BY <2>1, <2>2, <2>3, <2>4, <2>5, <2>6, <2>7 DEF Unseen, SchedulerStep
<1> QED  BY <1>1, <1>2, <1>6, <1>8, WaitingChange

-----------------------------------------------------------------------------
(* Steps of ForkJoin.                                                      *)

\* A body that acts is in no other thread's wait.
LEMMA ActingBody ==
  ASSUME IInv, NEW t \in Threads, AtBody(t)
  PROVE  /\ Top(t) \in Bodies
         /\ Top(t) \in Jobs => States[Top(t)] = "running" /\ Top(t) \in Running(t)
         /\ \A u \in Threads \ {t} : Top(t) \notin Waits(u)
         /\ InBody(t) => Top(t) \notin Waiting
<1>1. Top(t) \in Bodies /\ Top(t) \in Bodied(t)
  BY TopBody, TopOnStack
<1>2. Top(t) \in Jobs => phase[Top(t)] = "live" /\ Top(t) \in Running(t)
  BY <1>1, TopBody, NamesAssumption DEF Bodied, Threads
<1>3. Top(t) \in Jobs => States[Top(t)] = "running"
  BY <1>2 DEF States, StateOf
<1>4. \A u \in Threads \ {t} : Top(t) \notin Waits(u)
  BY <1>1, StackContents DEF Waits
<1>5. InBody(t) => Top(t) \notin Waiting
  BY <1>4 DEF Waiting, Waits
<1> QED  BY <1>1, <1>2, <1>3, <1>4, <1>5

\* A counter at zero has nothing left to wait for.
LEMMA NothingAwaited ==
  ASSUME RInv, NEW b \in Bodies, counter[b] = 0
  PROVE  \A j \in Jobs \ Detached : Creator[j] = b => States[j] \in {"created", "done"}
<1>1. Pending(b) = {}
  BY PendingFinite, FS_EmptySet DEF RInv, IInv, DataInv, CounterExact
<1> SUFFICES ASSUME NEW j \in Jobs \ Detached, Creator[j] = b
             PROVE  States[j] \in {"created", "done"}
  OBVIOUS
<1>2. phase[j] # "live"
  BY <1>1 DEF RInv, CountedByCreator, Pending
<1>3. phase[j] \in {"created", "live", "done"}
  BY DEF RInv, IInv, TypeOK
<1> QED  BY <1>2, <1>3 DEF States, StateOf

LEMMA FreshStates ==
  ASSUME IInv, NEW j \in Jobs
  PROVE  States[j] = "created" <=> phase[j] = "created"
BY DEF IInv, TypeOK, States, StateOf

LEMMA DispatchSeen ==
  ASSUME RInv, NEW t \in Threads, DispatchJobs(t)
  PROVE  \E S \in SUBSET Undispatched(Top(t)) :
           /\ S # {}
           /\ States' = [j \in Jobs |-> IF j \in S THEN "ready" ELSE States[j]]
           /\ Waiting' = Waiting
<1>1. IInv /\ StepOf(t) /\ pc[t] = "body" /\ held \in [Containers -> Seq(Jobs)]
  BY DEF RInv, IInv, TypeOK, StepOf, BodyStep, DispatchJobs
<1>2. ~ExecuteCached(t) /\ ~SuspendJob(t) /\ ~FinalizeJob(t)
  <2>1. pc'[t] = "submit" /\ UNCHANGED suspends
    BY <1>1 DEF DispatchJobs, Goto, IInv, TypeOK
  <2>2. ~SuspendJob(t)
    <3>1. ASSUME SuspendJob(t) PROVE FALSE
      <4>1. Top(t) \in Jobs /\ suspends[Top(t)] \in Nat
        BY <1>1, <3>1, TopOfStack, ProgramAssumption DEF SuspendJob, IInv, TypeOK
      <4>2. suspends'[Top(t)] = suspends[Top(t)] + 1
        BY <1>1, <3>1, <4>1 DEF SuspendJob, IInv, TypeOK
      <4> QED  BY <2>1, <4>1, <4>2
    <3> QED  BY <3>1
  <2>3. ~FinalizeJob(t)
    BY <1>1, <2>1 DEF FinalizeJob, Goto, IInv, TypeOK
  <2>4. ~ExecuteCached(t)
    BY <1>1 DEF ExecuteCached
  <2> QED  BY <2>2, <2>3, <2>4
<1>3. held'[Stack(t)] = held[Stack(t)]
  BY <1>1, <1>2, OwnStack
<1>4. Running(t)' = Running(t) /\ Bodied(t)' = Bodied(t) /\ Top(t)' = Top(t)
  BY <1>3 DEF Running, Bodied, Top
<1>5. InBody(t) /\ InBody(t)' /\ pumping' = pumping
  <2>1. resuming[t] = None
    BY <1>1 DEF RInv, Suspending
  <2> QED  BY <1>1, <2>1 DEF DispatchJobs, Goto, InBody, IInv, TypeOK
<1>6. Waiting' = Waiting
  <2>1. Waits(t)' = Waits(t)
    BY <1>4, <1>5 DEF Waits
  <2> QED  BY <1>1, <2>1, WaitingChange
<1>7. PICK S \in SUBSET Undispatched(Top(t)) :
        S # {} /\ \A j \in Jobs : phase'[j] = IF j \in S THEN "live" ELSE phase[j]
  BY <1>1, Dispatched
<1>8. \A u \in Threads : Running(u)' = Running(u)
  BY <1>1, <1>4, KeptThreads, KeptWaits
<1>9. \A u \in Threads : \A j \in S : j \notin Running(u)
  BY <1>1, StackContents DEF Undispatched
<1>10. \A j \in Jobs : StateOf(j)' = IF j \in S THEN "ready" ELSE StateOf(j)
  BY <1>7, <1>8, <1>9 DEF StateOf
<1>11. States' = [j \in Jobs |-> IF j \in S THEN "ready" ELSE States[j]]
  BY <1>10 DEF States
<1> QED  BY <1>6, <1>7, <1>11

LEMMA BeginWaitSeen ==
  ASSUME RInv, NEW t \in Threads, BeginWait(t)
  PROVE  States' = States /\ Waiting' = Waiting \cup {Top(t)}
<1>1. IInv /\ StepOf(t) /\ pc[t] = "body" /\ pc'[t] = "check" /\ UNCHANGED <<held, phase, pumping>>
  BY DEF RInv, IInv, TypeOK, StepOf, BodyStep, BeginWait, Goto
<1>2. Running(t)' = Running(t) /\ Bodied(t)' = Bodied(t) /\ Top(t)' = Top(t)
  BY <1>1 DEF Running, Bodied, Top
<1>3. InBody(t) /\ ~InBody(t)' /\ AtBody(t)
  BY <1>1 DEF InBody, AtBody
<1>4. Top(t) \in Bodied(t) /\ Top(t) \notin {t} \cap pumping
  <2>1. t \in pumping => Top(t) \in Running(t)
    BY <1>1, <1>3, TopOnStack DEF RInv, PumpingIdles
  <2>2. Running(t) \subseteq Jobs /\ t \notin Jobs
    BY <1>1, StackContents
  <2> QED  BY <1>1, <1>3, <2>1, <2>2, TopOnStack
<1>5. Top(t) \notin Waits(t) /\ Waits(t)' = Waits(t) \cup {Top(t)}
  BY <1>1, <1>2, <1>3, <1>4 DEF Waits
<1>6. States' = States
  BY <1>1 DEF States, StateOf, Running
<1> QED  BY <1>1, <1>5, <1>6, WaitingChange

LEMMA EndWaitSeen ==
  ASSUME RInv, NEW t \in Threads, CheckCounter(t), pc'[t] = "body"
  PROVE  /\ States' = States /\ Waiting' = Waiting \ {Top(t)}
         /\ Top(t) \in Waiting /\ counter[Top(t)] = 0
<1>1. /\ IInv /\ StepOf(t) /\ pc[t] = "check" /\ UNCHANGED <<held, phase, pumping>>
      /\ counter \in [Bodies -> 0..CounterMax]
  BY DEF RInv, IInv, TypeOK, StepOf, SchedulerStep, CheckCounter
<1>2. Running(t)' = Running(t) /\ Bodied(t)' = Bodied(t) /\ Top(t)' = Top(t)
  BY <1>1 DEF Running, Bodied, Top
<1>3. ~InBody(t) /\ InBody(t)' /\ AtBody(t)
  BY <1>1 DEF InBody, AtBody
<1>4. Top(t) \in Bodied(t) /\ Top(t) \notin {t} \cap pumping
  <2>1. t \in pumping => Top(t) \in Running(t)
    BY <1>1, <1>3, TopOnStack DEF RInv, PumpingIdles
  <2>2. Running(t) \subseteq Jobs /\ t \notin Jobs
    BY <1>1, StackContents
  <2> QED  BY <1>1, <1>3, <2>1, <2>2, TopOnStack
<1>5. Top(t) \in Waits(t) /\ Waits(t)' = Waits(t) \ {Top(t)}
  BY <1>1, <1>2, <1>3, <1>4 DEF Waits
<1>6. States' = States
  BY <1>1 DEF States, StateOf, Running
<1>7. counter[Top(t)] = 0
  <2>1. ~(counter[Top(t)] > 0)
    BY DEF CheckCounter, Goto, RInv, IInv, TypeOK
  <2>2. Top(t) \in Bodies
    BY <1>1, <1>3, TopBody
  <2> QED  BY <1>1, <2>1, <2>2, ProgramAssumption
<1>8. \A u \in Threads \ {t} : Top(t) \notin Waits(u)
  BY <1>1, <1>3, ActingBody
<1>9. Top(t) \in Waiting
  BY <1>5 DEF Waiting
<1> QED  BY <1>1, <1>5, <1>6, <1>7, <1>8, <1>9, WaitingChange

\* A job comes onto the stack of the thread that resumes it, and nothing else moves.
LEMMA StartSeen ==
  ASSUME RInv, NEW t \in Threads, ExecuteCached(t)
  PROVE  \E j \in Jobs :
           /\ States[j] = "ready" /\ States' = [States EXCEPT ![j] = "running"]
           /\ Waiting' = Waiting
<1> DEFINE cache == held[Cache(Ctx(t))]
           stack == held[Stack(t)]
           job == LastOf(cache)
<1>1. /\ IInv /\ StepOf(t) /\ pc[t] = "fetch" /\ pc'[t] = "body" /\ cache # <<>>
      /\ UNCHANGED <<phase, pumping>>
  BY DEF RInv, IInv, TypeOK, StepOf, SchedulerStep, ExecuteCached, Goto
<1>2. /\ Cache(Ctx(t)) \in Containers /\ Stack(t) \in Containers /\ Cache(Ctx(t)) # Stack(t)
      /\ \A u \in Threads : Stack(u) \in Containers /\ Stack(u) # Cache(Ctx(t))
  BY ContainerNames, OwnContext
<1>3. cache \in Seq(Jobs) /\ stack \in Seq(Jobs) /\ Distinct(cache) /\ Distinct(stack)
  BY <1>1, <1>2, HeldPlacement, UniqueParts, PlacedOf
<1>4. job \in Jobs /\ job \in ElementsOf(cache) /\ phase[job] = "live"
  <2>1. job \in Jobs /\ job \in ElementsOf(cache)
    BY <1>1, <1>3, FrontLast
  <2>2. ElementsOf(cache) \subseteq Placed(held)
    BY <1>1, <1>2, HeldPlacement, PlacedOf
  <2> QED  BY <1>1, <2>1, <2>2, HeldPlacement
<1>5. \A u \in Threads : job \notin Running(u)
  BY <1>1, <1>2, <1>4, HeldPlacement, UniqueParts DEF Running
<1>6. held'[Stack(t)] = Append(stack, job)
  BY <1>1, <1>2 DEF ExecuteCached, IInv, TypeOK
<1> HIDE DEF job
<1>7. Append(stack, job) # <<>> /\ LastOf(Append(stack, job)) = job
  BY <1>3, <1>4 DEF LastOf
<1>8. ElementsOf(Append(stack, job)) = ElementsOf(stack) \cup {job}
  BY <1>3, <1>4, <1>5, Pushed DEF Running
<1>9. /\ Running(t)' = Running(t) \cup {job} /\ Bodied(t)' = Bodied(t) \cup {job}
      /\ Top(t)' = job
  BY <1>6, <1>7, <1>8 DEF Running, Bodied, Top
<1>10. Waits(t)' = Waits(t)
  <2>1. job \notin Bodied(t) /\ job # t
    BY <1>4, <1>5, NamesAssumption DEF Bodied, Threads
  <2>2. ~InBody(t) /\ InBody(t)'
    BY <1>1 DEF InBody
  <2> QED  BY <1>1, <1>9, <2>1, <2>2 DEF Waits
<1>11. \A u \in Threads \ {t} : Running(u)' = Running(u)
  BY <1>1, KeptThreads, KeptWaits
<1>12. \A j \in Jobs : States'[j] = IF j = job THEN "running" ELSE States[j]
  <2>1. States'[job] = "running"
    BY <1>1, <1>4, <1>9, <1>11, StatesChange
  <2>2. \A j \in Jobs \ {job} : States'[j] = States[j]
    BY <1>1, <1>9, <1>11, StatesChange
  <2> QED  BY <2>1, <2>2
<1>13. States[job] = "ready"
  BY <1>4, <1>5 DEF States, StateOf
<1>14. States' = [States EXCEPT ![job] = "running"]
  BY <1>12 DEF States
<1> QED  BY <1>1, <1>4, <1>10, <1>13, <1>14, WaitingChange

\* A job leaves the top of the stack of its thread.
LEMMA PopSeen ==
  ASSUME RInv, NEW t \in Threads, SuspendJob(t) \/ FinalizeJob(t)
  PROVE  /\ Top(t) \in Jobs /\ InBody(t) /\ AtBody(t)
         /\ Running(t)' = Running(t) \ {Top(t)}
         /\ \A u \in Threads : Top(t) \notin Running(u)'
         /\ \A u \in Threads \ {t} : Running(u)' = Running(u)
         /\ Waiting' = Waiting
<1>1. /\ IInv /\ StepOf(t) /\ pc[t] = "body" /\ held[Stack(t)] # <<>>
      /\ UNCHANGED pumping /\ resuming'[t] = continuation[Top(t)]
      /\ pc'[t] \in {"submit", "clear"}
  BY DEF RInv, IInv, TypeOK, StepOf, BodyStep, SuspendJob, FinalizeJob, Goto
<1>2. /\ Top(t) \in Jobs /\ continuation[Top(t)] = t
      /\ ElementsOf(FrontOf(held[Stack(t)])) = ElementsOf(held[Stack(t)]) \ {Top(t)}
      /\ Top(t) \in ElementsOf(held[Stack(t)])
  BY <1>1, TopOfStack
<1>3. Stack(t) \in Containers /\ Stack(t) # Batch(t) /\ held \in [Containers -> Seq(Jobs)]
  BY <1>1, ContainerNames DEF IInv, TypeOK
<1>4. held'[Stack(t)] = FrontOf(held[Stack(t)])
  BY <1>1, <1>3 DEF SuspendJob, FinalizeJob
<1>5. InBody(t) /\ AtBody(t) /\ ~InBody(t)'
  BY <1>1, <1>2, NamesAssumption DEF InBody, AtBody
<1>6. Running(t)' = Running(t) \ {Top(t)} /\ Top(t) # t
  BY <1>2, <1>4, NamesAssumption DEF Running, Threads
<1>7. Bodied(t)' = Bodied(t) \ {Top(t)}
  BY <1>6 DEF Bodied
<1>8. Waits(t)' = Waits(t)
  BY <1>1, <1>5, <1>7 DEF Waits
<1>9. \A u \in Threads \ {t} : Running(u)' = Running(u)
  BY <1>1, KeptThreads, KeptWaits
<1>10. \A u \in Threads \ {t} : Top(t) \notin Running(u)
  BY <1>1, <1>2, StackContents DEF Running
<1> QED  BY <1>1, <1>2, <1>5, <1>6, <1>8, <1>9, <1>10, WaitingChange

LEMMA YieldSeen ==
  ASSUME RInv, NEW t \in Threads, SuspendJob(t)
  PROVE  States' = [States EXCEPT ![Top(t)] = "ready"]
<1>1. phase' = phase /\ IInv
  BY DEF SuspendJob, RInv
<1>2. /\ Top(t) \in Jobs /\ AtBody(t) /\ Running(t)' = Running(t) \ {Top(t)}
      /\ \A u \in Threads : Top(t) \notin Running(u)'
      /\ \A u \in Threads \ {t} : Running(u)' = Running(u)
  BY PopSeen
<1>3. phase[Top(t)] = "live"
  BY <1>1, <1>2, TopBody
<1>4. States'[Top(t)] = "ready"
  BY <1>1, <1>2, <1>3 DEF States, StateOf
<1>5. \A j \in Jobs \ {Top(t)} : States'[j] = States[j]
  BY <1>1, <1>2, StatesChange
<1> QED  BY <1>4, <1>5 DEF States

LEMMA FinishSeen ==
  ASSUME RInv, NEW t \in Threads, FinalizeJob(t)
  PROVE  /\ States' = [States EXCEPT ![Top(t)] = "done"]
         /\ Undispatched(Top(t)) = {} /\ counter[Top(t)] = 0
<1>1. /\ phase' = [phase EXCEPT ![Top(t)] = "done"] /\ phase \in [Jobs -> {"created", "live", "done"}]
      /\ Undispatched(Top(t)) = {} /\ counter[Top(t)] = 0
  BY DEF FinalizeJob, RInv, IInv, TypeOK
<1>2. /\ Top(t) \in Jobs /\ Running(t)' = Running(t) \ {Top(t)}
      /\ \A u \in Threads \ {t} : Running(u)' = Running(u)
  BY PopSeen
<1>3. States'[Top(t)] = "done"
  BY <1>1, <1>2, StatesChange
<1>4. \A j \in Jobs \ {Top(t)} : States'[j] = States[j]
  BY <1>1, <1>2, StatesChange
<1> QED  BY <1>1, <1>3, <1>4 DEF States

-----------------------------------------------------------------------------
(* Every step of the scheduler is a step of ForkJoin, or leaves it alone.  *)

\* Acting, Created and Awaited of the abstract state.
LEMMA AbstractBody ==
  ASSUME RInv, NEW t \in Threads, AtBody(t)
  PROVE  /\ Top(t) \in Abstract!Bodies
         /\ InBody(t) => Abstract!Acting(Top(t))
         /\ Abstract!Created(Top(t)) = Undispatched(Top(t))
         /\ counter[Top(t)] = 0 => Abstract!Awaited(Top(t)) = {}
<1>1. /\ IInv /\ [j \in Jobs |-> JobState(j)] = States
      /\ UNION {WaitingOf(u) : u \in Threads} = Waiting
  BY JobStates, WaitingBodies DEF RInv
<1>2. /\ Top(t) \in Bodies /\ (Top(t) \in Jobs => States[Top(t)] = "running")
      /\ (InBody(t) => Top(t) \notin Waiting)
  BY <1>1, ActingBody
<1>3. Top(t) \in Abstract!Bodies
  BY <1>2 DEF Abstract!Bodies, Bodies
<1>4. InBody(t) => Abstract!Acting(Top(t))
  BY <1>1, <1>2 DEF Abstract!Acting, Bodies
<1>5. Abstract!Created(Top(t)) = Undispatched(Top(t))
  BY <1>1, FreshStates DEF Abstract!Created, Undispatched, Children
<1>6. counter[Top(t)] = 0 => Abstract!Awaited(Top(t)) = {}
  BY <1>1, <1>2, NothingAwaited DEF Abstract!Awaited
<1> QED  BY <1>3, <1>4, <1>5, <1>6

LEMMA ThreadSimulation ==
  ASSUME RInv, NEW t \in Threads, StepOf(t),
         [j \in Jobs |-> JobState(j)] = States, [j \in Jobs |-> JobState(j)]' = States',
         UNION {WaitingOf(u) : u \in Threads} = Waiting,
         (UNION {WaitingOf(u) : u \in Threads})' = Waiting'
  PROVE  [Abstract!Next]_(Abstract!vars)
<1>1. IInv /\ \A j \in Jobs : States = [States EXCEPT ![j] = States[j]]
  BY DEF RInv, States
<1>2. CASE Unseen(t)
  BY <1>2, UnseenStep DEF Abstract!vars
<1>3. CASE DispatchJobs(t)
  <2>1. InBody(t) /\ AtBody(t)
    BY <1>3 DEF DispatchJobs, InBody, AtBody
  <2>2. PICK S \in SUBSET Undispatched(Top(t)) :
           /\ S # {}
           /\ States' = [j \in Jobs |-> IF j \in S THEN "ready" ELSE States[j]]
           /\ Waiting' = Waiting
    BY <1>3, DispatchSeen
  <2>3. S \in SUBSET Abstract!Created(Top(t)) /\ Abstract!Acting(Top(t)) /\ Top(t) \in Abstract!Bodies
    BY <2>1, <2>2, AbstractBody
  <2>4. Abstract!Dispatch(Top(t), S)
    BY <2>2, <2>3 DEF Abstract!Dispatch
  <2> QED  BY <2>3, <2>4 DEF Abstract!Next
<1>4. CASE BeginWait(t)
  <2>1. InBody(t) /\ AtBody(t)
    BY <1>4 DEF BeginWait, InBody, AtBody
  <2>2. Abstract!Acting(Top(t)) /\ Top(t) \in Abstract!Bodies
    BY <2>1, AbstractBody
  <2>3. Abstract!BeginWait(Top(t))
    BY <1>4, <2>2, BeginWaitSeen DEF Abstract!BeginWait
  <2> QED  BY <2>2, <2>3 DEF Abstract!Next
<1>5. CASE CheckCounter(t) /\ pc'[t] = "body"
  <2>1. AtBody(t)
    BY <1>5 DEF CheckCounter, AtBody
  <2>2. /\ States' = States /\ Waiting' = Waiting \ {Top(t)}
        /\ Top(t) \in Waiting /\ counter[Top(t)] = 0
    BY <1>5, EndWaitSeen
  <2>3. Abstract!Awaited(Top(t)) = {} /\ Top(t) \in Abstract!Bodies
    BY <2>1, <2>2, AbstractBody
  <2>4. Abstract!EndWait(Top(t))
    BY <2>2, <2>3 DEF Abstract!EndWait
  <2> QED  BY <2>3, <2>4 DEF Abstract!Next
<1>6. CASE ExecuteCached(t)
  <2>1. PICK j \in Jobs :
           /\ States[j] = "ready" /\ States' = [States EXCEPT ![j] = "running"]
           /\ Waiting' = Waiting
    BY <1>6, StartSeen
  <2>2. Abstract!Start(j)
    BY <2>1 DEF Abstract!Start
  <2> QED  BY <2>2 DEF Abstract!Next
<1>7. CASE SuspendJob(t)
  <2>1. /\ Top(t) \in Jobs /\ InBody(t) /\ AtBody(t) /\ Waiting' = Waiting
    BY <1>7, PopSeen
  <2>2. Abstract!Acting(Top(t)) /\ States[Top(t)] = "running"
    BY <1>1, <2>1, AbstractBody, ActingBody
  <2>3. Abstract!Yield(Top(t))
    BY <1>7, <2>1, <2>2, YieldSeen DEF Abstract!Yield
  <2> QED  BY <2>1, <2>3 DEF Abstract!Next
<1>8. CASE FinalizeJob(t)
  <2>1. /\ Top(t) \in Jobs /\ InBody(t) /\ AtBody(t) /\ Waiting' = Waiting
    BY <1>8, PopSeen
  <2>2. /\ States' = [States EXCEPT ![Top(t)] = "done"]
        /\ Undispatched(Top(t)) = {} /\ counter[Top(t)] = 0
    BY <1>8, FinishSeen
  <2>3. /\ Abstract!Acting(Top(t)) /\ States[Top(t)] = "running"
        /\ Abstract!Created(Top(t)) = {} /\ Abstract!Awaited(Top(t)) = {}
    BY <1>1, <2>1, <2>2, AbstractBody, ActingBody
  <2>4. Abstract!Finish(Top(t))
    BY <2>1, <2>2, <2>3 DEF Abstract!Finish
  <2> QED  BY <2>1, <2>4 DEF Abstract!Next
<1>9. CASE CheckCounter(t) /\ pc'[t] # "body"
  BY <1>2, <1>9 DEF Unseen, SchedulerStep, CheckCounter, ExecuteCached
<1> QED
  BY <1>2, <1>3, <1>4, <1>5, <1>6, <1>7, <1>8, <1>9
  DEF StepOf, BodyStep, Unseen, SchedulerStep, SubmitJobs, SetWakeSignal, RecheckCounter,
      WaitForSignal, RefillFromLocal, SkipLocal, StealFrom, StealNothing, FetchGlobal,
      ClearWakeSignal, NotifyAll, ResumeContinuation, StopWorker

LEMMA InitSimulation == Init => Abstract!Init
<1> SUFFICES ASSUME Init PROVE Abstract!Init
  OBVIOUS
<1>1. IInv
  BY InitIInv
<1>2. /\ [j \in Jobs |-> JobState(j)] = States
      /\ UNION {WaitingOf(u) : u \in Threads} = Waiting
  BY <1>1, JobStates, WaitingBodies
<1>3. States = [j \in Jobs |-> "created"]
  BY DEF Init, States, StateOf
<1>4. ASSUME NEW t \in Threads PROVE Waits(t) = {}
  <2>1. held[Stack(t)] = <<>> /\ Running(t) = {} /\ Top(t) = t
    BY ContainerNames, EmptyQueue DEF Init, Running, Top
  <2>2. t \in Externals => InBody(t)
    BY NamesAssumption DEF Init, InBody, Threads
  <2> QED  BY <2>1, <2>2 DEF Waits, Bodied
<1>5. Waiting = {}
  BY <1>4 DEF Waiting
<1> QED  BY <1>2, <1>3, <1>5 DEF Abstract!Init

LEMMA NextSimulation == RInv /\ RInv' /\ [Next]_vars => [Abstract!Next]_(Abstract!vars)
<1>1. RInv => /\ [j \in Jobs |-> JobState(j)] = States
              /\ UNION {WaitingOf(u) : u \in Threads} = Waiting
  BY JobStates, WaitingBodies DEF RInv
<1>2. (RInv => /\ [j \in Jobs |-> JobState(j)] = States
               /\ UNION {WaitingOf(u) : u \in Threads} = Waiting)'
  BY <1>1, PTL
<1> SUFFICES ASSUME RInv, RInv', [Next]_vars PROVE [Abstract!Next]_(Abstract!vars)
  OBVIOUS
<1>3. CASE UNCHANGED vars \/ Destroyed
  <2>1. UNCHANGED vars
    BY <1>3 DEF Destroyed
  <2>2. States' = States /\ Waiting' = Waiting
    BY <2>1 DEF vars, States, StateOf, Running, Waiting, Waits, InBody, Bodied, Top
  <2> QED  BY <1>1, <1>2, <2>2 DEF Abstract!vars
<1>4. CASE \E t \in Threads : StepOf(t)
  BY <1>1, <1>2, <1>4, ThreadSimulation
<1> QED  BY <1>3, <1>4 DEF Next, StepOf

\* dispatch_jobs, wait_for_counter, the await_suspends and the threads that
\* execute jobs do what ForkJoin promises: a body goes on after a wait only when
\* the jobs it counted are done, and a job runs in one place, until it finished.
THEOREM ForkJoinIsImplemented == Spec => ImplementsForkJoin
<1>1. Init => RInv /\ Abstract!Init
  BY InitRInv, InitSimulation
<1>2. RInv /\ [Next]_vars => RInv'
  BY NextRInv
<1>3. RInv /\ RInv' /\ [Next]_vars => [Abstract!Next]_(Abstract!vars)
  BY NextSimulation
<1> QED  BY <1>1, <1>2, <1>3, PTL DEF Spec, ImplementsForkJoin, Abstract!Spec

-----------------------------------------------------------------------------
(* The wake signal, when only one body ever waits: of two waiting threads  *)
(* either may clear or set the flag the other one sleeps on.  Then the     *)
(* thread that is blocked on a finished counter has a finalizer still to   *)
(* come to signal_wake, or between its clear and its notify_all.           *)

\* The jobs that are counted are all dispatched by one body.
OneJoiner == \A i, j \in Jobs \ Detached : Creator[i] = Creator[j]

Joins(b) == \E j \in Jobs \ Detached : Creator[j] = b
Uncounted == \A j \in Detached : job_counter[j] = None
JoinersWait == \A b \in Waiting : Joins(b)

\* Armed: a waiter that does not know yet.  Told: one that the flag no longer holds.
Armed ==
  \A t \in Threads :
    pc[t] \in {"wait", "asleep"} /\ wake_signal /\ counter[Top(t)] = 0 =>
      \E u \in Threads : pc[u] = "clear"
Told ==
  \A t \in Threads :
    pc[t] = "asleep" /\ ~wake_signal => \E u \in Threads : pc[u] = "notify"

SleepInv == RInv /\ Uncounted /\ JoinersWait /\ Armed /\ Told

InWait(t) == pc[t] \in {"check", "set", "recheck", "wait", "asleep"}

LEMMA WaiterWaits ==
  ASSUME RInv, NEW t \in Threads, InWait(t)
  PROVE  Top(t) \in Waits(t) /\ Top(t) \in Bodies
<1>1. IInv /\ AtBody(t) /\ ~InBody(t)
  BY DEF RInv, InWait, AtBody, InBody
<1>2. Top(t) \in Bodied(t) /\ Top(t) \in Bodies
  BY <1>1, TopOnStack, TopBody
<1>3. Top(t) \notin {t} \cap pumping
  <2>1. t \in pumping => Top(t) \in Running(t)
    BY <1>1, TopOnStack DEF RInv, PumpingIdles
  <2>2. Running(t) \subseteq Jobs /\ t \notin Jobs
    BY <1>1, StackContents
  <2> QED  BY <2>1, <2>2
<1> QED  BY <1>1, <1>2, <1>3 DEF Waits

LEMMA OneWaiter ==
  ASSUME OneJoiner, RInv, JoinersWait, NEW t \in Threads, NEW u \in Threads,
         InWait(t), InWait(u)
  PROVE  t = u
<1>1. Top(t) \in Waits(t) /\ Top(u) \in Waits(u)
  BY WaiterWaits
<1>2. Joins(Top(t)) /\ Joins(Top(u))
  BY <1>1 DEF JoinersWait, Waiting
<1>3. Top(t) = Top(u)
  BY <1>2 DEF OneJoiner, Joins
<1>4. Top(t) \in Bodied(t) \cap Bodied(u)
  BY <1>1, <1>3 DEF Waits
<1> QED  BY <1>4, StackContents DEF RInv

\* A body with jobs to wait for dispatched one that is counted.
LEMMA CounterJoins ==
  ASSUME RInv, Uncounted, NEW b \in Bodies, counter[b] > 0
  PROVE  Joins(b)
<1>1. Pending(b) # {}
  <2>1. Cardinality(Pending(b)) # 0
    BY DEF RInv, IInv, DataInv, CounterExact
  <2> QED  BY <2>1, FS_EmptySet
<1>2. PICK j \in Jobs : phase[j] = "live" /\ job_counter[j] = b
  BY <1>1 DEF Pending
<1>3. j \notin Detached
  <2>1. b # None
    BY NamesAssumption DEF Bodies, Threads
  <2> QED  BY <1>2, <2>1 DEF Uncounted
<1>4. Creator[j] = b
  BY <1>2, <1>3 DEF RInv, CountedByCreator
<1> QED  BY <1>3, <1>4 DEF Joins

LEMMA UncountedNext ==
  ASSUME RInv, Uncounted, NEW t \in Threads, StepOf(t)
  PROVE  Uncounted'
<1>1. CASE DispatchJobs(t)
  <2>1. PICK batch \in Batches(Undispatched(Top(t))) :
          job_counter' = [j \in Jobs |->
            IF batch[1] \notin Detached /\ j \in ElementsOf(batch) THEN Top(t) ELSE job_counter[j]]
    BY <1>1 DEF DispatchJobs
  <2>2. Undispatched(Top(t)) \in SUBSET Jobs
    BY DEF Undispatched, Children
  <2>3. \A j \in ElementsOf(batch) : j \in Detached <=> batch[1] \in Detached
    BY <2>2, BatchFacts
  <2> QED  BY <2>1, <2>3, ProgramAssumption DEF Uncounted
<1>2. CASE UNCHANGED job_counter
  BY <1>2 DEF Uncounted
<1> QED
  BY <1>1, <1>2
  DEF StepOf, BodyStep, SchedulerStep, BeginWait, PumpMainThread, SuspendJob, FinalizeJob,
      DestroyScheduler, SubmitJobs, CheckCounter, SetWakeSignal, RecheckCounter, WaitForSignal,
      ExecuteCached, RefillFromLocal, SkipLocal, StealFrom, StealNothing, FetchGlobal,
      ClearWakeSignal, NotifyAll, ResumeContinuation, StopWorker

LEMMA JoinersWaitNext ==
  ASSUME RInv, Uncounted, JoinersWait, NEW t \in Threads, StepOf(t)
  PROVE  JoinersWait'
<1>1. CASE BeginWait(t)
  <2>1. Waiting' = Waiting \cup {Top(t)}
    BY <1>1, BeginWaitSeen
  <2>2. Top(t) \in Bodies
    BY <1>1, TopBody DEF BeginWait, AtBody, RInv
  <2>3. Joins(Top(t))
    BY <1>1, <2>2, CounterJoins DEF BeginWait
  <2> QED  BY <2>1, <2>3 DEF JoinersWait, Joins
<1>2. CASE Waiting' \subseteq Waiting
  BY <1>2 DEF JoinersWait, Joins
<1>3. CASE Unseen(t)
  BY <1>2, <1>3, UnseenStep
<1>4. CASE DispatchJobs(t)
  BY <1>2, <1>4, DispatchSeen
<1>5. CASE CheckCounter(t)
  <2>1. CASE pc'[t] = "body"
    BY <1>2, <1>5, <2>1, EndWaitSeen
  <2>2. CASE pc'[t] # "body"
    BY <1>3, <1>5, <2>2 DEF Unseen, SchedulerStep, CheckCounter, ExecuteCached
  <2> QED  BY <2>1, <2>2
<1>6. CASE ExecuteCached(t)
  BY <1>2, <1>6, StartSeen
<1>7. CASE SuspendJob(t) \/ FinalizeJob(t)
  BY <1>2, <1>7, PopSeen
<1> QED
  BY <1>1, <1>3, <1>4, <1>5, <1>6, <1>7
  DEF StepOf, BodyStep, Unseen, SchedulerStep, SubmitJobs, SetWakeSignal, RecheckCounter,
      WaitForSignal, RefillFromLocal, SkipLocal, StealFrom, StealNothing, FetchGlobal,
      ClearWakeSignal, NotifyAll, ResumeContinuation, StopWorker

-----------------------------------------------------------------------------
(* What a step does to the flag and to the counter of a waiter.            *)

LEMMA SignalChange ==
  ASSUME IInv, NEW t \in Threads, StepOf(t)
  PROVE  /\ wake_signal' # wake_signal =>
              \/ SetWakeSignal(t)
              \/ RecheckCounter(t)
              \/ ClearWakeSignal(t) /\ pc'[t] = "notify"
         /\ pc[t] = "clear" => ~wake_signal'
         /\ pc[t] = "notify" => \A u \in Threads : pc'[u] # "asleep"
<1>1. pc \in [Threads -> Locations] /\ wake_signal \in BOOLEAN
  BY DEF IInv, TypeOK
<1>2. CASE BodyStep(t)
  BY <1>1, <1>2
  DEF BodyStep, DispatchJobs, BeginWait, PumpMainThread, SuspendJob, FinalizeJob, DestroyScheduler
<1>3. CASE SchedulerStep(t)
  BY <1>1, <1>3
  DEF SchedulerStep, SubmitJobs, CheckCounter, SetWakeSignal, RecheckCounter, WaitForSignal,
      ExecuteCached, RefillFromLocal, SkipLocal, StealFrom, StealNothing, FetchGlobal,
      ClearWakeSignal, NotifyAll, ResumeContinuation, StopWorker, Goto
<1> QED  BY <1>2, <1>3 DEF StepOf

\* The counter of another thread's waiting body only changes when a job finalizes.
LEMMA CounterChange ==
  ASSUME IInv, NEW t \in Threads, StepOf(t), NEW u \in Threads \ {t}, AtBody(u),
         counter'[Top(u)] # counter[Top(u)]
  PROVE  FinalizeJob(t) /\ pc'[t] = "clear"
<1>1. pc \in [Threads -> Locations] /\ counter \in [Bodies -> 0..CounterMax]
  BY DEF IInv, TypeOK
<1>2. ~DispatchJobs(t)
  <2> SUFFICES ASSUME DispatchJobs(t) PROVE FALSE
    OBVIOUS
  <2>1. AtBody(t)
    BY DEF DispatchJobs, AtBody
  <2>2. Top(t) \in Bodied(t) /\ Top(u) \in Bodied(u)
    BY <2>1, TopOnStack
  <2>3. Top(t) # Top(u)
    BY <2>2, StackContents
  <2>4. PICK batch \in Batches(Undispatched(Top(t))) :
          counter' = IF batch[1] \notin Detached
                       THEN [counter EXCEPT ![Top(t)] = FetchAdd(counter[Top(t)], Len(batch))]
                       ELSE counter
    BY DEF DispatchJobs
  <2>5. Top(u) \in Bodies
    BY TopBody
  <2> QED  BY <1>1, <2>3, <2>4, <2>5
<1>3. FinalizeJob(t)
  BY <1>2
  DEF StepOf, BodyStep, SchedulerStep, BeginWait, PumpMainThread, SuspendJob,
      DestroyScheduler, SubmitJobs, CheckCounter, SetWakeSignal, RecheckCounter, WaitForSignal,
      ExecuteCached, RefillFromLocal, SkipLocal, StealFrom, StealNothing, FetchGlobal,
      ClearWakeSignal, NotifyAll, ResumeContinuation, StopWorker
<1> QED  BY <1>1, <1>3 DEF FinalizeJob, Goto

\* A thread goes to wait, or to sleep, with the flag set and jobs still to finish, or
\* after it saw so.
LEMMA OwnWait ==
  ASSUME RInv, NEW t \in Threads, StepOf(t), pc'[t] \in {"wait", "asleep"}
  PROVE  /\ wake_signal' = wake_signal /\ counter' = counter /\ Top(t)' = Top(t)
         /\ pc'[t] = "asleep" => pc[t] = "wait" /\ wake_signal
         /\ pc'[t] = "wait" => counter[Top(t)] # 0
<1>1. /\ IInv /\ pc \in [Threads -> Locations] /\ resuming \in [Threads -> Threads \cup {None}]
      /\ counter \in [Bodies -> 0..CounterMax]
  BY DEF RInv, IInv, TypeOK
<1>2. RecheckCounter(t) \/ WaitForSignal(t)
  <2>1. ~BodyStep(t)
    BY <1>1
    DEF BodyStep, DispatchJobs, BeginWait, PumpMainThread, SuspendJob, FinalizeJob,
        DestroyScheduler, Goto
  <2>2. \A nest : Caller(t, nest) \in {"fetch", "body", "check"}
    BY DEF Caller
  <2> QED
    BY <1>1, <2>1, <2>2
    DEF StepOf, SchedulerStep, SubmitJobs, CheckCounter, SetWakeSignal, ExecuteCached,
        RefillFromLocal, SkipLocal, StealFrom, StealNothing, FetchGlobal, ClearWakeSignal,
        NotifyAll, ResumeContinuation, StopWorker, EndIteration, Goto
<1>3. Top(t)' = Top(t) /\ counter' = counter
  BY <1>2 DEF RecheckCounter, WaitForSignal, Top
<1>4. CASE RecheckCounter(t)
  <2>1. pc'[t] = "wait" /\ counter[Top(t)] > 0 /\ wake_signal' = wake_signal
    BY <1>1, <1>4 DEF RecheckCounter, Goto
  <2>2. Top(t) \in Bodies
    BY <1>1, <1>4, TopBody DEF RecheckCounter, AtBody
  <2> QED  BY <1>1, <1>3, <2>1, <2>2, ProgramAssumption
<1>5. CASE WaitForSignal(t)
  BY <1>1, <1>3, <1>5 DEF WaitForSignal, Goto
<1> QED  BY <1>2, <1>4, <1>5

LEMMA ArmedNext ==
  ASSUME OneJoiner, SleepInv, NEW t \in Threads, StepOf(t)
  PROVE  Armed'
<1>1. /\ RInv /\ IInv /\ JoinersWait /\ pc \in [Threads -> Locations]
      /\ wake_signal \in BOOLEAN
  BY DEF SleepInv, RInv, IInv, TypeOK
<1> SUFFICES ASSUME NEW x \in Threads, pc'[x] \in {"wait", "asleep"}, wake_signal',
                    counter'[Top(x)'] = 0
             PROVE  \E u \in Threads : pc'[u] = "clear"
  BY DEF Armed, Top
<1>2. ASSUME NEW u \in Threads, pc[u] = "clear" PROVE pc'[u] = "clear"
  <2>1. u # t
    BY <1>1, <1>2, SignalChange
  <2> QED  BY <1>1, <1>2, <2>1, KeptThreads DEF Kept
<1>3. CASE x = t
  <2>1. /\ wake_signal' = wake_signal /\ counter' = counter /\ Top(t)' = Top(t)
        /\ pc'[t] = "asleep" => pc[t] = "wait" /\ wake_signal
        /\ pc'[t] = "wait" => counter[Top(t)] # 0
    BY <1>1, <1>3, OwnWait
  <2>2. pc[t] = "wait" /\ wake_signal /\ counter[Top(t)] = 0
    BY <1>3, <2>1
  <2> QED  BY <1>2, <2>2 DEF SleepInv, Armed
<1>4. CASE x # t
  <2>1. Kept(x) /\ Top(x)' = Top(x)
    BY <1>1, <1>4, KeptThreads DEF Kept, Top
  <2>2. pc[x] \in {"wait", "asleep"} /\ InWait(x) /\ AtBody(x)
    BY <2>1 DEF Kept, InWait, AtBody
  <2>3. ~SetWakeSignal(t) /\ ~RecheckCounter(t)
    BY <1>1, <1>4, <2>2, OneWaiter DEF SetWakeSignal, RecheckCounter, InWait
  <2>4. wake_signal
    BY <1>1, <2>3, SignalChange DEF ClearWakeSignal
  <2>5. CASE counter[Top(x)] = 0
    BY <1>2, <2>2, <2>4, <2>5 DEF SleepInv, Armed
  <2>6. CASE counter[Top(x)] # 0
    BY <1>1, <1>4, <2>1, <2>2, <2>6, CounterChange
  <2> QED  BY <2>5, <2>6
<1> QED  BY <1>3, <1>4

LEMMA ToldNext ==
  ASSUME OneJoiner, SleepInv, NEW t \in Threads, StepOf(t)
  PROVE  Told'
<1>1. /\ RInv /\ IInv /\ JoinersWait /\ pc \in [Threads -> Locations]
      /\ wake_signal \in BOOLEAN
  BY DEF SleepInv, RInv, IInv, TypeOK
<1> SUFFICES ASSUME NEW x \in Threads, pc'[x] = "asleep", ~wake_signal'
             PROVE  \E u \in Threads : pc'[u] = "notify"
  BY DEF Told
<1>2. x # t
  BY <1>1, OwnWait
<1>3. Kept(x) /\ pc[x] = "asleep" /\ InWait(x)
  BY <1>1, <1>2, KeptThreads DEF Kept, InWait
<1>4. ~SetWakeSignal(t) /\ ~RecheckCounter(t)
  BY <1>1, <1>2, <1>3, OneWaiter DEF SetWakeSignal, RecheckCounter, InWait
<1>5. CASE wake_signal
  BY <1>1, <1>4, <1>5, SignalChange
<1>6. CASE ~wake_signal
  <2>1. PICK u \in Threads : pc[u] = "notify"
    BY <1>3, <1>6 DEF SleepInv, Told
  <2>2. u # t
    BY <1>1, <2>1, SignalChange
  <2> QED  BY <1>1, <2>1, <2>2, KeptThreads DEF Kept
<1> QED  BY <1>5, <1>6

LEMMA InitSleepInv == Init => SleepInv
<1> SUFFICES ASSUME Init PROVE SleepInv
  OBVIOUS
<1>1. RInv
  BY InitRInv
<1>2. \A t \in Threads : pc[t] \in {"fetch", "body"}
  BY DEF Init
<1>3. Uncounted /\ Armed /\ Told
  BY <1>2, ProgramAssumption DEF Init, Uncounted, Armed, Told
<1>4. Waiting = {}
  BY InitSimulation, WaitingBodies, <1>1 DEF Abstract!Init, RInv
<1> QED  BY <1>1, <1>3, <1>4 DEF SleepInv, JoinersWait

LEMMA NextSleepInv == ASSUME OneJoiner PROVE SleepInv /\ [Next]_vars => SleepInv'
<1> SUFFICES ASSUME SleepInv, [Next]_vars PROVE SleepInv'
  OBVIOUS
<1>1. RInv'
  BY NextRInv DEF SleepInv
<1>2. CASE UNCHANGED vars \/ Destroyed
  <2>1. UNCHANGED vars
    BY <1>2 DEF Destroyed
  <2>2. Uncounted' /\ Armed' /\ Told'
    BY <2>1 DEF vars, SleepInv, Uncounted, Armed, Told, Top
  <2>3. Waiting' = Waiting
    BY <2>1 DEF vars, Running, Waiting, Waits, InBody, Bodied, Top
  <2> QED  BY <1>1, <2>2, <2>3 DEF SleepInv, JoinersWait, Joins
<1>3. ASSUME NEW t \in Threads, StepOf(t) PROVE SleepInv'
  BY <1>1, <1>3, UncountedNext, JoinersWaitNext, ArmedNext, ToldNext DEF SleepInv
<1> QED  BY <1>2, <1>3 DEF Next, StepOf

\* A thread that wait_for_counter left blocked although its counter is down is about
\* to be woken by signal_wake, if all jobs that are counted are dispatched by one
\* body, on whichever thread that body runs, suspends and waits.
THEOREM SleepersAreWoken == ASSUME OneJoiner PROVE Spec => []SleeperWillBeWoken
<1>1. Init => SleepInv
  BY InitSleepInv
<1>2. SleepInv /\ [Next]_vars => SleepInv'
  BY NextSleepInv
<1>3. SleepInv => SleeperWillBeWoken
  BY DEF SleepInv, Armed, Told, SleeperWillBeWoken
<1> QED  BY <1>1, <1>2, <1>3, PTL DEF Spec
=============================================================================
