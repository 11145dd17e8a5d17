--------------------------- MODULE SchedulerProofs ---------------------------
(***************************************************************************)
(* What holds of Scheduler for every set of jobs and workers and every     *)
(* program, proved.                                                        *)
(*                                                                         *)
(* The first part is about sequences of distinct handles, the second about *)
(* the placement of handles in containers: every action replaces the       *)
(* contents of one to three containers, and a replacement that adds no     *)
(* handle held elsewhere keeps the placement unique.  The third part is    *)
(* the inductive invariant IInv, one lemma per action.                     *)
(***************************************************************************)
EXTENDS Scheduler, SequenceTheorems, FiniteSetTheorems, FunctionTheorems, TLAPS

(***************************************************************************)
(* The inductive invariant behind the safety properties of Scheduler: what *)
(* the handles, phases and counters have to do with each other, and what   *)
(* the place a thread is at says of the containers only it touches.        *)
(***************************************************************************)

\* A job nobody dispatched belongs to no Counter.
FreshJobs == \A j \in Jobs : phase[j] = "created" => job_counter[j] = None

\* A job on the stack of a thread continues in an execute_job frame of that thread.
OwnContinuations ==
  \A t \in Threads : \A i \in DOMAIN held[Stack(t)] : continuation[held[Stack(t)][i]] = t

\* job_pointers outlives no dispatch_jobs call.
NoStaleBatch == \A t \in Threads : pc[t] # "submit" => held[Batch(t)] = <<>>

\* A thread refills its cache from a queue only when the cache is empty.
CacheSpent ==
  \A t \in Threads : pc[t] \in {"steal", "global"} => held[Cache(Ctx(t))] = <<>>

\* A worker executes the code of a body only inside of a job.
AtBody(t) ==
  \/ pc[t] \in {"body", "check", "set", "recheck", "wait", "asleep"}
  \/ pc[t] = "submit" /\ resuming[t] = None
BodiesOnStack == \A t \in Workers : AtBody(t) => held[Stack(t)] # <<>>

DataInv ==
  HandleUnique /\ NoJobLost /\ CounterExact /\ CounterAlive /\ FreshJobs /\ OwnContinuations
ControlInv == ReturnsToOwnFrame /\ NoStaleBatch /\ CacheSpent /\ BodiesOnStack

IInv == TypeOK /\ DataInv /\ ControlInv

-----------------------------------------------------------------------------
(* Sequences of distinct handles *)

Distinct(s) == \A i, k \in DOMAIN s : s[i] = s[k] => i = k

\* A bulk dequeue splits a queue in two, and loses and repeats no handle.
LEMMA TakenLeft ==
  ASSUME NEW S, NEW s \in Seq(S), NEW n \in Nat, Distinct(s)
  PROVE  /\ Taken(s, n) \in Seq(S) /\ Distinct(Taken(s, n))
         /\ Left(s, n) \in Seq(S) /\ Distinct(Left(s, n))
         /\ ElementsOf(Taken(s, n)) \cup ElementsOf(Left(s, n)) = ElementsOf(s)
         /\ ElementsOf(Taken(s, n)) \cap ElementsOf(Left(s, n)) = {}
<1> DEFINE m == Least(n, Len(s))
<1>1. m \in 0..Len(s)
  BY DEF Least
<1>2. /\ Taken(s, n) \in Seq(S) /\ Len(Taken(s, n)) = m
      /\ \A i \in 1..m : Taken(s, n)[i] = s[i]
  BY <1>1 DEF Taken
<1>3. /\ Left(s, n) \in Seq(S) /\ Len(Left(s, n)) = Len(s) - m
      /\ \A i \in 1..(Len(s) - m) : Left(s, n)[i] = s[m + i]
  BY <1>1 DEF Left
<1>4. ElementsOf(s) \subseteq ElementsOf(Taken(s, n)) \cup ElementsOf(Left(s, n))
  <2> SUFFICES ASSUME NEW i \in 1..Len(s)
               PROVE  s[i] \in ElementsOf(Taken(s, n)) \cup ElementsOf(Left(s, n))
    BY DEF ElementsOf
  <2>1. CASE i <= m
    BY <2>1, <1>1, <1>2 DEF ElementsOf
  <2>2. CASE i > m
    <3>1. i - m \in 1..(Len(s) - m) /\ m + (i - m) = i
      BY <2>2, <1>1
    <3>2. s[i] = Left(s, n)[i - m]
      BY <3>1, <1>3
    <3> QED  BY <3>1, <3>2, <1>3 DEF ElementsOf
  <2> QED  BY <2>1, <2>2, <1>1
<1>5. ElementsOf(Taken(s, n)) \subseteq ElementsOf(s)
  BY <1>1, <1>2 DEF ElementsOf
<1>6. ElementsOf(Left(s, n)) \subseteq ElementsOf(s)
  BY <1>1, <1>3 DEF ElementsOf
<1>7. ElementsOf(Taken(s, n)) \cap ElementsOf(Left(s, n)) = {}
  BY <1>1, <1>2, <1>3 DEF ElementsOf, Distinct
<1>8. Distinct(Taken(s, n))
  BY <1>1, <1>2 DEF Distinct
<1>9. Distinct(Left(s, n))
  <2> SUFFICES ASSUME NEW i \in 1..(Len(s) - m), NEW k \in 1..(Len(s) - m),
                      Left(s, n)[i] = Left(s, n)[k]
               PROVE  i = k
    BY <1>3 DEF Distinct
  <2>1. m + i \in 1..Len(s) /\ m + k \in 1..Len(s)
    BY <1>1
  <2>2. s[m + i] = s[m + k]
    BY <1>3
  <2>3. m + i = m + k
    BY <2>1, <2>2 DEF Distinct
  <2> QED  BY <2>3, <1>1
<1> QED  BY <1>2, <1>3, <1>4, <1>5, <1>6, <1>7, <1>8, <1>9

\* Taking the last handle of a cache or a stack.
LEMMA FrontLast ==
  ASSUME NEW S, NEW s \in Seq(S), s # <<>>, Distinct(s)
  PROVE  /\ LastOf(s) \in S
         /\ FrontOf(s) \in Seq(S) /\ Distinct(FrontOf(s))
         /\ ElementsOf(FrontOf(s)) = ElementsOf(s) \ {LastOf(s)}
         /\ LastOf(s) \in ElementsOf(s)
<1>1. Len(s) \in Nat \ {0} /\ DOMAIN s = 1..Len(s)
  BY EmptySeq
<1>2. /\ FrontOf(s) \in Seq(S) /\ Len(FrontOf(s)) = Len(s) - 1
      /\ \A i \in 1..(Len(s) - 1) : FrontOf(s)[i] = s[i]
  BY <1>1 DEF FrontOf
<1>3. LastOf(s) \in S /\ LastOf(s) \in ElementsOf(s)
  BY <1>1 DEF LastOf, ElementsOf
<1>4. Distinct(FrontOf(s))
  <2>1. DOMAIN FrontOf(s) = 1..(Len(s) - 1)
    BY <1>1, <1>2
  <2> QED  BY <2>1, <1>1, <1>2 DEF Distinct
<1>5. ElementsOf(FrontOf(s)) \subseteq ElementsOf(s) \ {LastOf(s)}
  BY <1>1, <1>2 DEF ElementsOf, LastOf, Distinct
<1>6. ElementsOf(s) \ {LastOf(s)} \subseteq ElementsOf(FrontOf(s))
  <2> SUFFICES ASSUME NEW i \in 1..Len(s), s[i] # s[Len(s)]
               PROVE  s[i] \in ElementsOf(FrontOf(s))
    BY DEF ElementsOf, LastOf
  <2>1. i \in 1..(Len(s) - 1)
    BY <1>1
  <2> QED  BY <2>1, <1>2 DEF ElementsOf
<1> QED  BY <1>2, <1>3, <1>4, <1>5, <1>6

\* A batch appended to a queue that holds none of its handles.
LEMMA Concatenation ==
  ASSUME NEW S, NEW s \in Seq(S), NEW u \in Seq(S), Distinct(s), Distinct(u),
         ElementsOf(s) \cap ElementsOf(u) = {}
  PROVE  /\ s \o u \in Seq(S) /\ Distinct(s \o u)
         /\ ElementsOf(s \o u) = ElementsOf(s) \cup ElementsOf(u)
<1>1. /\ s \o u \in Seq(S) /\ Len(s \o u) = Len(s) + Len(u)
      /\ \A i \in 1..(Len(s) + Len(u)) :
           (s \o u)[i] = IF i <= Len(s) THEN s[i] ELSE u[i - Len(s)]
  BY ConcatProperties
<1>2. Distinct(s \o u)
  <2> SUFFICES ASSUME NEW i \in 1..(Len(s) + Len(u)), NEW k \in 1..(Len(s) + Len(u)),
                      (s \o u)[i] = (s \o u)[k]
               PROVE  i = k
    BY <1>1 DEF Distinct
  <2>1. CASE i <= Len(s) /\ k <= Len(s)
    BY <2>1, <1>1 DEF Distinct
  <2>2. CASE i > Len(s) /\ k > Len(s)
    <3>1. i - Len(s) \in 1..Len(u) /\ k - Len(s) \in 1..Len(u)
      BY <2>2
    <3>2. u[i - Len(s)] = u[k - Len(s)]
      BY <2>2, <1>1
    <3>3. i - Len(s) = k - Len(s)
      BY <3>1, <3>2 DEF Distinct
    <3> QED  BY <3>3
  <2>3. CASE i <= Len(s) /\ k > Len(s)
    <3>1. i \in 1..Len(s) /\ k - Len(s) \in 1..Len(u)
      BY <2>3
    <3>2. s[i] = u[k - Len(s)]
      BY <2>3, <1>1
    <3> QED  BY <3>1, <3>2 DEF ElementsOf
  <2>4. CASE i > Len(s) /\ k <= Len(s)
    <3>1. k \in 1..Len(s) /\ i - Len(s) \in 1..Len(u)
      BY <2>4
    <3>2. s[k] = u[i - Len(s)]
      BY <2>4, <1>1
    <3> QED  BY <3>1, <3>2 DEF ElementsOf
  <2> QED  BY <2>1, <2>2, <2>3, <2>4
<1>3. ElementsOf(s \o u) \subseteq ElementsOf(s) \cup ElementsOf(u)
  <2> SUFFICES ASSUME NEW i \in 1..(Len(s) + Len(u))
               PROVE  (s \o u)[i] \in ElementsOf(s) \cup ElementsOf(u)
    BY <1>1 DEF ElementsOf
  <2>1. CASE i <= Len(s)
    BY <2>1, <1>1 DEF ElementsOf
  <2>2. CASE i > Len(s)
    <3>1. i - Len(s) \in 1..Len(u)
      BY <2>2
    <3> QED  BY <3>1, <2>2, <1>1 DEF ElementsOf
  <2> QED  BY <2>1, <2>2
<1>4. ElementsOf(s) \subseteq ElementsOf(s \o u)
  BY <1>1 DEF ElementsOf
<1>5. ElementsOf(u) \subseteq ElementsOf(s \o u)
  <2> SUFFICES ASSUME NEW i \in 1..Len(u)
               PROVE  u[i] \in ElementsOf(s \o u)
    BY DEF ElementsOf
  <2>1. Len(s) + i \in 1..(Len(s) + Len(u)) /\ (Len(s) + i) - Len(s) = i
    OBVIOUS
  <2>2. (s \o u)[Len(s) + i] = u[i]
    BY <2>1, <1>1
  <2> QED  BY <2>1, <2>2, <1>1 DEF ElementsOf
<1> QED  BY <1>1, <1>2, <1>3, <1>4, <1>5

LEMMA Singleton ==
  ASSUME NEW S, NEW x \in S
  PROVE  <<x>> \in Seq(S) /\ Distinct(<<x>>) /\ ElementsOf(<<x>>) = {x}
BY DEF Distinct, ElementsOf

\* The handle a thread resumes goes on top of its stack.
LEMMA Pushed ==
  ASSUME NEW S, NEW s \in Seq(S), NEW x \in S, Distinct(s), x \notin ElementsOf(s)
  PROVE  /\ Append(s, x) \in Seq(S) /\ Distinct(Append(s, x))
         /\ ElementsOf(Append(s, x)) = ElementsOf(s) \cup {x}
<1>1. Append(s, x) = s \o <<x>>
  BY AppendIsConcat
<1>2. <<x>> \in Seq(S) /\ Distinct(<<x>>) /\ ElementsOf(<<x>>) = {x}
  BY Singleton
<1>3. ElementsOf(s) \cap ElementsOf(<<x>>) = {}
  BY <1>2
<1> HIDE DEF Distinct, ElementsOf
<1>4. /\ s \o <<x>> \in Seq(S) /\ Distinct(s \o <<x>>)
      /\ ElementsOf(s \o <<x>>) = ElementsOf(s) \cup ElementsOf(<<x>>)
  BY <1>2, <1>3, Concatenation, ZenonT(30)
<1> QED  BY <1>1, <1>2, <1>4

LEMMA EmptyQueue ==
  ASSUME NEW S
  PROVE  <<>> \in Seq(S) /\ Distinct(<<>>) /\ ElementsOf(<<>>) = {}
BY DEF Distinct, ElementsOf

LEMMA EmptyElements ==
  ASSUME NEW S, NEW s \in Seq(S), ElementsOf(s) = {}
  PROVE  s = <<>>
BY EmptySeq DEF ElementsOf

\* A sequence of distinct handles has as many entries as elements.
LEMMA DistinctLength ==
  ASSUME NEW S, NEW s \in Seq(S), Distinct(s)
  PROVE  IsFiniteSet(ElementsOf(s)) /\ Cardinality(ElementsOf(s)) = Len(s)
<1>1. Len(s) \in Nat /\ DOMAIN s = 1..Len(s) /\ s \in [1..Len(s) -> ElementsOf(s)]
  BY DEF ElementsOf
<1>2. s \in Bijection(1..Len(s), ElementsOf(s))
  BY <1>1 DEF Bijection, Injection, Surjection, IsInjective, Distinct, ElementsOf
<1>3. ExistsBijection(1..Len(s), ElementsOf(s))
  BY <1>2 DEF ExistsBijection
<1> QED  BY <1>1, <1>3, FS_CountingElements, FS_NatBijection

-----------------------------------------------------------------------------
(* Placements of handles in containers *)

Placement == [Containers -> Seq(Jobs)]

Unique(h) ==
  \A c, d \in Containers : \A i \in DOMAIN h[c], k \in DOMAIN h[d] :
    h[c][i] = h[d][k] => c = d /\ i = k

Placed(h) == UNION {ElementsOf(h[c]) : c \in Containers}

\* Containers of different kinds, or of different threads, are different.
LEMMA ContainerNames ==
  /\ \A x \in Contexts :
       Local(x) \in Containers /\ Stealable(x) \in Containers /\ Cache(x) \in Containers
  /\ \A t \in Threads : Stack(t) \in Containers /\ Batch(t) \in Containers
  /\ \A x, y :
       /\ Local(x) # Stealable(y) /\ Local(x) # Cache(y) /\ Local(x) # Stack(y)
       /\ Local(x) # Batch(y) /\ Stealable(x) # Cache(y) /\ Stealable(x) # Stack(y)
       /\ Stealable(x) # Batch(y) /\ Cache(x) # Stack(y) /\ Cache(x) # Batch(y)
       /\ Stack(x) # Batch(y)
  /\ \A x, y :
       /\ Local(x) = Local(y) => x = y
       /\ Stealable(x) = Stealable(y) => x = y
       /\ Cache(x) = Cache(y) => x = y
       /\ Stack(x) = Stack(y) => x = y
       /\ Batch(x) = Batch(y) => x = y
BY DEF Containers, Local, Stealable, Cache, Stack, Batch

LEMMA PlacedOf ==
  ASSUME NEW h \in Placement, NEW c \in Containers
  PROVE  /\ h[c] \in Seq(Jobs)
         /\ ElementsOf(h[c]) \subseteq Placed(h)
         /\ Placed(h) \subseteq Jobs
BY DEF Placement, Placed, ElementsOf

LEMMA UniqueParts ==
  ASSUME NEW h \in Placement, Unique(h)
  PROVE  /\ \A c \in Containers : Distinct(h[c])
         /\ \A c, d \in Containers : c # d => ElementsOf(h[c]) \cap ElementsOf(h[d]) = {}
<1>1. \A c \in Containers : Distinct(h[c])
  BY DEF Unique, Distinct
<1>2. \A c \in Containers : h[c] \in Seq(Jobs) /\ DOMAIN h[c] = 1..Len(h[c])
  BY DEF Placement
<1>3. \A c, d \in Containers : c # d => ElementsOf(h[c]) \cap ElementsOf(h[d]) = {}
  BY <1>2 DEF Unique, ElementsOf
<1> QED  BY <1>1, <1>3

LEMMA UniqueWhole ==
  ASSUME NEW h \in Placement,
         \A c \in Containers : Distinct(h[c]),
         \A c, d \in Containers : c # d => ElementsOf(h[c]) \cap ElementsOf(h[d]) = {}
  PROVE  Unique(h)
<1>1. \A c \in Containers : h[c] \in Seq(Jobs) /\ DOMAIN h[c] = 1..Len(h[c])
  BY DEF Placement
<1> SUFFICES ASSUME NEW c \in Containers, NEW d \in Containers,
                    NEW i \in DOMAIN h[c], NEW k \in DOMAIN h[d], h[c][i] = h[d][k]
             PROVE  c = d /\ i = k
  BY DEF Unique
<1>2. c = d
  BY <1>1 DEF ElementsOf
<1> QED  BY <1>2 DEF Distinct

\* g is h with new contents for one container, none of them held by another one.
Replaces(h, c, s, g) ==
  /\ h \in Placement /\ Unique(h) /\ c \in Containers
  /\ s \in Seq(Jobs) /\ Distinct(s)
  /\ ElementsOf(s) \cap (Placed(h) \ ElementsOf(h[c])) = {}
  /\ g = [h EXCEPT ![c] = s]

LEMMA ReplaceContents ==
  ASSUME NEW h, NEW c, NEW s, NEW g, Replaces(h, c, s, g)
  PROVE  /\ g \in Placement /\ Unique(g)
         /\ Placed(g) = (Placed(h) \ ElementsOf(h[c])) \cup ElementsOf(s)
<1> USE DEF Replaces
<1>1. /\ g \in Placement /\ g[c] = s
      /\ \A d \in Containers \ {c} : g[d] = h[d]
  BY DEF Placement
<1>2. /\ \A d \in Containers : Distinct(h[d])
      /\ \A d, e \in Containers : d # e => ElementsOf(h[d]) \cap ElementsOf(h[e]) = {}
  BY UniqueParts
<1>3. \A d \in Containers : Distinct(g[d])
  BY <1>1, <1>2
<1>4. \A d \in Containers \ {c} : ElementsOf(h[d]) \subseteq Placed(h) \ ElementsOf(h[c])
  BY <1>2 DEF Placed
<1>5. \A d, e \in Containers : d # e => ElementsOf(g[d]) \cap ElementsOf(g[e]) = {}
  <2> SUFFICES ASSUME NEW d \in Containers, NEW e \in Containers, d # e
               PROVE  ElementsOf(g[d]) \cap ElementsOf(g[e]) = {}
    OBVIOUS
  <2>1. CASE d # c /\ e # c
    BY <2>1, <1>1, <1>2
  <2>2. CASE d = c
    BY <2>2, <1>1, <1>4
  <2>3. CASE e = c
    BY <2>3, <1>1, <1>4
  <2> QED  BY <2>1, <2>2, <2>3
<1>6. Unique(g)
  BY <1>1, <1>3, <1>5, UniqueWhole
<1>7. Placed(g) = (Placed(h) \ ElementsOf(h[c])) \cup ElementsOf(s)
  <2>1. ASSUME NEW x \in Placed(g)
        PROVE  x \in (Placed(h) \ ElementsOf(h[c])) \cup ElementsOf(s)
    <3>1. PICK d \in Containers : x \in ElementsOf(g[d])
      BY DEF Placed
    <3> QED  BY <3>1, <1>1, <1>4
  <2>2. ASSUME NEW x \in Placed(h) \ ElementsOf(h[c])
        PROVE  x \in Placed(g)
    <3>1. PICK d \in Containers : x \in ElementsOf(h[d])
      BY DEF Placed
    <3>2. d # c /\ x \in ElementsOf(g[d])
      BY <3>1, <1>1
    <3> QED  BY <3>2 DEF Placed
  <2>3. ElementsOf(s) \subseteq Placed(g)
    BY <1>1 DEF Placed
  <2> QED  BY <2>1, <2>2, <2>3
<1> QED  BY <1>1, <1>6, <1>7

\* g is h with the handles of containers c and d divided between them in another way.
Moves(h, c, s, d, u, g) ==
  /\ h \in Placement /\ Unique(h)
  /\ c \in Containers /\ d \in Containers /\ c # d
  /\ s \in Seq(Jobs) /\ Distinct(s) /\ u \in Seq(Jobs) /\ Distinct(u)
  /\ ElementsOf(s) \subseteq ElementsOf(h[c])
  /\ ElementsOf(s) \cap ElementsOf(u) = {}
  /\ ElementsOf(s) \cup ElementsOf(u) = ElementsOf(h[c]) \cup ElementsOf(h[d])
  /\ g = [h EXCEPT ![c] = s, ![d] = u]

LEMMA MoveHandles ==
  ASSUME NEW h, NEW c, NEW s, NEW d, NEW u, NEW g, Moves(h, c, s, d, u, g)
  PROVE  g \in Placement /\ Unique(g) /\ Placed(g) = Placed(h)
<1> DEFINE f == [h EXCEPT ![c] = s]
<1>1. Replaces(h, c, s, f)
  BY DEF Replaces, Moves
<1>2. g = [f EXCEPT ![d] = u] /\ f[d] = h[d]
  BY DEF Moves, Placement
<1> HIDE DEF f
<1>3. /\ f \in Placement /\ Unique(f)
      /\ Placed(f) = (Placed(h) \ ElementsOf(h[c])) \cup ElementsOf(s)
  BY <1>1, ReplaceContents
<1>4. ElementsOf(h[c]) \subseteq Placed(h) /\ ElementsOf(h[d]) \subseteq Placed(h)
  BY PlacedOf DEF Moves
<1>5. ElementsOf(h[c]) \cap ElementsOf(h[d]) = {}
  BY UniqueParts DEF Moves
<1>6. ElementsOf(u) \cap (Placed(f) \ ElementsOf(f[d])) = {}
  BY <1>2, <1>3, <1>4, <1>5 DEF Moves
<1>7. Replaces(f, d, u, g)
  BY <1>2, <1>3, <1>6 DEF Replaces, Moves
<1>8. /\ g \in Placement /\ Unique(g)
      /\ Placed(g) = (Placed(f) \ ElementsOf(f[d])) \cup ElementsOf(u)
  BY <1>7, ReplaceContents
<1>9. Placed(g) = Placed(h)
  BY <1>2, <1>3, <1>4, <1>5, <1>8 DEF Moves
<1> QED  BY <1>8, <1>9

-----------------------------------------------------------------------------
(* The inductive invariant *)

\* The parts of DataInv that do not look at continuations.
HandleInv == HandleUnique /\ NoJobLost /\ CounterExact /\ CounterAlive /\ FreshJobs

\* What ControlInv says of one thread.
ThreadInv(t) ==
  /\ resuming[t] \in {None, t}
  /\ pc[t] # "submit" => held[Batch(t)] = <<>>
  /\ pc[t] \in {"steal", "global"} => held[Cache(Ctx(t))] = <<>>
  /\ t \in Workers /\ AtBody(t) => held[Stack(t)] # <<>>

LEMMA ControlInvByThread ==
  /\ ControlInv => \A t \in Threads : ThreadInv(t)
  /\ (\A t \in Threads : ThreadInv(t)') => ControlInv'
BY DEF ControlInv, ReturnsToOwnFrame, NoStaleBatch, CacheSpent, BodiesOnStack, ThreadInv, Threads

LEMMA HeldPlacement ==
  ASSUME IInv
  PROVE  /\ held \in Placement /\ Unique(held)
         /\ Placed(held) = {j \in Jobs : phase[j] = "live"}
BY DEF IInv, TypeOK, DataInv, Placement, HandleUnique, Unique, NoJobLost, Placed

\* Each thread has a context of its own.
LEMMA OwnContext ==
  /\ \A t \in Threads : Ctx(t) \in Contexts
  /\ \A t, u \in Threads : Ctx(t) = Ctx(u) => t = u
BY NamesAssumption, ExternalsAssumption DEF Ctx, Contexts, Threads

\* A thread that executes the code of a body: the body is a live job or the
\* thread's own code.
LEMMA TopBody ==
  ASSUME IInv, NEW t \in Threads, AtBody(t)
  PROVE  /\ Top(t) \in Bodies
         /\ Top(t) \in Jobs => phase[Top(t)] = "live"
<1>1. Stack(t) \in Containers /\ held[Stack(t)] \in Seq(Jobs)
  BY ContainerNames, HeldPlacement, PlacedOf
<1>2. CASE held[Stack(t)] = <<>>
  <2>1. t \in Externals
    BY <1>2 DEF IInv, ControlInv, BodiesOnStack, Threads
  <2> QED  BY <1>2, <2>1, NamesAssumption DEF Top, Bodies, Threads
<1>3. CASE held[Stack(t)] # <<>>
  <2>1. Distinct(held[Stack(t)])
    BY <1>1, HeldPlacement, UniqueParts
  <2>2. LastOf(held[Stack(t)]) \in Jobs
        /\ LastOf(held[Stack(t)]) \in ElementsOf(held[Stack(t)])
    BY <1>1, <1>3, <2>1, FrontLast
  <2>3. LastOf(held[Stack(t)]) \in Placed(held)
    BY <1>1, <2>2, HeldPlacement, PlacedOf
  <2> QED  BY <1>3, <2>2, <2>3, HeldPlacement DEF Top, Bodies
<1> QED  BY <1>2, <1>3

\* Handles that only change places keep every counter exact.
LEMMA MovePreserves ==
  ASSUME IInv, held' \in Placement, Unique(held'), Placed(held') = Placed(held),
         UNCHANGED <<phase, counter, job_counter>>
  PROVE  HandleInv'
<1>1. HandleUnique' /\ NoJobLost'
  BY HeldPlacement DEF HandleUnique, Unique, NoJobLost, Placed
<1>2. CounterExact' /\ CounterAlive' /\ FreshJobs'
  BY DEF IInv, DataInv, CounterExact, Pending, CounterAlive, FreshJobs
<1> QED  BY <1>1, <1>2 DEF HandleInv

LEMMA StacksPreserve ==
  ASSUME IInv, UNCHANGED continuation, \A t \in Threads : held'[Stack(t)] = held[Stack(t)]
  PROVE  OwnContinuations'
BY DEF IInv, DataInv, OwnContinuations

\* Steps that touch no handle, no counter and no continuation.
LEMMA QuietPreserves ==
  ASSUME IInv, UNCHANGED <<held, phase, counter, job_counter, continuation>>
  PROVE  DataInv'
<1>1. HandleInv'
  BY HeldPlacement, MovePreserves DEF Placed
<1>2. OwnContinuations'
  BY StacksPreserve
<1> QED  BY <1>1, <1>2 DEF HandleInv, DataInv

\* What another thread's step leaves alone.
LEMMA OtherThreads ==
  ASSUME NEW u \in Threads, ThreadInv(u),
         pc'[u] = pc[u], resuming'[u] = resuming[u],
         held'[Batch(u)] = held[Batch(u)], held'[Stack(u)] = held[Stack(u)],
         held'[Cache(Ctx(u))] = held[Cache(Ctx(u))]
  PROVE  ThreadInv(u)'
BY DEF ThreadInv, AtBody

-----------------------------------------------------------------------------
(* Steps that move no handle *)

LEMMA InitIInv == Init => IInv
<1> SUFFICES ASSUME Init PROVE IInv
  OBVIOUS
<1> USE DEF Init
<1>1. TypeOK
  <2>1. held \in [Containers -> Seq(Jobs)]
    BY EmptyQueue
  <2>2. counter \in [Bodies -> 0..CounterMax] /\ suspends \in [Jobs -> 0..MaxSuspends]
    BY ProgramAssumption
  <2>3. checks \in [Workers -> 0..(StealCheckInterval - 1)]
    BY SizesAssumption
  <2>4. pc \in [Threads -> Locations]
    BY DEF Locations
  <2> QED  BY <2>1, <2>2, <2>3, <2>4 DEF TypeOK
<1>2. \A c \in Containers : held[c] = <<>> /\ DOMAIN held[c] = {} /\ ElementsOf(held[c]) = {}
  BY EmptyQueue
<1>3. HandleUnique /\ NoJobLost
  BY <1>2 DEF HandleUnique, NoJobLost
<1>4. \A b \in Bodies : Pending(b) = {} /\ counter[b] = 0
  BY DEF Pending
<1>5. CounterExact /\ CounterAlive /\ FreshJobs
  BY <1>4, FS_EmptySet DEF CounterExact, CounterAlive, FreshJobs
<1>6. OwnContinuations
  BY <1>2, ContainerNames DEF OwnContinuations
<1>7. ControlInv
  BY <1>2, ContainerNames, OwnContext
  DEF ControlInv, ReturnsToOwnFrame, NoStaleBatch, CacheSpent, BodiesOnStack, AtBody, Threads
<1> QED  BY <1>1, <1>3, <1>5, <1>6, <1>7 DEF IInv, DataInv

\* The accesses to counters and to the wake signal inside wait_for_counter, and
\* the steps of worker_thread_iteration that come back with nothing.
WaitStep(t) ==
  \/ BeginWait(t) \/ CheckCounter(t) \/ SetWakeSignal(t) \/ RecheckCounter(t)
  \/ WaitForSignal(t) \/ PumpMainThread(t) \/ SkipLocal(t) \/ StealNothing(t)
  \/ ClearWakeSignal(t) \/ StopWorker(t)

LEMMA WaitStepIInv ==
  ASSUME IInv, NEW t \in Threads, WaitStep(t)
  PROVE  IInv'
<1>1. UNCHANGED <<held, phase, counter, job_counter, continuation, resuming>>
      /\ \E l \in Locations : pc' = [pc EXCEPT ![t] = l]
  BY DEF WaitStep, BeginWait, CheckCounter, SetWakeSignal, RecheckCounter, WaitForSignal,
         PumpMainThread, SkipLocal, StealNothing, ClearWakeSignal, StopWorker, Goto, Locations
<1>2. TypeOK'
  BY <1>1 DEF IInv, TypeOK, WaitStep, BeginWait, CheckCounter, SetWakeSignal, RecheckCounter,
         WaitForSignal, PumpMainThread, SkipLocal, StealNothing, ClearWakeSignal, StopWorker
<1>3. DataInv'
  BY <1>1, QuietPreserves
<1>4. \A u \in Threads : ThreadInv(u)
  BY ControlInvByThread DEF IInv
<1>5. \A u \in Threads \ {t} : ThreadInv(u)'
  BY <1>1, <1>4, OtherThreads DEF IInv, TypeOK
<1>6. ThreadInv(t)'
  <2>1. ThreadInv(t) /\ pc \in [Threads -> Locations]
    BY <1>4 DEF IInv, TypeOK
  <2>2. t \in Externals => t \notin Workers /\ Ctx(t) = Global
    BY NamesAssumption DEF Ctx
  <2>3. CASE BeginWait(t) \/ CheckCounter(t) \/ SetWakeSignal(t) \/ RecheckCounter(t) \/ WaitForSignal(t)
    BY <2>1, <2>3, <1>1
    DEF ThreadInv, AtBody, BeginWait, CheckCounter, SetWakeSignal, RecheckCounter, WaitForSignal, Goto
  <2>4. CASE PumpMainThread(t) \/ SkipLocal(t)
    BY <2>1, <2>2, <2>4, <1>1 DEF ThreadInv, AtBody, PumpMainThread, SkipLocal, Goto
  <2>5. CASE StealNothing(t)
    <3>1. pc[t] = "steal" /\ pc' = [pc EXCEPT ![t] = "global"]
      BY <2>5 DEF StealNothing, Goto
    <3> QED  BY <3>1, <2>1, <1>1 DEF ThreadInv, AtBody
  <2>6. CASE ClearWakeSignal(t) \/ StopWorker(t)
    <3>1. pc[t] # "submit" /\ pc'[t] \in {"notify", "stopped"}
      BY <2>1, <2>6 DEF ClearWakeSignal, StopWorker, Goto
    <3> QED  BY <3>1, <2>1, <1>1 DEF ThreadInv, AtBody
  <2> QED  BY <2>3, <2>4, <2>5, <2>6 DEF WaitStep
<1>7. ControlInv'
  BY <1>5, <1>6, ControlInvByThread
<1> QED  BY <1>2, <1>3, <1>7 DEF IInv

LEMMA NotifyAllIInv ==
  ASSUME IInv, NEW t \in Threads, NotifyAll(t)
  PROVE  IInv'
<1>1. UNCHANGED <<held, phase, counter, job_counter, continuation, resuming>>
  BY DEF NotifyAll
<1>2. TypeOK'
  BY DEF IInv, TypeOK, NotifyAll, Locations
<1>3. DataInv'
  BY <1>1, QuietPreserves
<1>4. ASSUME NEW u \in Threads
      PROVE  ThreadInv(u)'
  <2>1. ThreadInv(u)
    BY ControlInvByThread DEF IInv
  <2>2. \/ u = t /\ pc[u] = "notify" /\ pc'[u] = "resume"
        \/ pc[u] = "asleep" /\ pc'[u] = "wait"
        \/ pc'[u] = pc[u]
    BY DEF NotifyAll
  <2> QED  BY <1>1, <2>1, <2>2 DEF ThreadInv, AtBody
<1> QED  BY <1>2, <1>3, <1>4, ControlInvByThread DEF IInv

\* Where an iteration returns to, a worker has a body if it is in one.
LEMMA CallerLocation ==
  ASSUME NEW t \in Threads, NEW nest
  PROVE  /\ Caller(t, nest) \in {"fetch", "body", "check"}
         /\ t \in Workers /\ nest = <<>> /\ pumping \subseteq Externals => Caller(t, nest) = "fetch"
BY NamesAssumption DEF Caller

LEMMA ResumeContinuationIInv ==
  ASSUME IInv, NEW t \in Threads, ResumeContinuation(t)
  PROVE  IInv'
<1> DEFINE l == Caller(t, held[Stack(t)])
<1>1. /\ UNCHANGED <<held, phase, counter, job_counter, continuation>>
      /\ pc[t] = "resume" /\ pc' = [pc EXCEPT ![t] = l]
      /\ resuming' = [resuming EXCEPT ![t] = None]
      /\ pumping' \in SUBSET pumping
  BY DEF ResumeContinuation, EndIteration, Goto
<1>2. l \in {"fetch", "body", "check"} /\ (t \in Workers /\ held[Stack(t)] = <<>> => l = "fetch")
  BY CallerLocation DEF IInv, TypeOK
<1> HIDE DEF l
<1>3. TypeOK'
  BY <1>1, <1>2 DEF IInv, TypeOK, ResumeContinuation, Locations
<1>4. DataInv'
  BY <1>1, QuietPreserves
<1>5. \A u \in Threads : ThreadInv(u)
  BY ControlInvByThread DEF IInv
<1>6. \A u \in Threads \ {t} : ThreadInv(u)'
  BY <1>1, <1>5, OtherThreads DEF IInv, TypeOK
<1>7. pc'[t] = l /\ resuming'[t] = None
  BY <1>1 DEF IInv, TypeOK
<1>8. ThreadInv(t)'
  BY <1>1, <1>2, <1>5, <1>7 DEF ThreadInv, AtBody
<1> QED  BY <1>3, <1>4, <1>6, <1>8, ControlInvByThread DEF IInv

LEMMA DestroySchedulerIInv ==
  ASSUME IInv, NEW t \in Threads, DestroyScheduler(t)
  PROVE  IInv'
<1>1. UNCHANGED <<held, phase, counter, job_counter, continuation, resuming, pc>>
  BY DEF DestroyScheduler
<1>2. TypeOK'
  BY DEF IInv, TypeOK, DestroyScheduler
<1>3. DataInv'
  BY <1>1, QuietPreserves
<1>4. ControlInv'
  BY <1>1 DEF IInv, ControlInv, ReturnsToOwnFrame, NoStaleBatch, CacheSpent, BodiesOnStack, AtBody
<1> QED  BY <1>2, <1>3, <1>4 DEF IInv

-----------------------------------------------------------------------------
(* Steps that move handles between queues and caches *)

\* After such a step the handles are somewhere else, and nothing but the place
\* and the containers of one thread have changed for the other threads.
LEMMA SubmitJobsIInv ==
  ASSUME IInv, NEW t \in Threads, SubmitJobs(t)
  PROVE  IInv'
<1> DEFINE queue == held[Local(Ctx(t))]
           batch == held[Batch(t)]
           l == IF resuming[t] = None THEN "body" ELSE "clear"
<1>1. /\ UNCHANGED <<phase, counter, job_counter, continuation, resuming>>
      /\ pc[t] = "submit" /\ pc' = [pc EXCEPT ![t] = l]
      /\ held' = [held EXCEPT ![Batch(t)] = <<>>, ![Local(Ctx(t))] = queue \o batch]
  BY ContainerNames DEF SubmitJobs, Goto
<1>2. /\ Local(Ctx(t)) \in Containers /\ Batch(t) \in Containers /\ Local(Ctx(t)) # Batch(t)
  BY ContainerNames, OwnContext
<1>3. /\ queue \in Seq(Jobs) /\ batch \in Seq(Jobs) /\ Distinct(queue) /\ Distinct(batch)
      /\ ElementsOf(queue) \cap ElementsOf(batch) = {}
  BY <1>2, HeldPlacement, UniqueParts, PlacedOf
<1>4. /\ queue \o batch \in Seq(Jobs) /\ Distinct(queue \o batch)
      /\ ElementsOf(queue \o batch) = ElementsOf(queue) \cup ElementsOf(batch)
  BY <1>3, Concatenation
<1>5. Moves(held, Batch(t), <<>>, Local(Ctx(t)), queue \o batch, held')
  BY <1>1, <1>2, <1>4, EmptyQueue, HeldPlacement DEF Moves
<1>6. held' \in Placement /\ Unique(held') /\ Placed(held') = Placed(held)
  BY <1>5, MoveHandles
<1>7. /\ \A u \in Threads : held'[Stack(u)] = held[Stack(u)]
      /\ \A u \in Threads : held'[Cache(Ctx(u))] = held[Cache(Ctx(u))]
      /\ \A u \in Threads \ {t} : held'[Batch(u)] = held[Batch(u)]
      /\ held'[Batch(t)] = <<>>
  BY <1>1, <1>2, ContainerNames, OwnContext, HeldPlacement DEF Placement
<1>8. TypeOK'
  BY <1>1, <1>6 DEF IInv, TypeOK, SubmitJobs, Placement, Locations
<1>9. DataInv'
  BY <1>1, <1>6, <1>7, MovePreserves, StacksPreserve DEF HandleInv, DataInv
<1>10. \A u \in Threads : ThreadInv(u)
  BY ControlInvByThread DEF IInv
<1>11. \A u \in Threads \ {t} : ThreadInv(u)'
  BY <1>1, <1>7, <1>10, OtherThreads DEF IInv, TypeOK
<1>12. pc'[t] = l
  BY <1>1 DEF IInv, TypeOK
<1>13. ThreadInv(t)'
  <2>1. held'[Stack(t)] = held[Stack(t)] /\ held'[Batch(t)] = <<>> /\ resuming'[t] = resuming[t]
    BY <1>1, <1>7
  <2>2. ThreadInv(t)
    BY <1>10
  <2>3. CASE resuming[t] = None
    BY <2>1, <2>2, <2>3, <1>1, <1>12 DEF ThreadInv, AtBody
  <2>4. CASE resuming[t] # None
    BY <2>1, <2>2, <2>4, <1>1, <1>12 DEF ThreadInv, AtBody
  <2> QED  BY <2>3, <2>4
<1> QED  BY <1>8, <1>9, <1>11, <1>13, ControlInvByThread DEF IInv

\* An empty cache is filled with up to n handles of queue q.
Refills(h, q, c, n, g) ==
  /\ h \in Placement /\ Unique(h) /\ n \in Nat
  /\ q \in Containers /\ c \in Containers /\ q # c /\ h[c] = <<>>
  /\ g = [h EXCEPT ![q] = Left(h[q], n), ![c] = Taken(h[q], n)]

LEMMA RefillCache ==
  ASSUME NEW h, NEW q, NEW c, NEW n, NEW g, Refills(h, q, c, n, g)
  PROVE  g \in Placement /\ Unique(g) /\ Placed(g) = Placed(h)
<1>1. h[q] \in Seq(Jobs) /\ Distinct(h[q])
  BY UniqueParts, PlacedOf DEF Refills
<1>2. /\ Taken(h[q], n) \in Seq(Jobs) /\ Distinct(Taken(h[q], n))
      /\ Left(h[q], n) \in Seq(Jobs) /\ Distinct(Left(h[q], n))
      /\ ElementsOf(Taken(h[q], n)) \cup ElementsOf(Left(h[q], n)) = ElementsOf(h[q])
      /\ ElementsOf(Taken(h[q], n)) \cap ElementsOf(Left(h[q], n)) = {}
  BY <1>1, TakenLeft DEF Refills
<1>3. ElementsOf(h[c]) = {}
  BY EmptyQueue DEF Refills
<1>4. Moves(h, q, Left(h[q], n), c, Taken(h[q], n), g)
  BY <1>2, <1>3 DEF Refills, Moves
<1> QED  BY <1>4, MoveHandles

\* A step of thread t that refills its cache and ends the iteration.
LEMMA RefillControl ==
  ASSUME IInv, NEW t \in Threads, pc[t] # "submit", UNCHANGED resuming, held' \in Placement,
         \A u \in Threads : held'[Stack(u)] = held[Stack(u)] /\ held'[Batch(u)] = held[Batch(u)],
         \A u \in Threads \ {t} : held'[Cache(Ctx(u))] = held[Cache(Ctx(u))],
         NEW l \in Locations, pc' = [pc EXCEPT ![t] = l], l # "submit",
         l \in {"steal", "global"} => held'[Cache(Ctx(t))] = <<>>,
         t \in Workers /\ held[Stack(t)] = <<>> => l \in {"fetch", "steal"}
  PROVE  ControlInv'
<1>1. \A u \in Threads : ThreadInv(u)
  BY ControlInvByThread DEF IInv
<1>2. \A u \in Threads \ {t} : ThreadInv(u)'
  BY <1>1, OtherThreads DEF IInv, TypeOK
<1>3. pc'[t] = l
  BY DEF IInv, TypeOK
<1>4. ThreadInv(t)'
  BY <1>1, <1>3 DEF ThreadInv, AtBody
<1> QED  BY <1>2, <1>4, ControlInvByThread

LEMMA StealFromIInv ==
  ASSUME IInv, NEW t \in Threads, NEW victim \in Workers, StealFrom(t, victim)
  PROVE  IInv'
<1> DEFINE l == Caller(t, held[Stack(t)])
<1>1. /\ UNCHANGED <<phase, counter, job_counter, continuation, resuming>>
      /\ pc[t] = "steal" /\ pc' = [pc EXCEPT ![t] = l]
      /\ pumping' \in SUBSET pumping
      /\ held' = [held EXCEPT ![Stealable(victim)] = Left(held[Stealable(victim)], CacheSize),
                              ![Cache(Ctx(t))] = Taken(held[Stealable(victim)], CacheSize)]
  BY DEF StealFrom, EndIteration, Goto
<1>2. /\ Stealable(victim) \in Containers /\ Cache(Ctx(t)) \in Containers
      /\ Stealable(victim) # Cache(Ctx(t)) /\ held[Cache(Ctx(t))] = <<>>
  BY <1>1, ContainerNames, OwnContext DEF Contexts, IInv, ControlInv, CacheSpent
<1>3. Refills(held, Stealable(victim), Cache(Ctx(t)), CacheSize, held')
  BY <1>1, <1>2, HeldPlacement, SizesAssumption DEF Refills
<1>4. held' \in Placement /\ Unique(held') /\ Placed(held') = Placed(held)
  BY <1>3, RefillCache
<1>5. /\ \A u \in Threads : held'[Stack(u)] = held[Stack(u)] /\ held'[Batch(u)] = held[Batch(u)]
      /\ \A u \in Threads \ {t} : held'[Cache(Ctx(u))] = held[Cache(Ctx(u))]
  BY <1>1, <1>2, ContainerNames, OwnContext, HeldPlacement DEF Placement
<1>6. l \in {"fetch", "body", "check"} /\ (t \in Workers /\ held[Stack(t)] = <<>> => l = "fetch")
  BY CallerLocation DEF IInv, TypeOK
<1> HIDE DEF l
<1>7. TypeOK'
  BY <1>1, <1>4, <1>6 DEF IInv, TypeOK, StealFrom, Placement, Locations
<1>8. DataInv'
  BY <1>1, <1>4, <1>5, MovePreserves, StacksPreserve DEF HandleInv, DataInv
<1>9. l \in Locations
  BY <1>6 DEF Locations
<1>10. ControlInv'
  BY <1>1, <1>4, <1>5, <1>6, <1>9, RefillControl
<1> QED  BY <1>7, <1>8, <1>10 DEF IInv

LEMMA FetchGlobalIInv ==
  ASSUME IInv, NEW t \in Threads, FetchGlobal(t)
  PROVE  IInv'
<1> DEFINE caller == Caller(t, held[Stack(t)])
           l == IF held[Local(Global)] = <<>> /\ caller = "check" THEN "set" ELSE caller
<1>1. /\ UNCHANGED <<phase, counter, job_counter, continuation, resuming>>
      /\ pc[t] = "global" /\ pc' = [pc EXCEPT ![t] = l]
      /\ pumping' \in SUBSET pumping
      /\ held' = [held EXCEPT ![Local(Global)] = Left(held[Local(Global)], CacheSize),
                              ![Cache(Ctx(t))] = Taken(held[Local(Global)], CacheSize)]
  BY DEF FetchGlobal, EndIteration, Goto
<1>2. /\ Local(Global) \in Containers /\ Cache(Ctx(t)) \in Containers
      /\ Local(Global) # Cache(Ctx(t)) /\ held[Cache(Ctx(t))] = <<>>
  BY <1>1, ContainerNames, OwnContext DEF Contexts, IInv, ControlInv, CacheSpent
<1>3. Refills(held, Local(Global), Cache(Ctx(t)), CacheSize, held')
  BY <1>1, <1>2, HeldPlacement, SizesAssumption DEF Refills
<1>4. held' \in Placement /\ Unique(held') /\ Placed(held') = Placed(held)
  BY <1>3, RefillCache
<1>5. /\ \A u \in Threads : held'[Stack(u)] = held[Stack(u)] /\ held'[Batch(u)] = held[Batch(u)]
      /\ \A u \in Threads \ {t} : held'[Cache(Ctx(u))] = held[Cache(Ctx(u))]
  BY <1>1, <1>2, ContainerNames, OwnContext, HeldPlacement DEF Placement
<1>6. /\ l \in {"fetch", "body", "check", "set"}
      /\ (t \in Workers /\ held[Stack(t)] = <<>> => l = "fetch")
  BY CallerLocation DEF IInv, TypeOK
<1> HIDE DEF l
<1>7. TypeOK'
  BY <1>1, <1>4, <1>6 DEF IInv, TypeOK, FetchGlobal, Placement, Locations
<1>8. DataInv'
  BY <1>1, <1>4, <1>5, MovePreserves, StacksPreserve DEF HandleInv, DataInv
<1>9. l \in Locations
  BY <1>6 DEF Locations
<1>10. ControlInv'
  BY <1>1, <1>4, <1>5, <1>6, <1>9, RefillControl
<1> QED  BY <1>7, <1>8, <1>10 DEF IInv

\* Before the cache is refilled, part of the local queue may become stealable.
LEMMA RefillFromLocalIInv ==
  ASSUME IInv, NEW t \in Threads, RefillFromLocal(t)
  PROVE  IInv'
<1> DEFINE due == NextCheck(checks[t]) = 0
           queue == held[Local(t)]
           exposed == IF due THEN Migrating(queue) ELSE <<>>
           rest == Left(queue, Len(exposed))
           filled == Taken(rest, CacheSize)
           l == IF filled = <<>> THEN "steal" ELSE Caller(t, held[Stack(t)])
           f == [held EXCEPT ![Local(t)] = rest, ![Stealable(t)] = held[Stealable(t)] \o exposed]
<1>1. /\ UNCHANGED <<phase, counter, job_counter, continuation, resuming, pumping>>
      /\ t \in Workers /\ pc[t] = "fetch" /\ pc' = [pc EXCEPT ![t] = l]
      /\ held[Cache(t)] = <<>>
      /\ checks' = [checks EXCEPT ![t] = NextCheck(@)]
      /\ held' = [held EXCEPT ![Local(t)] = Left(rest, CacheSize),
                              ![Stealable(t)] = held[Stealable(t)] \o exposed,
                              ![Cache(t)] = filled]
  BY DEF RefillFromLocal, Goto
<1>2. /\ Ctx(t) = t /\ Local(t) \in Containers /\ Stealable(t) \in Containers /\ Cache(t) \in Containers
      /\ Local(t) # Stealable(t) /\ Local(t) # Cache(t) /\ Stealable(t) # Cache(t)
  BY <1>1, ContainerNames DEF Ctx, Contexts
<1>3. /\ queue \in Seq(Jobs) /\ Distinct(queue)
      /\ held[Stealable(t)] \in Seq(Jobs) /\ Distinct(held[Stealable(t)])
      /\ ElementsOf(queue) \cap ElementsOf(held[Stealable(t)]) = {}
  BY <1>2, HeldPlacement, UniqueParts, PlacedOf
<1>4. PICK k \in Nat : exposed = Taken(queue, k) /\ rest = Left(queue, k)
  <2>1. CASE due /\ Len(queue) > Threshold
    <3>1. exposed = Taken(queue, MoveCount)
      BY <2>1 DEF Migrating
    <3>2. Len(exposed) = MoveCount
      BY <2>1, <3>1, <1>3, SizesAssumption DEF Taken, Least
    <3> QED  BY <3>1, <3>2, SizesAssumption
  <2>2. CASE ~(due /\ Len(queue) > Threshold)
    <3>1. exposed = <<>>
      BY <2>2 DEF Migrating
    <3>2. Taken(queue, 0) = <<>>
      BY <1>3, SubSeqEmpty DEF Taken, Least
    <3>3. Len(exposed) = 0
      BY <3>1
    <3> QED  BY <3>1, <3>2, <3>3
  <2> QED  BY <2>1, <2>2
<1> HIDE DEF exposed, rest
<1>5. /\ exposed \in Seq(Jobs) /\ Distinct(exposed) /\ rest \in Seq(Jobs) /\ Distinct(rest)
      /\ ElementsOf(exposed) \cup ElementsOf(rest) = ElementsOf(queue)
      /\ ElementsOf(exposed) \cap ElementsOf(rest) = {}
  BY <1>3, <1>4, TakenLeft
<1>6. ElementsOf(held[Stealable(t)]) \cap ElementsOf(exposed) = {}
  BY <1>3, <1>5
<1>7. /\ held[Stealable(t)] \o exposed \in Seq(Jobs) /\ Distinct(held[Stealable(t)] \o exposed)
      /\ ElementsOf(held[Stealable(t)] \o exposed)
           = ElementsOf(held[Stealable(t)]) \cup ElementsOf(exposed)
  BY <1>3, <1>5, <1>6, Concatenation
<1>8. Moves(held, Local(t), rest, Stealable(t), held[Stealable(t)] \o exposed, f)
  BY <1>2, <1>3, <1>5, <1>7, HeldPlacement DEF Moves
<1>9. f \in Placement /\ Unique(f) /\ Placed(f) = Placed(held)
  BY <1>8, MoveHandles
<1>10. /\ f[Local(t)] = rest /\ f[Cache(t)] = <<>>
       /\ held' = [f EXCEPT ![Local(t)] = Left(rest, CacheSize), ![Cache(t)] = filled]
  BY <1>1, <1>2, HeldPlacement DEF Placement
<1> HIDE DEF f
<1>11. Refills(f, Local(t), Cache(t), CacheSize, held')
  BY <1>2, <1>9, <1>10, SizesAssumption DEF Refills
<1>12. held' \in Placement /\ Unique(held') /\ Placed(held') = Placed(held)
  BY <1>9, <1>11, RefillCache
<1>13. /\ \A u \in Threads : held'[Stack(u)] = held[Stack(u)] /\ held'[Batch(u)] = held[Batch(u)]
       /\ \A u \in Threads \ {t} : held'[Cache(Ctx(u))] = held[Cache(Ctx(u))]
       /\ held'[Cache(Ctx(t))] = filled
  BY <1>1, <1>2, ContainerNames, OwnContext, HeldPlacement DEF Placement
<1>14. /\ l \in {"fetch", "body", "check", "steal"} /\ (l = "steal" => filled = <<>>)
       /\ (held[Stack(t)] = <<>> => l \in {"fetch", "steal"})
  BY <1>1, CallerLocation DEF IInv, TypeOK
<1> HIDE DEF l, filled
<1>15. checks' \in [Workers -> 0..(StealCheckInterval - 1)]
  BY <1>1, SizesAssumption DEF IInv, TypeOK, NextCheck
<1>16. TypeOK'
  BY <1>1, <1>12, <1>14, <1>15 DEF IInv, TypeOK, RefillFromLocal, Placement, Locations
<1>17. DataInv'
  BY <1>1, <1>12, <1>13, MovePreserves, StacksPreserve DEF HandleInv, DataInv
<1>18. l \in Locations
  BY <1>14 DEF Locations
<1>19. ControlInv'
  BY <1>1, <1>12, <1>13, <1>14, <1>18, RefillControl
<1> QED  BY <1>16, <1>17, <1>19 DEF IInv

-----------------------------------------------------------------------------
(* Steps that start, suspend and end a job *)

LEMMA ExecuteCachedIInv ==
  ASSUME IInv, NEW t \in Threads, ExecuteCached(t)
  PROVE  IInv'
<1> DEFINE cache == held[Cache(Ctx(t))]
           stack == held[Stack(t)]
           job == LastOf(cache)
<1>1. /\ UNCHANGED <<phase, counter, job_counter, resuming>>
      /\ UNCHANGED <<suspends, wake_signal, checks, pumping, stop>>
      /\ cache # <<>> /\ pc[t] = "fetch" /\ pc' = [pc EXCEPT ![t] = "body"]
      /\ continuation' = [continuation EXCEPT ![job] = t]
      /\ held' = [held EXCEPT ![Cache(Ctx(t))] = FrontOf(cache), ![Stack(t)] = Append(stack, job)]
  BY ContainerNames DEF ExecuteCached, Goto, SetContinuation
<1>2. Cache(Ctx(t)) \in Containers /\ Stack(t) \in Containers /\ Cache(Ctx(t)) # Stack(t)
  BY ContainerNames, OwnContext
<1>3. /\ cache \in Seq(Jobs) /\ stack \in Seq(Jobs) /\ Distinct(cache) /\ Distinct(stack)
      /\ ElementsOf(cache) \cap ElementsOf(stack) = {}
  BY <1>2, HeldPlacement, UniqueParts, PlacedOf
<1>4. /\ job \in Jobs /\ job \in ElementsOf(cache)
      /\ FrontOf(cache) \in Seq(Jobs) /\ Distinct(FrontOf(cache))
      /\ ElementsOf(FrontOf(cache)) = ElementsOf(cache) \ {job}
  BY <1>1, <1>3, FrontLast
<1>5. \A u \in Threads : job \notin ElementsOf(held[Stack(u)])
  BY <1>2, <1>4, ContainerNames, HeldPlacement, UniqueParts
<1> HIDE DEF job
<1>6. /\ Append(stack, job) \in Seq(Jobs) /\ Distinct(Append(stack, job))
      /\ ElementsOf(Append(stack, job)) = ElementsOf(stack) \cup {job}
  BY <1>3, <1>4, <1>5, Pushed
<1>7. Moves(held, Cache(Ctx(t)), FrontOf(cache), Stack(t), Append(stack, job), held')
  BY <1>1, <1>2, <1>3, <1>4, <1>6, HeldPlacement DEF Moves
<1>8. held' \in Placement /\ Unique(held') /\ Placed(held') = Placed(held)
  BY <1>7, MoveHandles
<1>9. /\ held'[Stack(t)] = Append(stack, job)
      /\ \A u \in Threads : held'[Batch(u)] = held[Batch(u)]
      /\ \A u \in Threads \ {t} :
           held'[Stack(u)] = held[Stack(u)] /\ held'[Cache(Ctx(u))] = held[Cache(Ctx(u))]
  BY <1>1, <1>2, ContainerNames, OwnContext, HeldPlacement DEF Placement
<1>10. TypeOK'
  BY <1>1, <1>4, <1>8 DEF IInv, TypeOK, Placement, Locations
<1>11. OwnContinuations'
  <2> SUFFICES ASSUME NEW u \in Threads, NEW i \in DOMAIN held'[Stack(u)]
               PROVE  continuation'[held'[Stack(u)][i]] = u
    BY DEF OwnContinuations
  <2>1. ASSUME NEW k \in DOMAIN held[Stack(u)]
        PROVE  continuation'[held[Stack(u)][k]] = u
    <3>1. held[Stack(u)] \in Seq(Jobs)
      BY ContainerNames, HeldPlacement, PlacedOf
    <3>2. held[Stack(u)][k] \in Jobs /\ held[Stack(u)][k] # job
      BY <3>1, <1>5 DEF ElementsOf
    <3>3. continuation[held[Stack(u)][k]] = u
      BY DEF IInv, DataInv, OwnContinuations
    <3> QED  BY <3>2, <3>3, <1>1 DEF IInv, TypeOK
  <2>2. CASE u # t
    BY <2>1, <2>2, <1>9
  <2>3. CASE u = t
    <3>1. /\ Len(Append(stack, job)) = Len(stack) + 1 /\ i \in 1..(Len(stack) + 1)
          /\ \A k \in 1..Len(stack) : Append(stack, job)[k] = stack[k]
          /\ Append(stack, job)[Len(stack) + 1] = job
      BY <2>3, <1>3, <1>4, <1>9, AppendProperties
    <3>2. CASE i = Len(stack) + 1
      BY <3>1, <3>2, <2>3, <1>1, <1>4, <1>9 DEF IInv, TypeOK
    <3>3. CASE i # Len(stack) + 1
      <4>1. i \in DOMAIN stack
        BY <3>1, <3>3, <1>3
      <4> QED  BY <4>1, <3>1, <2>1, <2>3, <1>3, <1>9
    <3> QED  BY <3>2, <3>3
  <2> QED  BY <2>2, <2>3
<1>12. DataInv'
  BY <1>1, <1>8, <1>11, MovePreserves DEF HandleInv, DataInv
<1>13. \A u \in Threads : ThreadInv(u)
  BY ControlInvByThread DEF IInv
<1>14. \A u \in Threads \ {t} : ThreadInv(u)'
  BY <1>1, <1>9, <1>13, OtherThreads DEF IInv, TypeOK
<1>15. pc'[t] = "body" /\ held'[Stack(t)] # <<>>
  <2>1. Append(stack, job) # <<>>
    BY <1>3, <1>4, AppendProperties
  <2> QED  BY <2>1, <1>1, <1>9 DEF IInv, TypeOK
<1>16. ThreadInv(t)'
  BY <1>1, <1>9, <1>13, <1>15 DEF ThreadInv, AtBody
<1> QED  BY <1>10, <1>12, <1>14, <1>16, ControlInvByThread DEF IInv

\* A job that leaves the top of its thread's stack.
LEMMA TopOfStack ==
  ASSUME IInv, NEW t \in Threads, held[Stack(t)] # <<>>
  PROVE  /\ held[Stack(t)] \in Seq(Jobs)
         /\ Top(t) = LastOf(held[Stack(t)]) /\ Top(t) \in Jobs
         /\ phase[Top(t)] = "live" /\ continuation[Top(t)] = t
         /\ FrontOf(held[Stack(t)]) \in Seq(Jobs) /\ Distinct(FrontOf(held[Stack(t)]))
         /\ ElementsOf(FrontOf(held[Stack(t)])) = ElementsOf(held[Stack(t)]) \ {Top(t)}
         /\ Top(t) \in ElementsOf(held[Stack(t)])
<1>1. /\ Stack(t) \in Containers /\ held[Stack(t)] \in Seq(Jobs) /\ Distinct(held[Stack(t)])
  BY ContainerNames, HeldPlacement, UniqueParts, PlacedOf
<1>2. Top(t) = LastOf(held[Stack(t)])
  BY DEF Top
<1>3. /\ Top(t) \in Jobs /\ Top(t) \in ElementsOf(held[Stack(t)])
      /\ FrontOf(held[Stack(t)]) \in Seq(Jobs) /\ Distinct(FrontOf(held[Stack(t)]))
      /\ ElementsOf(FrontOf(held[Stack(t)])) = ElementsOf(held[Stack(t)]) \ {Top(t)}
  BY <1>1, <1>2, FrontLast
<1>4. phase[Top(t)] = "live"
  BY <1>1, <1>3, HeldPlacement, PlacedOf
<1>5. Len(held[Stack(t)]) \in DOMAIN held[Stack(t)]
  BY <1>1, EmptySeq
<1>6. continuation[Top(t)] = t
  BY <1>2, <1>5 DEF IInv, DataInv, OwnContinuations, LastOf
<1> QED  BY <1>1, <1>2, <1>3, <1>4, <1>6

\* Popping a stack leaves every other entry of every stack where it was.
LEMMA PoppedContinuations ==
  ASSUME IInv, NEW t \in Threads, held[Stack(t)] # <<>>, UNCHANGED continuation,
         held'[Stack(t)] = FrontOf(held[Stack(t)]),
         \A u \in Threads \ {t} : held'[Stack(u)] = held[Stack(u)]
  PROVE  OwnContinuations'
<1> SUFFICES ASSUME NEW u \in Threads, NEW i \in DOMAIN held'[Stack(u)]
             PROVE  continuation[held'[Stack(u)][i]] = u
  BY DEF OwnContinuations
<1>1. \A k \in DOMAIN held[Stack(u)] : continuation[held[Stack(u)][k]] = u
  BY DEF IInv, DataInv, OwnContinuations
<1>2. CASE u # t
  BY <1>1, <1>2
<1>3. CASE u = t
  <2>1. held[Stack(t)] \in Seq(Jobs) /\ Len(held[Stack(t)]) \in Nat \ {0}
    BY TopOfStack, EmptySeq
  <2>2. /\ DOMAIN FrontOf(held[Stack(t)]) = 1..(Len(held[Stack(t)]) - 1)
        /\ \A k \in 1..(Len(held[Stack(t)]) - 1) : FrontOf(held[Stack(t)])[k] = held[Stack(t)][k]
    BY <2>1 DEF FrontOf
  <2>3. i \in DOMAIN held[Stack(t)] /\ held'[Stack(u)][i] = held[Stack(t)][i]
    BY <2>1, <2>2, <1>3
  <2> QED  BY <2>3, <1>1, <1>3
<1> QED  BY <1>2, <1>3

LEMMA SuspendJobIInv ==
  ASSUME IInv, NEW t \in Threads, SuspendJob(t)
  PROVE  IInv'
<1> DEFINE stack == held[Stack(t)]
           job == Top(t)
<1>1. /\ UNCHANGED <<phase, counter, job_counter, continuation>>
      /\ UNCHANGED <<wake_signal, checks, pumping, stop>>
      /\ stack # <<>> /\ suspends[job] < MaxSuspends
      /\ suspends' = [suspends EXCEPT ![job] = @ + 1]
      /\ pc[t] = "body" /\ pc' = [pc EXCEPT ![t] = "submit"]
      /\ resuming' = [resuming EXCEPT ![t] = continuation[job]]
      /\ held' = [held EXCEPT ![Stack(t)] = FrontOf(stack), ![Batch(t)] = <<job>>]
  BY DEF SuspendJob, Goto
<1>2. /\ Stack(t) \in Containers /\ Batch(t) \in Containers /\ Stack(t) # Batch(t)
      /\ held[Batch(t)] = <<>>
  BY <1>1, ContainerNames DEF IInv, ControlInv, NoStaleBatch
<1>3. /\ stack \in Seq(Jobs) /\ job \in Jobs /\ continuation[job] = t
      /\ FrontOf(stack) \in Seq(Jobs) /\ Distinct(FrontOf(stack))
      /\ ElementsOf(FrontOf(stack)) = ElementsOf(stack) \ {job} /\ job \in ElementsOf(stack)
  BY <1>1, TopOfStack
<1> HIDE DEF job
<1>4. <<job>> \in Seq(Jobs) /\ Distinct(<<job>>) /\ ElementsOf(<<job>>) = {job}
  BY <1>3, Singleton
<1>5. ElementsOf(held[Batch(t)]) = {}
  BY <1>2, EmptyQueue
<1>6. Moves(held, Stack(t), FrontOf(stack), Batch(t), <<job>>, held')
  BY <1>1, <1>2, <1>3, <1>4, <1>5, HeldPlacement DEF Moves
<1>7. held' \in Placement /\ Unique(held') /\ Placed(held') = Placed(held)
  BY <1>6, MoveHandles
<1>8. /\ held'[Stack(t)] = FrontOf(stack)
      /\ \A u \in Threads : held'[Cache(Ctx(u))] = held[Cache(Ctx(u))]
      /\ \A u \in Threads \ {t} :
           held'[Stack(u)] = held[Stack(u)] /\ held'[Batch(u)] = held[Batch(u)]
  BY <1>1, <1>2, ContainerNames, OwnContext, HeldPlacement DEF Placement
<1>9. suspends' \in [Jobs -> 0..MaxSuspends]
  BY <1>1, <1>3, ProgramAssumption DEF IInv, TypeOK
<1>10. TypeOK'
  BY <1>1, <1>3, <1>7, <1>9 DEF IInv, TypeOK, Placement, Locations
<1>11. OwnContinuations'
  BY <1>1, <1>8, PoppedContinuations
<1>12. DataInv'
  BY <1>1, <1>7, <1>11, MovePreserves DEF HandleInv, DataInv
<1>13. \A u \in Threads : ThreadInv(u)
  BY ControlInvByThread DEF IInv
<1>14. \A u \in Threads \ {t} : ThreadInv(u)'
  BY <1>1, <1>8, <1>13, OtherThreads DEF IInv, TypeOK
<1>15. pc'[t] = "submit" /\ resuming'[t] = t
  BY <1>1, <1>3 DEF IInv, TypeOK
<1>16. ThreadInv(t)'
  BY <1>15, NamesAssumption DEF ThreadInv, AtBody
<1> QED  BY <1>10, <1>12, <1>14, <1>16, ControlInvByThread DEF IInv

\* Counters of finite sets of jobs.
LEMMA PendingFinite ==
  ASSUME NEW b
  PROVE  IsFiniteSet(Pending(b)) /\ Cardinality(Pending(b)) \in 0..CounterMax
<1>1. Pending(b) \in SUBSET Jobs
  BY DEF Pending
<1>2. /\ IsFiniteSet(Pending(b)) /\ Cardinality(Pending(b)) <= Cardinality(Jobs)
  BY <1>1, ProgramAssumption, FS_Subset
<1>3. Cardinality(Pending(b)) \in Nat /\ Cardinality(Jobs) \in Nat
  BY <1>2, ProgramAssumption, FS_CardinalityType
<1> QED  BY <1>2, <1>3, ProgramAssumption

LEMMA FinalizeJobIInv ==
  ASSUME IInv, NEW t \in Threads, FinalizeJob(t)
  PROVE  IInv'
<1> DEFINE stack == held[Stack(t)]
           job == Top(t)
           own == job_counter[job]
<1>1. /\ UNCHANGED <<job_counter, continuation, suspends, wake_signal, checks, pumping, stop>>
      /\ stack # <<>> /\ counter[job] = 0
      /\ phase' = [phase EXCEPT ![job] = "done"]
      /\ counter' = IF own # None THEN [counter EXCEPT ![own] = FetchSub(@)] ELSE counter
      /\ pc[t] = "body" /\ pc' = [pc EXCEPT ![t] = "clear"]
      /\ resuming' = [resuming EXCEPT ![t] = continuation[job]]
      /\ held' = [held EXCEPT ![Stack(t)] = FrontOf(stack)]
  BY DEF FinalizeJob, Goto
<1>2. /\ Stack(t) \in Containers
      /\ \A u \in Threads \ {t} : Stack(u) \in Containers /\ Stack(u) # Stack(t)
      /\ \A u \in Threads : Batch(u) \in Containers /\ Batch(u) # Stack(t)
      /\ \A u \in Threads : Cache(Ctx(u)) \in Containers /\ Cache(Ctx(u)) # Stack(t)
  BY ContainerNames, OwnContext
<1>3. /\ stack \in Seq(Jobs) /\ job \in Jobs /\ phase[job] = "live" /\ continuation[job] = t
      /\ FrontOf(stack) \in Seq(Jobs) /\ Distinct(FrontOf(stack))
      /\ ElementsOf(FrontOf(stack)) = ElementsOf(stack) \ {job} /\ job \in ElementsOf(stack)
  BY <1>1, TopOfStack
<1> HIDE DEF job
<1>4. ElementsOf(stack) \subseteq Placed(held)
  BY <1>2, HeldPlacement, PlacedOf
<1>5. Replaces(held, Stack(t), FrontOf(stack), held')
  BY <1>1, <1>2, <1>3, HeldPlacement DEF Replaces
<1>6. /\ held' \in Placement /\ Unique(held')
      /\ Placed(held') = (Placed(held) \ ElementsOf(stack)) \cup ElementsOf(FrontOf(stack))
  BY <1>5, ReplaceContents
<1>7. Placed(held') = Placed(held) \ {job}
  BY <1>3, <1>4, <1>6
<1>8. /\ held'[Stack(t)] = FrontOf(stack)
      /\ \A u \in Threads : held'[Cache(Ctx(u))] = held[Cache(Ctx(u))] /\ held'[Batch(u)] = held[Batch(u)]
      /\ \A u \in Threads \ {t} : held'[Stack(u)] = held[Stack(u)]
  BY <1>1, <1>2, HeldPlacement DEF Placement
<1>9. \A j \in Jobs : phase'[j] = IF j = job THEN "done" ELSE phase[j]
  BY <1>1 DEF IInv, TypeOK
<1>10. HandleUnique' /\ NoJobLost'
  <2>1. {j \in Jobs : phase'[j] = "live"} = {j \in Jobs : phase[j] = "live"} \ {job}
    BY <1>9
  <2> QED  BY <2>1, <1>6, <1>7, HeldPlacement DEF HandleUnique, Unique, NoJobLost, Placed
<1>11. \A b : Pending(b)' = IF b = own THEN Pending(b) \ {job} ELSE Pending(b)
  BY <1>1, <1>3, <1>9 DEF Pending
<1>12. ASSUME NEW b \in Bodies
       PROVE  counter'[b] = Cardinality(Pending(b)') /\ counter'[b] \in 0..CounterMax
  <2>1. counter[b] = Cardinality(Pending(b)) /\ counter[b] \in 0..CounterMax
    BY PendingFinite DEF IInv, DataInv, CounterExact
  <2>2. CASE b = own
    <3>1. job \in Pending(b)
      BY <2>2, <1>3 DEF Pending
    <3>2. Cardinality(Pending(b) \ {job}) = Cardinality(Pending(b)) - 1
      BY <3>1, PendingFinite, FS_RemoveElement
    <3>3. counter[b] # 0
      BY <3>1, <2>1, PendingFinite, FS_EmptySet
    <3>4. own # None
      BY <2>2, NamesAssumption DEF Bodies, Threads
    <3>5. counter'[b] = counter[b] - 1
      BY <3>3, <3>4, <2>2, <1>1 DEF IInv, TypeOK, FetchSub
    <3> QED  BY <3>2, <3>3, <3>5, <2>1, <2>2, <1>11, ProgramAssumption
  <2>3. CASE b # own
    <3>1. counter'[b] = counter[b]
      BY <2>3, <1>1 DEF IInv, TypeOK
    <3> QED  BY <3>1, <2>1, <2>3, <1>11
  <2> QED  BY <2>2, <2>3
<1>13. CounterExact'
  BY <1>12 DEF CounterExact
<1>14. CounterAlive'
  <2> SUFFICES ASSUME NEW j \in Jobs, phase'[j] = "live", job_counter[j] \in Jobs
               PROVE  phase'[job_counter[j]] = "live"
    BY <1>1 DEF CounterAlive
  <2>1. phase[j] = "live" /\ phase[job_counter[j]] = "live"
    BY <1>9 DEF IInv, DataInv, CounterAlive
  <2>2. Pending(job) = {}
    BY <1>1, <1>3, PendingFinite, FS_EmptySet DEF IInv, DataInv, CounterExact, Bodies
  <2>3. job_counter[j] # job
    BY <2>1, <2>2 DEF Pending
  <2> QED  BY <2>1, <2>3, <1>9
<1>15. FreshJobs'
  BY <1>1, <1>9 DEF IInv, DataInv, FreshJobs
<1>16. OwnContinuations'
  BY <1>1, <1>8, PoppedContinuations
<1>17. counter' \in [Bodies -> 0..CounterMax]
  <2>1. counter' = [b \in Bodies |-> counter'[b]]
    BY <1>1 DEF IInv, TypeOK
  <2> QED  BY <2>1, <1>12
<1>18. TypeOK'
  BY <1>1, <1>3, <1>6, <1>17 DEF IInv, TypeOK, Placement, Locations
<1>19. \A u \in Threads : ThreadInv(u)
  BY ControlInvByThread DEF IInv
<1>20. \A u \in Threads \ {t} : ThreadInv(u)'
  BY <1>1, <1>8, <1>19, OtherThreads DEF IInv, TypeOK
<1>21. pc'[t] = "clear" /\ resuming'[t] = t
  BY <1>1, <1>3 DEF IInv, TypeOK
<1>22. ThreadInv(t)'
  BY <1>1, <1>8, <1>19, <1>21 DEF ThreadInv, AtBody
<1> QED  BY <1>10, <1>13, <1>14, <1>15, <1>16, <1>18, <1>20, <1>22, ControlInvByThread DEF IInv, DataInv

\* What dispatch_jobs is handed: distinct handles from the set it may draw on,
\* all of them with a counter or all without.
LEMMA BatchFacts ==
  ASSUME NEW S \in SUBSET Jobs, NEW s \in Batches(S)
  PROVE  /\ s \in Seq(Jobs) /\ Distinct(s) /\ ElementsOf(s) \subseteq S
         /\ \A j \in ElementsOf(s) : j \in Detached <=> s[1] \in Detached
<1>1. PICK n \in 1..Cardinality(S) : s \in [1..n -> S]
  BY DEF Batches
<1>2. /\ \A i, k \in DOMAIN s : s[i] = s[k] => i = k
      /\ \A i \in DOMAIN s : s[i] \in Detached <=> s[1] \in Detached
  BY DEF Batches
<1>3. n \in Nat /\ DOMAIN s = 1..n
  BY <1>1, ProgramAssumption, FS_Subset, FS_CardinalityType
<1>4. s \in Seq(Jobs) /\ Len(s) = n
  BY <1>1, <1>3
<1>5. \A i \in 1..n : s[i] \in S
  BY <1>1
<1> QED  BY <1>2, <1>3, <1>4, <1>5 DEF Distinct, ElementsOf

LEMMA DispatchJobsIInv ==
  ASSUME IInv, NEW t \in Threads, DispatchJobs(t)
  PROVE  IInv'
<1> DEFINE body == Top(t)
<1>1. PICK batch \in Batches(Undispatched(body)) :
        /\ phase' = [j \in Jobs |-> IF j \in ElementsOf(batch) THEN "live" ELSE phase[j]]
        /\ job_counter' = [j \in Jobs |->
             IF batch[1] \notin Detached /\ j \in ElementsOf(batch) THEN body ELSE job_counter[j]]
        /\ counter' = IF batch[1] \notin Detached
                        THEN [counter EXCEPT ![body] = FetchAdd(@, Len(batch))]
                        ELSE counter
        /\ held' = [held EXCEPT ![Batch(t)] = batch]
  BY DEF DispatchJobs
<1> DEFINE counted == batch[1] \notin Detached
           new == ElementsOf(batch)
<1>2. /\ UNCHANGED <<continuation, suspends, wake_signal, checks, resuming, pumping, stop>>
      /\ pc[t] = "body" /\ pc' = [pc EXCEPT ![t] = "submit"]
  BY DEF DispatchJobs, Goto
<1>3. body \in Bodies /\ (body \in Jobs => phase[body] = "live")
  BY <1>2, TopBody DEF AtBody
<1>4. /\ batch \in Seq(Jobs) /\ Distinct(batch)
      /\ new \subseteq Jobs /\ \A j \in new : phase[j] = "created"
  <2>1. Undispatched(body) \in SUBSET Jobs
    BY DEF Undispatched, Children
  <2>2. /\ batch \in Seq(Jobs) /\ Distinct(batch)
        /\ ElementsOf(batch) \subseteq Undispatched(body)
    BY <2>1, BatchFacts
  <2> QED  BY <2>2 DEF Undispatched, Children
<1> HIDE DEF body, counted, new
<1>5. IsFiniteSet(new) /\ Cardinality(new) = Len(batch)
  BY <1>4, DistinctLength DEF new
<1>6. held[Batch(t)] = <<>> /\ ElementsOf(held[Batch(t)]) = {}
  BY <1>2, EmptyQueue DEF IInv, ControlInv, NoStaleBatch
<1>7. new \cap Placed(held) = {}
  BY <1>4, HeldPlacement
<1>8. /\ Batch(t) \in Containers
      /\ \A u \in Threads \ {t} : Batch(u) \in Containers /\ Batch(u) # Batch(t)
      /\ \A u \in Threads : Stack(u) \in Containers /\ Stack(u) # Batch(t)
      /\ \A u \in Threads : Cache(Ctx(u)) \in Containers /\ Cache(Ctx(u)) # Batch(t)
  BY ContainerNames, OwnContext
<1>9. Replaces(held, Batch(t), batch, held')
  BY <1>1, <1>4, <1>7, <1>8, HeldPlacement DEF Replaces, new
<1>10. held' \in Placement /\ Unique(held') /\ Placed(held') = Placed(held) \cup new
  <2>1. /\ held' \in Placement /\ Unique(held')
        /\ Placed(held') = (Placed(held) \ ElementsOf(held[Batch(t)])) \cup ElementsOf(batch)
    BY <1>9, ReplaceContents
  <2> QED  BY <2>1, <1>6 DEF new
<1>11. /\ held'[Batch(t)] = batch
       /\ \A u \in Threads : held'[Cache(Ctx(u))] = held[Cache(Ctx(u))] /\ held'[Stack(u)] = held[Stack(u)]
       /\ \A u \in Threads \ {t} : held'[Batch(u)] = held[Batch(u)]
  BY <1>1, <1>8, HeldPlacement DEF Placement
<1>12. /\ \A j \in Jobs : phase'[j] = IF j \in new THEN "live" ELSE phase[j]
       /\ \A j \in Jobs : job_counter'[j] = IF counted /\ j \in new THEN body ELSE job_counter[j]
  BY <1>1 DEF new, counted, body
<1>13. HandleUnique' /\ NoJobLost'
  <2>1. {j \in Jobs : phase'[j] = "live"} = {j \in Jobs : phase[j] = "live"} \cup new
    BY <1>4, <1>12
  <2> QED  BY <2>1, <1>10, HeldPlacement DEF HandleUnique, Unique, NoJobLost, Placed
<1>14. \A j \in new : job_counter[j] = None
  BY <1>4 DEF IInv, DataInv, FreshJobs
<1>15. ASSUME NEW b \in Bodies
       PROVE  Pending(b)' = IF counted /\ b = body THEN Pending(b) \cup new ELSE Pending(b)
  <2>1. b # None
    BY NamesAssumption DEF Bodies, Threads
  <2>2. \A j \in Jobs : j \in Pending(b)' <=> phase'[j] = "live" /\ job_counter'[j] = b
    BY DEF Pending
  <2>3. \A j \in new : j \notin Pending(b)
    BY <2>1, <1>14 DEF Pending
  <2>4. CASE counted /\ b = body
    BY <2>2, <2>4, <1>4, <1>12 DEF Pending
  <2>5. CASE ~(counted /\ b = body)
    BY <2>1, <2>2, <2>3, <2>5, <1>4, <1>12, <1>14 DEF Pending
  <2> QED  BY <2>4, <2>5
<1>16. ASSUME NEW b \in Bodies
       PROVE  counter'[b] = Cardinality(Pending(b)') /\ counter'[b] \in 0..CounterMax
  <2>1. counter[b] = Cardinality(Pending(b)) /\ counter[b] \in 0..CounterMax
    BY PendingFinite DEF IInv, DataInv, CounterExact
  <2>2. CASE counted /\ b = body
    <3>1. new \cap Pending(b) = {}
      BY <1>4 DEF Pending
    <3>2. Cardinality(Pending(b) \cup new) = Cardinality(Pending(b)) + Cardinality(new)
      <4>1. IsFiniteSet(Pending(b)) /\ Cardinality(Pending(b) \cap new) = 0
        BY <3>1, PendingFinite, FS_EmptySet
      <4>2. Cardinality(Pending(b)) \in Nat /\ Cardinality(new) \in Nat
        BY <1>5, PendingFinite, FS_CardinalityType
      <4>3. Cardinality(Pending(b) \cup new)
              = Cardinality(Pending(b)) + Cardinality(new) - Cardinality(Pending(b) \cap new)
        BY <4>1, <1>5, FS_Union, Zenon
      <4> QED  BY <4>1, <4>2, <4>3
    <3>3. Pending(b) \cup new \in SUBSET Jobs
      BY <1>4 DEF Pending
    <3>4. Cardinality(Pending(b) \cup new) \in Nat /\ Cardinality(Pending(b) \cup new) <= CounterMax
      <4>1. /\ IsFiniteSet(Pending(b) \cup new)
            /\ Cardinality(Pending(b) \cup new) <= Cardinality(Jobs)
        BY <3>3, ProgramAssumption, FS_Subset
      <4>2. Cardinality(Pending(b) \cup new) \in Nat /\ Cardinality(Jobs) \in Nat
        BY <4>1, ProgramAssumption, FS_CardinalityType
      <4> QED  BY <4>1, <4>2, ProgramAssumption
    <3>5. counter'[b] = FetchAdd(counter[b], Len(batch))
      BY <2>2, <1>1 DEF IInv, TypeOK, counted, body
    <3>6. counter[b] + Len(batch) = Cardinality(Pending(b) \cup new)
      BY <2>1, <3>2, <1>5
    <3>7. FetchAdd(counter[b], Len(batch)) = Cardinality(Pending(b) \cup new)
      <4>1. \A n, m \in Nat : n <= m => n % (m + 1) = n
        OBVIOUS
      <4> QED  BY <4>1, <3>4, <3>6, ProgramAssumption DEF FetchAdd
    <3>8. Pending(b)' = Pending(b) \cup new
      BY <2>2, <1>15
    <3>9. counter'[b] = Cardinality(Pending(b) \cup new)
      BY <3>5, <3>7
    <3>10. Cardinality(Pending(b) \cup new) \in 0..CounterMax
      BY <3>4, ProgramAssumption
    <3> QED  BY <3>8, <3>9, <3>10, Zenon
  <2>3. CASE ~(counted /\ b = body)
    <3>1. counter'[b] = counter[b]
      BY <2>3, <1>1 DEF IInv, TypeOK, counted, body
    <3> QED  BY <3>1, <2>1, <2>3, <1>15
  <2> QED  BY <2>2, <2>3
<1>17. CounterExact'
  BY <1>16 DEF CounterExact
<1>18. CounterAlive'
  <2> SUFFICES ASSUME NEW j \in Jobs, phase'[j] = "live", job_counter'[j] \in Jobs
               PROVE  phase'[job_counter'[j]] = "live"
    BY DEF CounterAlive
  <2>1. CASE j \in new
    <3>1. job_counter'[j] = body
      BY <2>1, <1>12, <1>14, NamesAssumption
    <3> QED  BY <3>1, <1>3, <1>12
  <2>2. CASE j \notin new
    <3>1. phase[j] = "live" /\ job_counter'[j] = job_counter[j]
      BY <2>2, <1>12
    <3>2. phase[job_counter[j]] = "live"
      BY <3>1 DEF IInv, DataInv, CounterAlive
    <3> QED  BY <3>1, <3>2, <1>12
  <2> QED  BY <2>1, <2>2
<1>19. FreshJobs'
  <2> SUFFICES ASSUME NEW j \in Jobs, phase'[j] = "created"
               PROVE  job_counter'[j] = None
    BY DEF FreshJobs
  <2>1. j \notin new /\ phase[j] = "created"
    BY <1>12
  <2> QED  BY <2>1, <1>12 DEF IInv, DataInv, FreshJobs
<1>20. OwnContinuations'
  BY <1>2, <1>11, StacksPreserve
<1>21. counter' \in [Bodies -> 0..CounterMax]
  <2>1. counter' = [b \in Bodies |-> counter'[b]]
    BY <1>1 DEF IInv, TypeOK
  <2> QED  BY <2>1, <1>16
<1>22. phase' \in [Jobs -> {"created", "live", "done"}] /\ job_counter' \in [Jobs -> Bodies \cup {None}]
  BY <1>1, <1>3 DEF IInv, TypeOK, body
<1>23. TypeOK'
  BY <1>2, <1>10, <1>21, <1>22 DEF IInv, TypeOK, Placement, Locations
<1>24. \A u \in Threads : ThreadInv(u)
  BY ControlInvByThread DEF IInv
<1>25. \A u \in Threads \ {t} : ThreadInv(u)'
  BY <1>2, <1>11, <1>24, OtherThreads DEF IInv, TypeOK
<1>26. pc'[t] = "submit" /\ (t \in Workers => held[Stack(t)] # <<>>)
  BY <1>2 DEF IInv, TypeOK, ControlInv, BodiesOnStack, AtBody
<1>27. ThreadInv(t)'
  BY <1>2, <1>11, <1>24, <1>26 DEF ThreadInv, AtBody
<1> QED
  BY <1>13, <1>17, <1>18, <1>19, <1>20, <1>23, <1>25, <1>27, ControlInvByThread DEF IInv, DataInv

LEMMA StutterIInv ==
  ASSUME IInv, UNCHANGED vars
  PROVE  IInv'
BY DEF vars, IInv, TypeOK, DataInv, HandleUnique, NoJobLost, CounterExact, Pending, CounterAlive,
       FreshJobs, OwnContinuations, ControlInv, ReturnsToOwnFrame, NoStaleBatch, CacheSpent,
       BodiesOnStack, AtBody

LEMMA NextIInv == IInv /\ [Next]_vars => IInv'
<1> SUFFICES ASSUME IInv, [Next]_vars PROVE IInv'
  OBVIOUS
<1>1. CASE UNCHANGED vars \/ Destroyed
  BY <1>1, StutterIInv DEF Destroyed
<1>2. ASSUME NEW t \in Threads, BodyStep(t) PROVE IInv'
  <2>1. CASE DispatchJobs(t)
    BY <2>1, DispatchJobsIInv
  <2>2. CASE BeginWait(t) \/ PumpMainThread(t)
    BY <2>2, WaitStepIInv DEF WaitStep
  <2>3. CASE SuspendJob(t)
    BY <2>3, SuspendJobIInv
  <2>4. CASE FinalizeJob(t)
    BY <2>4, FinalizeJobIInv
  <2>5. CASE DestroyScheduler(t)
    BY <2>5, DestroySchedulerIInv
  <2> QED  BY <1>2, <2>1, <2>2, <2>3, <2>4, <2>5 DEF BodyStep
<1>3. ASSUME NEW t \in Threads, SchedulerStep(t) PROVE IInv'
  <2>1. CASE SubmitJobs(t)
    BY <2>1, SubmitJobsIInv
  <2>2. CASE \/ CheckCounter(t) \/ SetWakeSignal(t) \/ RecheckCounter(t) \/ WaitForSignal(t)
             \/ SkipLocal(t) \/ StealNothing(t) \/ ClearWakeSignal(t) \/ StopWorker(t)
    BY <2>2, WaitStepIInv DEF WaitStep
  <2>3. CASE ExecuteCached(t)
    BY <2>3, ExecuteCachedIInv
  <2>4. CASE RefillFromLocal(t)
    BY <2>4, RefillFromLocalIInv
  <2>5. CASE \E victim \in Workers : StealFrom(t, victim)
    BY <2>5, StealFromIInv
  <2>6. CASE FetchGlobal(t)
    BY <2>6, FetchGlobalIInv
  <2>7. CASE NotifyAll(t)
    BY <2>7, NotifyAllIInv
  <2>8. CASE ResumeContinuation(t)
    BY <2>8, ResumeContinuationIInv
  <2> QED  BY <1>3, <2>1, <2>2, <2>3, <2>4, <2>5, <2>6, <2>7, <2>8 DEF SchedulerStep
<1> QED  BY <1>1, <1>2, <1>3 DEF Next

\* The invariant holds in every reachable state, for every program, every number
\* of workers and every size of the caches and thresholds.
THEOREM InductiveInvariant == Spec => []IInv
<1>1. Init => IInv
  BY InitIInv
<1>2. IInv /\ [Next]_vars => IInv'
  BY NextIInv
<1> QED  BY <1>1, <1>2, PTL DEF Spec

-----------------------------------------------------------------------------
(* What the scheduler guarantees *)

\* The variables keep their types; in particular no Counter wraps around.
THEOREM TypeCorrect == Spec => []TypeOK
<1>1. IInv => TypeOK
  BY DEF IInv
<1> QED  BY <1>1, InductiveInvariant, PTL

\* worker_thread_iteration, try_steal and dispatch_jobs never hand one coroutine
\* handle to two threads.
THEOREM HandlesAreUnique == Spec => []HandleUnique
<1>1. IInv => HandleUnique
  BY DEF IInv, DataInv
<1> QED  BY <1>1, InductiveInvariant, PTL

\* The caches and queues together hold exactly the unfinished jobs.
THEOREM NoJobIsLost == Spec => []NoJobLost
<1>1. IInv => NoJobLost
  BY DEF IInv, DataInv
<1> QED  BY <1>1, InductiveInvariant, PTL

\* Every Counter counts its unfinished jobs, although it is bumped before the
\* jobs are queued and jobs that suspend are dispatched again.
THEOREM CountersAreExact == Spec => []CounterExact
<1>1. IInv => CounterExact
  BY DEF IInv, DataInv
<1> QED  BY <1>1, InductiveInvariant, PTL

\* The Counter a FinalizeJob decrements is on the stack of an unfinished body.
THEOREM CountersAreAlive == Spec => []CounterAlive
<1>1. IInv => CounterAlive
  BY DEF IInv, DataInv
<1> QED  BY <1>1, InductiveInvariant, PTL

\* An await_suspend resumes the execute_job frame of the thread it runs on.
THEOREM FramesAreOwn == Spec => []ReturnsToOwnFrame
<1>1. IInv => ReturnsToOwnFrame
  BY DEF IInv, ControlInv
<1> QED  BY <1>1, InductiveInvariant, PTL

\* A thread leaves the head of the loop only by its own look at the counter.
LEMMA LeavesLoop ==
  ASSUME pc \in [Threads -> Locations], Next, NEW t \in Threads, pc[t] = "check", pc'[t] = "body"
  PROVE  CheckCounter(t)
<1>1. PICK u \in Threads : BodyStep(u) \/ SchedulerStep(u)
  BY DEF Next, Destroyed, vars
<1>2. ~NotifyAll(u) /\ ~DestroyScheduler(u)
  BY DEF NotifyAll, DestroyScheduler
<1>3. \E l : pc' = [pc EXCEPT ![u] = l]
  <2>1. CASE BodyStep(u)
    BY <2>1, <1>2 DEF BodyStep, DispatchJobs, BeginWait, PumpMainThread, SuspendJob, FinalizeJob, Goto
  <2>2. CASE SchedulerStep(u)
    BY <2>2, <1>2 DEF SchedulerStep, SubmitJobs, CheckCounter, SetWakeSignal, RecheckCounter,
       WaitForSignal, ExecuteCached, RefillFromLocal, SkipLocal, StealFrom, StealNothing,
       FetchGlobal, ClearWakeSignal, ResumeContinuation, StopWorker, EndIteration, Goto
  <2> QED  BY <1>1, <2>1, <2>2
<1>4. u = t
  BY <1>3
<1>5. ~BodyStep(t)
  BY <1>2, <1>4 DEF BodyStep, DispatchJobs, BeginWait, PumpMainThread, SuspendJob, FinalizeJob
<1>6. CASE SchedulerStep(t)
  BY <1>6, <1>2, <1>4 DEF SchedulerStep, SubmitJobs, SetWakeSignal, RecheckCounter,
     WaitForSignal, ExecuteCached, RefillFromLocal, SkipLocal, StealFrom, StealNothing,
     FetchGlobal, ClearWakeSignal, ResumeContinuation, StopWorker
<1> QED  BY <1>1, <1>4, <1>5, <1>6

\* The head of wait_for_counter's loop lets a body go on only when every job
\* counted on it has finalized.
THEOREM JoinIsComplete == Spec => JoinComplete
<1> DEFINE Leaves == \A t \in Threads : pc[t] = "check" /\ pc'[t] = "body" => Pending(Top(t)) = {}
<1>1. ASSUME IInv, [Next]_vars PROVE [Leaves]_vars
  <2> SUFFICES ASSUME Next, NEW t \in Threads, pc[t] = "check", pc'[t] = "body"
               PROVE  Pending(Top(t)) = {}
    BY <1>1 DEF vars
  <2>1. counter[Top(t)] = 0
    <3>1. CheckCounter(t)
      BY <1>1, LeavesLoop DEF IInv, TypeOK
    <3>2. ~(counter[Top(t)] > 0)
      BY <1>1, <3>1 DEF CheckCounter, Goto, IInv, TypeOK
    <3>3. counter[Top(t)] \in Nat
      BY <1>1, TopBody, ProgramAssumption DEF AtBody, IInv, TypeOK
    <3> QED  BY <3>2, <3>3
  <2>2. Top(t) \in Bodies
    BY <1>1, TopBody DEF AtBody
  <2> QED  BY <2>1, <2>2, <1>1, PendingFinite, FS_EmptySet DEF IInv, DataInv, CounterExact
<1> QED  BY <1>1, InductiveInvariant, PTL DEF Spec, JoinComplete

=============================================================================
