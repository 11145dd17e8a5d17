---------------------------- MODULE WorkerQueueProofs ----------------------------
(***************************************************************************)
(* What holds of WorkerQueue for every set of threads and jobs and every   *)
(* size of caches, thresholds and counts, proved.                          *)
(*                                                                         *)
(* The first part is about sequences of distinct jobs, the second about    *)
(* the places jobs are in, the third about the jobs a count has still to   *)
(* take note of, and about counts that wrap.  Then the inductive invariant *)
(* IInv, part by part, and what follows from it.                           *)
(***************************************************************************)
EXTENDS WorkerQueue, SequenceTheorems, FiniteSetTheorems, FunctionTheorems, TLAPS

-----------------------------------------------------------------------------
(* Sequences of distinct jobs *)

\* A bulk dequeue splits a queue in two, and loses and repeats no job.
LEMMA TakenLeft ==
  ASSUME NEW S, NEW s \in Seq(S), NEW n \in Nat, IsInjective(s)
  PROVE  /\ Taken(s, n) \in Seq(S) /\ IsInjective(Taken(s, n))
         /\ Left(s, n) \in Seq(S) /\ IsInjective(Left(s, n))
         /\ Range(Taken(s, n)) \cup Range(Left(s, n)) = Range(s)
         /\ Range(Taken(s, n)) \cap Range(Left(s, n)) = {}
<1> DEFINE m == Least(n, Len(s))
<1>1. m \in 0..Len(s)
  BY DEF Least
<1>2. /\ Taken(s, n) \in Seq(S) /\ Len(Taken(s, n)) = m
      /\ \A i \in 1..m : Taken(s, n)[i] = s[i]
  BY <1>1 DEF Taken
<1>3. /\ Left(s, n) \in Seq(S) /\ Len(Left(s, n)) = Len(s) - m
      /\ \A i \in 1..(Len(s) - m) : Left(s, n)[i] = s[m + i]
  BY <1>1 DEF Left
<1>4. Range(s) \subseteq Range(Taken(s, n)) \cup Range(Left(s, n))
  <2> SUFFICES ASSUME NEW i \in 1..Len(s)
               PROVE  s[i] \in Range(Taken(s, n)) \cup Range(Left(s, n))
    BY DEF Range
  <2>1. CASE i <= m
    BY <2>1, <1>1, <1>2 DEF Range
  <2>2. CASE i > m
    <3>1. i - m \in 1..(Len(s) - m) /\ m + (i - m) = i
      BY <2>2, <1>1
    <3>2. s[i] = Left(s, n)[i - m]
      BY <3>1, <1>3
    <3> QED  BY <3>1, <3>2, <1>3 DEF Range
  <2> QED  BY <2>1, <2>2, <1>1
<1>5. Range(Taken(s, n)) \subseteq Range(s)
  BY <1>1, <1>2 DEF Range
<1>6. Range(Left(s, n)) \subseteq Range(s)
  BY <1>1, <1>3 DEF Range
<1>7. Range(Taken(s, n)) \cap Range(Left(s, n)) = {}
  <2> SUFFICES ASSUME NEW i \in 1..m, NEW k \in 1..(Len(s) - m),
                      Taken(s, n)[i] = Left(s, n)[k]
               PROVE  FALSE
    BY <1>2, <1>3 DEF Range
  <2>1. i \in 1..Len(s) /\ m + k \in 1..Len(s) /\ i # m + k
    BY <1>1
  <2>2. s[i] = s[m + k]
    BY <1>2, <1>3
  <2> QED  BY <2>1, <2>2 DEF IsInjective
<1>8. IsInjective(Taken(s, n))
  BY <1>1, <1>2 DEF IsInjective
<1>9. IsInjective(Left(s, n))
  <2> SUFFICES ASSUME NEW i \in 1..(Len(s) - m), NEW k \in 1..(Len(s) - m),
                      Left(s, n)[i] = Left(s, n)[k]
               PROVE  i = k
    BY <1>3 DEF IsInjective
  <2>1. m + i \in 1..Len(s) /\ m + k \in 1..Len(s)
    BY <1>1
  <2>2. s[m + i] = s[m + k]
    BY <1>3
  <2>3. m + i = m + k
    BY <2>1, <2>2 DEF IsInjective
  <2> QED  BY <2>3, <1>1
<1> QED  BY <1>2, <1>3, <1>4, <1>5, <1>6, <1>7, <1>8, <1>9

\* Taking the last job of a cache or a stack.
LEMMA FrontLast ==
  ASSUME NEW S, NEW s \in Seq(S), s # <<>>, IsInjective(s)
  PROVE  /\ Last(s) \in S
         /\ Front(s) \in Seq(S) /\ IsInjective(Front(s))
         /\ Range(Front(s)) = Range(s) \ {Last(s)}
         /\ Last(s) \in Range(s)
<1>1. Len(s) \in Nat \ {0} /\ DOMAIN s = 1..Len(s)
  BY EmptySeq
<1>2. /\ Front(s) \in Seq(S) /\ Len(Front(s)) = Len(s) - 1
      /\ \A i \in 1..(Len(s) - 1) : Front(s)[i] = s[i]
  BY <1>1 DEF Front
<1>3. Last(s) \in S /\ Last(s) \in Range(s)
  BY <1>1 DEF Last, Range
<1>4. IsInjective(Front(s))
  <2>1. DOMAIN Front(s) = 1..(Len(s) - 1)
    BY <1>1, <1>2
  <2> QED  BY <2>1, <1>1, <1>2 DEF IsInjective
<1>5. Range(Front(s)) \subseteq Range(s) \ {Last(s)}
  BY <1>1, <1>2 DEF Range, Last, IsInjective
<1>6. Range(s) \ {Last(s)} \subseteq Range(Front(s))
  <2> SUFFICES ASSUME NEW i \in 1..Len(s), s[i] # s[Len(s)]
               PROVE  s[i] \in Range(Front(s))
    BY DEF Range, Last
  <2>1. i \in 1..(Len(s) - 1)
    BY <1>1
  <2> QED  BY <2>1, <1>2 DEF Range
<1> QED  BY <1>2, <1>3, <1>4, <1>5, <1>6

\* A batch appended to a queue that holds none of its jobs.
LEMMA Concatenation ==
  ASSUME NEW S, NEW s \in Seq(S), NEW u \in Seq(S), IsInjective(s), IsInjective(u),
         Range(s) \cap Range(u) = {}
  PROVE  /\ s \o u \in Seq(S) /\ IsInjective(s \o u)
         /\ Range(s \o u) = Range(s) \cup Range(u)
<1>1. /\ s \o u \in Seq(S) /\ Len(s \o u) = Len(s) + Len(u)
      /\ \A i \in 1..(Len(s) + Len(u)) :
           (s \o u)[i] = IF i <= Len(s) THEN s[i] ELSE u[i - Len(s)]
  BY ConcatProperties
<1>2. IsInjective(s \o u)
  <2> SUFFICES ASSUME NEW i \in 1..(Len(s) + Len(u)), NEW k \in 1..(Len(s) + Len(u)),
                      (s \o u)[i] = (s \o u)[k]
               PROVE  i = k
    BY <1>1 DEF IsInjective
  <2>1. CASE i <= Len(s) /\ k <= Len(s)
    BY <2>1, <1>1 DEF IsInjective
  <2>2. CASE i > Len(s) /\ k > Len(s)
    <3>1. i - Len(s) \in 1..Len(u) /\ k - Len(s) \in 1..Len(u)
      BY <2>2
    <3>2. u[i - Len(s)] = u[k - Len(s)]
      BY <2>2, <1>1
    <3>3. i - Len(s) = k - Len(s)
      BY <3>1, <3>2 DEF IsInjective
    <3> QED  BY <3>3
  <2>3. CASE i <= Len(s) /\ k > Len(s)
    <3>1. i \in 1..Len(s) /\ k - Len(s) \in 1..Len(u)
      BY <2>3
    <3>2. s[i] = u[k - Len(s)]
      BY <2>3, <1>1
    <3> QED  BY <3>1, <3>2 DEF Range
  <2>4. CASE i > Len(s) /\ k <= Len(s)
    <3>1. k \in 1..Len(s) /\ i - Len(s) \in 1..Len(u)
      BY <2>4
    <3>2. s[k] = u[i - Len(s)]
      BY <2>4, <1>1
    <3> QED  BY <3>1, <3>2 DEF Range
  <2> QED  BY <2>1, <2>2, <2>3, <2>4
<1>3. Range(s \o u) \subseteq Range(s) \cup Range(u)
  <2> SUFFICES ASSUME NEW i \in 1..(Len(s) + Len(u))
               PROVE  (s \o u)[i] \in Range(s) \cup Range(u)
    BY <1>1 DEF Range
  <2>1. CASE i <= Len(s)
    BY <2>1, <1>1 DEF Range
  <2>2. CASE i > Len(s)
    <3>1. i - Len(s) \in 1..Len(u)
      BY <2>2
    <3> QED  BY <3>1, <2>2, <1>1 DEF Range
  <2> QED  BY <2>1, <2>2
<1>4. Range(s) \subseteq Range(s \o u)
  BY <1>1 DEF Range
<1>5. Range(u) \subseteq Range(s \o u)
  <2> SUFFICES ASSUME NEW i \in 1..Len(u)
               PROVE  u[i] \in Range(s \o u)
    BY DEF Range
  <2>1. Len(s) + i \in 1..(Len(s) + Len(u)) /\ (Len(s) + i) - Len(s) = i
    OBVIOUS
  <2>2. (s \o u)[Len(s) + i] = u[i] /\ DOMAIN (s \o u) = 1..(Len(s) + Len(u))
    BY <2>1, <1>1
  <2> QED  BY <2>1, <2>2 DEF Range
<1> QED  BY <1>1, <1>2, <1>3, <1>4, <1>5

LEMMA Singleton ==
  ASSUME NEW S, NEW x \in S
  PROVE  <<x>> \in Seq(S) /\ IsInjective(<<x>>) /\ Range(<<x>>) = {x}
BY DEF IsInjective, Range

LEMMA EmptyQueue ==
  ASSUME NEW S
  PROVE  <<>> \in Seq(S) /\ IsInjective(<<>>) /\ Range(<<>>) = {}
BY DEF IsInjective, Range

\* A sequence of distinct jobs has as many entries as elements.
LEMMA DistinctLength ==
  ASSUME NEW S, NEW s \in Seq(S), IsInjective(s)
  PROVE  IsFiniteSet(Range(s)) /\ Cardinality(Range(s)) = Len(s)
<1>1. Len(s) \in Nat /\ DOMAIN s = 1..Len(s) /\ s \in [1..Len(s) -> Range(s)]
  BY DEF Range
<1>2. s \in Bijection(1..Len(s), Range(s))
  BY <1>1 DEF Bijection, Injection, Surjection, IsInjective, Range
<1>3. ExistsBijection(1..Len(s), Range(s))
  BY <1>2 DEF ExistsBijection
<1> QED  BY <1>1, <1>3, FS_CountingElements, FS_NatBijection

\* Taking as many jobs as a queue has given leaves what taking that many leaves,
\* and the number is at most the one asked for.
LEMMA TakenLength ==
  ASSUME NEW S, NEW s \in Seq(S), NEW n \in Nat
  PROVE  /\ Taken(s, n) \in Seq(S) /\ Left(s, n) \in Seq(S)
         /\ Len(Taken(s, n)) = Least(n, Len(s))
         /\ Least(n, Len(s)) \in 0..n /\ Least(n, Len(s)) \in 0..Len(s)
         /\ Len(Left(s, n)) = Len(s) - Least(n, Len(s))
         /\ Left(s, Len(Taken(s, n))) = Left(s, n)
         /\ Left(s, Least(n, Len(s))) = Left(s, n)
         /\ Taken(s, Least(n, Len(s))) = Taken(s, n)
<1>1. Least(n, Len(s)) \in 0..Len(s) /\ Least(n, Len(s)) \in 0..n
  BY DEF Least
<1>2. Least(Least(n, Len(s)), Len(s)) = Least(n, Len(s))
  BY DEF Least
<1>3. /\ Taken(s, n) \in Seq(S) /\ Len(Taken(s, n)) = Least(n, Len(s))
      /\ Left(s, n) \in Seq(S) /\ Len(Left(s, n)) = Len(s) - Least(n, Len(s))
  BY <1>1 DEF Taken, Left
<1> QED  BY <1>1, <1>2, <1>3 DEF Taken, Left

-----------------------------------------------------------------------------
(* The places of jobs *)

Placement == [Places -> Seq(Jobs)]

Unique(h) ==
  /\ \A x \in Places : IsInjective(h[x])
  /\ \A x, y \in Places : x # y => Range(h[x]) \cap Range(h[y]) = {}

Held(h) == UNION {Range(h[x]) : x \in Places}

CacheOf(t) == <<"cache", t>>
BodyOf(t) == <<"body", t>>

LEMMA PlaceNames ==
  /\ \A q \in Queues : /\ q \in Places /\ q = <<q[1], q[2], q[3]>>
                       /\ q[1] \in {"local", "stealable"} /\ q[2] \in Contexts
                       /\ q[3] \in Priorities
  /\ \A x \in Contexts, p \in Priorities : Local(x, p) \in Queues /\ Stealable(x, p) \in Queues
  /\ \A t \in Threads : CacheOf(t) \in Places /\ BodyOf(t) \in Places
  /\ \A t \in Threads : CacheOf(t) \notin Queues /\ BodyOf(t) \notin Queues
  /\ \A t, u : CacheOf(t) # BodyOf(u)
  /\ \A t, u : CacheOf(t) = CacheOf(u) => t = u
  /\ \A t, u : BodyOf(t) = BodyOf(u) => t = u
  /\ \A t, u : CacheOf(t)[1] = "cache" /\ CacheOf(t)[2] = t /\ BodyOf(t)[1] = "body"
               /\ BodyOf(t)[2] = t
  /\ \A x, y, p, r : Local(x, p) # Stealable(y, r)
  /\ \A x, y, p, r : Local(x, p) = Local(y, r) => x = y /\ p = r
  /\ \A x, y, p, r : Stealable(x, p) = Stealable(y, r) => x = y /\ p = r
<1>1. \A q \in Queues : /\ q \in Places /\ q = <<q[1], q[2], q[3]>>
                        /\ q[1] \in {"local", "stealable"} /\ q[2] \in Contexts
                        /\ q[3] \in Priorities
  BY DEF Places, Queues
<1>2. \A x \in Contexts, p \in Priorities : Local(x, p) \in Queues /\ Stealable(x, p) \in Queues
  BY DEF Queues, Local, Stealable
<1>3. \A t \in Threads : CacheOf(t) \in Places /\ BodyOf(t) \in Places
  BY DEF CacheOf, BodyOf, Places
<1>4. \A t, u : CacheOf(t)[1] = "cache" /\ CacheOf(t)[2] = t /\ BodyOf(t)[1] = "body"
                /\ BodyOf(t)[2] = t
  BY DEF CacheOf, BodyOf
<1>5. \A t \in Threads : CacheOf(t) \notin Queues /\ BodyOf(t) \notin Queues
  BY <1>1, <1>4
<1>6. \A x, y, p, r : /\ Local(x, p) # Stealable(y, r)
                      /\ Local(x, p) = Local(y, r) => x = y /\ p = r
                      /\ Stealable(x, p) = Stealable(y, r) => x = y /\ p = r
  BY DEF Local, Stealable
<1> QED  BY <1>1, <1>2, <1>3, <1>4, <1>5, <1>6

LEMMA PlaceCases ==
  ASSUME NEW x \in Places
  PROVE  \/ x \in Queues
         \/ \E t \in Threads : x = CacheOf(t)
         \/ \E t \in Threads : x = BodyOf(t)
BY DEF Places, CacheOf, BodyOf

LEMMA PlacedOf ==
  ASSUME NEW h \in Placement, NEW x \in Places
  PROVE  /\ h[x] \in Seq(Jobs) /\ Range(h[x]) \subseteq Held(h)
         /\ Held(h) \subseteq Jobs
BY DEF Placement, Held, Range

\* g is h with new contents for one place, none of them held at another one.
Replaces(h, x, s, g) ==
  /\ h \in Placement /\ Unique(h) /\ x \in Places
  /\ s \in Seq(Jobs) /\ IsInjective(s)
  /\ Range(s) \cap (Held(h) \ Range(h[x])) = {}
  /\ g = [h EXCEPT ![x] = s]

LEMMA ReplaceContents ==
  ASSUME NEW h, NEW x, NEW s, NEW g, Replaces(h, x, s, g)
  PROVE  /\ g \in Placement /\ Unique(g)
         /\ Held(g) = (Held(h) \ Range(h[x])) \cup Range(s)
<1> USE DEF Replaces
<1>1. /\ g \in Placement /\ g[x] = s
      /\ \A y \in Places \ {x} : g[y] = h[y]
  BY DEF Placement
<1>2. \A y \in Places \ {x} : Range(h[y]) \subseteq Held(h) \ Range(h[x])
  BY DEF Held, Unique
<1>3. \A y, z \in Places : y # z => Range(g[y]) \cap Range(g[z]) = {}
  <2> SUFFICES ASSUME NEW y \in Places, NEW z \in Places, y # z
               PROVE  Range(g[y]) \cap Range(g[z]) = {}
    OBVIOUS
  <2>1. CASE y # x /\ z # x
    BY <2>1, <1>1 DEF Unique
  <2>2. CASE y = x
    BY <2>2, <1>1, <1>2
  <2>3. CASE z = x
    BY <2>3, <1>1, <1>2
  <2> QED  BY <2>1, <2>2, <2>3
<1>4. Unique(g)
  BY <1>1, <1>3 DEF Unique
<1>5. Held(g) = (Held(h) \ Range(h[x])) \cup Range(s)
  <2>1. ASSUME NEW j \in Held(g)
        PROVE  j \in (Held(h) \ Range(h[x])) \cup Range(s)
    <3>1. PICK y \in Places : j \in Range(g[y])
      BY DEF Held
    <3> QED  BY <3>1, <1>1, <1>2
  <2>2. ASSUME NEW j \in Held(h) \ Range(h[x])
        PROVE  j \in Held(g)
    <3>1. PICK y \in Places : j \in Range(h[y])
      BY DEF Held
    <3>2. y # x /\ j \in Range(g[y])
      BY <3>1, <1>1
    <3> QED  BY <3>2 DEF Held
  <2>3. Range(s) \subseteq Held(g)
    BY <1>1 DEF Held
  <2> QED  BY <2>1, <2>2, <2>3
<1> QED  BY <1>1, <1>4, <1>5

\* g is h with the jobs of places x and y divided between them in another way.
Moves(h, x, s, y, u, g) ==
  /\ h \in Placement /\ Unique(h)
  /\ x \in Places /\ y \in Places /\ x # y
  /\ s \in Seq(Jobs) /\ IsInjective(s) /\ u \in Seq(Jobs) /\ IsInjective(u)
  /\ Range(s) \subseteq Range(h[x])
  /\ Range(s) \cap Range(u) = {}
  /\ Range(s) \cup Range(u) = Range(h[x]) \cup Range(h[y])
  /\ g = [h EXCEPT ![x] = s, ![y] = u]

LEMMA MoveJobs ==
  ASSUME NEW h, NEW x, NEW s, NEW y, NEW u, NEW g, Moves(h, x, s, y, u, g)
  PROVE  g \in Placement /\ Unique(g) /\ Held(g) = Held(h)
<1> DEFINE f == [h EXCEPT ![x] = s]
<1>1. Replaces(h, x, s, f)
  BY DEF Replaces, Moves
<1>2. g = [f EXCEPT ![y] = u] /\ f[y] = h[y]
  BY DEF Moves, Placement
<1> HIDE DEF f
<1>3. /\ f \in Placement /\ Unique(f)
      /\ Held(f) = (Held(h) \ Range(h[x])) \cup Range(s)
  BY <1>1, ReplaceContents
<1>4. Range(h[x]) \subseteq Held(h) /\ Range(h[y]) \subseteq Held(h)
  BY PlacedOf DEF Moves
<1>5. Range(h[x]) \cap Range(h[y]) = {}
  BY DEF Moves, Unique
<1>6. Range(u) \cap (Held(f) \ Range(f[y])) = {}
  BY <1>2, <1>3, <1>4, <1>5 DEF Moves
<1>7. Replaces(f, y, u, g)
  BY <1>2, <1>3, <1>6 DEF Replaces, Moves
<1>8. /\ g \in Placement /\ Unique(g)
      /\ Held(g) = (Held(f) \ Range(f[y])) \cup Range(u)
  BY <1>7, ReplaceContents
<1>9. Held(g) = Held(h)
  BY <1>2, <1>3, <1>4, <1>5, <1>8 DEF Moves
<1> QED  BY <1>8, <1>9

\* The first n jobs of place x go behind those of place y.
Transfer(h, x, y, n) == [h EXCEPT ![x] = Left(h[x], n), ![y] = h[y] \o Taken(h[x], n)]

LEMMA TransferJobs ==
  ASSUME NEW h \in Placement, Unique(h), NEW x \in Places, NEW y \in Places, x # y,
         NEW n \in Nat
  PROVE  /\ Transfer(h, x, y, n) \in Placement /\ Unique(Transfer(h, x, y, n))
         /\ Held(Transfer(h, x, y, n)) = Held(h)
<1> DEFINE s == Left(h[x], n)
           v == Taken(h[x], n)
           u == h[y] \o v
<1>1. h[x] \in Seq(Jobs) /\ h[y] \in Seq(Jobs) /\ IsInjective(h[x]) /\ IsInjective(h[y])
      /\ Range(h[x]) \cap Range(h[y]) = {}
  BY DEF Placement, Unique
<1>2. /\ v \in Seq(Jobs) /\ IsInjective(v) /\ s \in Seq(Jobs) /\ IsInjective(s)
      /\ Range(v) \cup Range(s) = Range(h[x]) /\ Range(v) \cap Range(s) = {}
  BY <1>1, TakenLeft
<1>3. Range(h[y]) \cap Range(v) = {}
  BY <1>1, <1>2
<1> HIDE DEF s, v
<1>4. u \in Seq(Jobs) /\ IsInjective(u) /\ Range(u) = Range(h[y]) \cup Range(v)
  BY <1>1, <1>2, <1>3, Concatenation
<1>5. Transfer(h, x, y, n) = [h EXCEPT ![x] = s, ![y] = u]
  BY DEF Transfer, s, v
<1> HIDE DEF u
<1>6. Moves(h, x, s, y, u, Transfer(h, x, y, n))
  BY <1>1, <1>2, <1>4, <1>5 DEF Moves
<1> QED  BY <1>6, MoveJobs

\* The contents of all places as one function of the queues, caches and bodies.
Resumed(j) == IF j = None THEN <<>> ELSE <<j>>
At(q, c, r) ==
  [x \in Places |-> IF x \in Queues THEN q[x]
                    ELSE IF x[1] = "cache" THEN c[x[2]] ELSE Resumed(r[x[2]])]

LEMMA AtPlaces ==
  ASSUME NEW q, NEW c, NEW r
  PROVE  /\ \A x \in Queues : At(q, c, r)[x] = q[x]
         /\ \A t \in Threads : At(q, c, r)[CacheOf(t)] = c[t]
         /\ \A t \in Threads : At(q, c, r)[BodyOf(t)] = Resumed(r[t])
         /\ \A x \in Places : At(q, c, r)[x] =
              IF x \in Queues THEN q[x]
              ELSE IF x[1] = "cache" THEN c[x[2]] ELSE Resumed(r[x[2]])
BY PlaceNames DEF At

LEMMA ResumedType ==
  ASSUME NEW j \in Jobs \cup {None}
  PROVE  /\ Resumed(j) \in Seq(Jobs) /\ IsInjective(Resumed(j))
         /\ Range(Resumed(j)) = {j} \ {None}
<1>1. CASE j = None
  BY <1>1, EmptyQueue DEF Resumed
<1>2. CASE j # None
  <2>1. j \in Jobs /\ Resumed(j) = <<j>>
    BY <1>2 DEF Resumed
  <2>2. <<j>> \in Seq(Jobs) /\ IsInjective(<<j>>) /\ Range(<<j>>) = {j}
    BY <2>1, Singleton
  <2> QED  BY <1>2, <2>1, <2>2
<1> QED  BY <1>1, <1>2

LEMMA AtPlacement ==
  ASSUME NEW q \in [Queues -> Seq(Jobs)], NEW c \in [Threads -> Seq(Jobs)],
         NEW r \in [Threads -> Jobs \cup {None}]
  PROVE  At(q, c, r) \in Placement
<1> SUFFICES ASSUME NEW x \in Places PROVE At(q, c, r)[x] \in Seq(Jobs)
  BY DEF At, Placement
<1>1. CASE x \in Queues
  BY <1>1, AtPlaces
<1>2. ASSUME NEW t \in Threads, x = CacheOf(t)
      PROVE  At(q, c, r)[x] \in Seq(Jobs)
  BY <1>2, AtPlaces
<1>3. ASSUME NEW t \in Threads, x = BodyOf(t)
      PROVE  At(q, c, r)[x] \in Seq(Jobs)
  <2>1. At(q, c, r)[x] = Resumed(r[t]) /\ r[t] \in Jobs \cup {None}
    BY <1>3, AtPlaces
  <2> QED  BY <2>1, ResumedType
<1> QED  BY <1>1, <1>2, <1>3, PlaceCases

\* A placement is what At says when it agrees with it place by place.
LEMMA AtIs ==
  ASSUME NEW q, NEW c, NEW r, NEW h \in Placement,
         \A x \in Queues : h[x] = q[x],
         \A t \in Threads : h[CacheOf(t)] = c[t],
         \A t \in Threads : h[BodyOf(t)] = Resumed(r[t])
  PROVE  At(q, c, r) = h
<1>1. \A x \in Places : At(q, c, r)[x] = h[x]
  <2> SUFFICES ASSUME NEW x \in Places PROVE At(q, c, r)[x] = h[x]
    OBVIOUS
  <2>1. CASE x \in Queues
    BY <2>1, AtPlaces
  <2>2. ASSUME NEW t \in Threads, x = CacheOf(t) PROVE At(q, c, r)[x] = h[x]
    BY <2>2, AtPlaces
  <2>3. ASSUME NEW t \in Threads, x = BodyOf(t) PROVE At(q, c, r)[x] = h[x]
    BY <2>3, AtPlaces
  <2> QED  BY <2>1, <2>2, <2>3, PlaceCases
<1> QED  BY <1>1 DEF At, Placement

LEMMA AtNext ==
  ASSUME NEW h \in Placement,
         \A x \in Queues : h[x] = queue'[x],
         \A t \in Threads : h[CacheOf(t)] = cache'[t],
         \A t \in Threads : h[BodyOf(t)] = Resumed(running'[t])
  PROVE  At(queue', cache', running') = h
BY AtIs

\* EachJobOnce in terms of the placement.
LEMMA EachJobOnceIs ==
  /\ EachJobOnce <=> /\ Unique(At(queue, cache, running))
                     /\ Held(At(queue, cache, running)) = dispatched \ finished
  /\ EachJobOnce' <=> /\ Unique(At(queue', cache', running'))
                      /\ Held(At(queue', cache', running')) = dispatched' \ finished'
<1>1. \A x \in Places : /\ Contents(x) = At(queue, cache, running)[x]
                        /\ Contents(x)' = At(queue', cache', running')[x]
  <2> SUFFICES ASSUME NEW x \in Places
               PROVE  /\ Contents(x) = At(queue, cache, running)[x]
                      /\ Contents(x)' = At(queue', cache', running')[x]
    OBVIOUS
  <2>1. CASE x \in Queues
    <3>1. x[1] \in {"local", "stealable"}
      BY <2>1, PlaceNames
    <3> QED  BY <2>1, <3>1, AtPlaces DEF Contents
  <2>2. ASSUME NEW t \in Threads, x = CacheOf(t)
        PROVE  /\ Contents(x) = At(queue, cache, running)[x]
               /\ Contents(x)' = At(queue', cache', running')[x]
    BY <2>2, AtPlaces DEF Contents, CacheOf
  <2>3. ASSUME NEW t \in Threads, x = BodyOf(t)
        PROVE  /\ Contents(x) = At(queue, cache, running)[x]
               /\ Contents(x)' = At(queue', cache', running')[x]
    BY <2>3, AtPlaces DEF Contents, BodyOf, Resumed
  <2> QED  BY <2>1, <2>2, <2>3, PlaceCases
<1> QED  BY <1>1 DEF EachJobOnce, Unique, Held

-----------------------------------------------------------------------------
(* What counts have still to take note of, and counts that wrap *)

\* An element for each job that a thread of A has moved, m[t] of them by t.
Rows(A, m) == {e \in Threads \X (1..Cardinality(Jobs)) : e[1] \in A /\ e[2] <= m[e[1]]}

Adders(q) == {t \in Threads : Adding(t, q)}
Removers(q) == {t \in Threads : Removing(t, q)}

LEMMA OwedIsRows ==
  ASSUME NEW q
  PROVE  Owed(q) = Rows(Adders(q), moved) /\ Due(q) = Rows(Removers(q), moved)
BY DEF Owed, Due, Rows, Adders, Removers

LEMMA JobsFinite == IsFiniteSet(Jobs) /\ Cardinality(Jobs) \in Nat
BY QueueNamesAssumption, FS_CardinalityType

LEMMA RowsFinite ==
  ASSUME NEW A, NEW m
  PROVE  IsFiniteSet(Rows(A, m)) /\ Cardinality(Rows(A, m)) \in Nat
<1>1. IsFiniteSet(1..Cardinality(Jobs))
  BY JobsFinite, FS_Interval
<1>2. IsFiniteSet(Threads \X (1..Cardinality(Jobs)))
  BY <1>1, QueueNamesAssumption, FS_Product
<1>3. IsFiniteSet(Rows(A, m))
  BY <1>2, FS_Subset DEF Rows
<1> QED  BY <1>3, FS_CardinalityType

LEMMA RowsSame ==
  ASSUME NEW A, NEW m, NEW n, \A t \in A : m[t] = n[t]
  PROVE  Rows(A, m) = Rows(A, n)
BY DEF Rows

LEMMA RowsEmpty ==
  ASSUME NEW A, NEW m, A = {}
  PROVE  Cardinality(Rows(A, m)) = 0
BY FS_EmptySet DEF Rows

\* One more thread that has moved k jobs.
LEMMA RowsMore ==
  ASSUME NEW A, NEW t \in Threads, t \notin A, NEW k \in 0..Cardinality(Jobs),
         NEW m, NEW n, n[t] = k, \A u \in A : m[u] = n[u]
  PROVE  Cardinality(Rows(A \cup {t}, n)) = Cardinality(Rows(A, m)) + k
<1> DEFINE own == {t} \X (1..k)
<1>1. Rows(A \cup {t}, n) = Rows(A, m) \cup own
  <2>1. \A i \in 1..k : i \in 1..Cardinality(Jobs)
    BY JobsFinite
  <2> QED  BY <2>1, JobsFinite DEF Rows
<1>2. Rows(A, m) \cap own = {}
  BY DEF Rows
<1>3. IsFiniteSet(1..k) /\ Cardinality(1..k) = k
  BY JobsFinite, FS_Interval
<1>4. IsFiniteSet(own) /\ Cardinality(own) = k
  <2>1. IsFiniteSet({t}) /\ Cardinality({t}) = 1
    BY FS_Singleton
  <2>2. IsFiniteSet(own) /\ Cardinality(own) = Cardinality({t}) * Cardinality(1..k)
    BY <2>1, <1>3, FS_Product
  <2> QED  BY <2>1, <2>2, <1>3, JobsFinite
<1> HIDE DEF own
<1>5. /\ IsFiniteSet(Rows(A, m)) /\ Cardinality(Rows(A, m)) \in Nat
      /\ Cardinality(Rows(A, m) \cap own) = 0
  BY <1>2, RowsFinite, FS_EmptySet
<1>6. Cardinality(Rows(A, m) \cup own) =
        Cardinality(Rows(A, m)) + Cardinality(own) - Cardinality(Rows(A, m) \cap own)
  BY <1>4, <1>5, FS_Union
<1>7. k \in Nat
  BY JobsFinite
<1>8. Cardinality(Rows(A, m) \cup own) = Cardinality(Rows(A, m)) + k
  BY <1>4, <1>5, <1>6, <1>7
<1> QED  BY <1>1, <1>8

LEMMA SameRemainder ==
  ASSUME NEW N \in Nat \ {0}, NEW r \in 0..(N - 1), NEW s \in 0..(N - 1),
         NEW a \in Int, NEW b \in Int, N * a + r = N * b + s
  PROVE  r = s
<1>1. CASE a = b
  BY <1>1
<1>2. ASSUME a < b PROVE FALSE
  <2>1. N * (b - a) >= N
    BY <1>2
  <2>2. N * (b - a) = r - s
    OBVIOUS
  <2> QED  BY <2>1, <2>2
<1>3. ASSUME b < a PROVE FALSE
  <2>1. N * (a - b) >= N
    BY <1>3
  <2>2. N * (a - b) = s - r
    OBVIOUS
  <2> QED  BY <2>1, <2>2
<1> QED  BY <1>1, <1>2, <1>3

\* An addition to a count that has wrapped.
LEMMA WrapShift ==
  ASSUME NEW N \in Nat \ {0}, NEW x \in Int, NEW k \in Int
  PROVE  ((x % N) + k) % N = (x + k) % N
<1>1. PICK a \in Int, r \in 0..(N - 1) : x = N * a + r /\ x % N = r
  <2>1. x = N * (x \div N) + (x % N) /\ x \div N \in Int /\ x % N \in 0..(N - 1)
    OBVIOUS
  <2> QED  BY <2>1
<1>2. PICK b \in Int, s \in 0..(N - 1) : r + k = N * b + s /\ (r + k) % N = s
  <2>1. r + k \in Int
    OBVIOUS
  <2>2. /\ r + k = N * ((r + k) \div N) + ((r + k) % N)
        /\ (r + k) \div N \in Int /\ (r + k) % N \in 0..(N - 1)
    BY <2>1
  <2> QED  BY <2>2
<1>3. PICK c \in Int, u \in 0..(N - 1) : x + k = N * c + u /\ (x + k) % N = u
  <2>1. x + k \in Int
    OBVIOUS
  <2>2. /\ x + k = N * ((x + k) \div N) + ((x + k) % N)
        /\ (x + k) \div N \in Int /\ (x + k) % N \in 0..(N - 1)
    BY <2>1
  <2> QED  BY <2>2
<1>4. /\ N * (a + b) = N * a + N * b /\ a + b \in Int
      /\ N * a \in Int /\ N * b \in Int /\ N * c \in Int
  OBVIOUS
<1>5. N * c + u = N * (a + b) + s
  BY <1>1, <1>2, <1>3, <1>4
<1>6. u = s
  BY <1>4, <1>5, SameRemainder
<1> QED  BY <1>1, <1>2, <1>3, <1>6

\* fetch_add and fetch_sub on a count that holds a number of jobs, wrapped.
LEMMA CountMoves ==
  ASSUME NEW x \in Int, NEW k \in Nat
  PROVE  /\ Increased(x % (CountMax + 1), k) = (x + k) % (CountMax + 1)
         /\ Decreased(x % (CountMax + 1), k) = (x - k) % (CountMax + 1)
<1>1. CountMax + 1 \in Nat \ {0}
  BY QueueSizesAssumption
<1>2. ((x % (CountMax + 1)) + k) % (CountMax + 1) = (x + k) % (CountMax + 1)
  BY <1>1, WrapShift
<1>3. ((x % (CountMax + 1)) + (0 - k)) % (CountMax + 1) = (x + (0 - k)) % (CountMax + 1)
  BY <1>1, WrapShift
<1>4. /\ x + (0 - k) = x - k
      /\ (x % (CountMax + 1)) + (0 - k) = (x % (CountMax + 1)) - k
  BY <1>1
<1> QED  BY <1>2, <1>3, <1>4 DEF Increased, Decreased

LEMMA CountType ==
  ASSUME NEW n \in Int, NEW k \in Int
  PROVE  Increased(n, k) \in 0..CountMax /\ Decreased(n, k) \in 0..CountMax
BY QueueSizesAssumption DEF Increased, Decreased

-----------------------------------------------------------------------------
(* The order of the priorities *)

LEMMA LevelFacts ==
  /\ Len(Levels) = 3 /\ DOMAIN Levels = 1..3
  /\ \A i \in 1..3 : Levels[i] \in Priorities
  /\ \A i, k \in 1..3 : Levels[i] = Levels[k] => i = k
  /\ \A p \in Priorities : LevelOf(p) \in 1..3 /\ Levels[LevelOf(p)] = p
  /\ \A i \in 1..3 : LevelOf(Levels[i]) = i
<1>1. /\ Len(Levels) = 3 /\ DOMAIN Levels = 1..3
      /\ Levels[1] = "High" /\ Levels[2] = "Normal" /\ Levels[3] = "Low"
  BY DEF Levels
<1>2. \A i \in 1..3 : i = 1 \/ i = 2 \/ i = 3
  OBVIOUS
<1>3. \A i \in 1..3 : Levels[i] \in Priorities
  BY <1>1, <1>2 DEF Priorities
<1>4. \A i, k \in 1..3 : Levels[i] = Levels[k] => i = k
  BY <1>1, <1>2
<1>5. \A p \in Priorities : \E i \in 1..3 : Levels[i] = p
  BY <1>1 DEF Priorities
<1>6. \A p \in Priorities : LevelOf(p) \in 1..3 /\ Levels[LevelOf(p)] = p
  BY <1>1, <1>5 DEF LevelOf
<1> QED  BY <1>1, <1>3, <1>4, <1>6

LEMMA LeastThree ==
  ASSUME NEW n \in Nat, NEW k \in Nat, NEW l \in Nat, NEW m \in Nat,
         NEW a, NEW b, NEW c,
         a = Least(n, k), b = Least(n - a, l), c = Least(n - a - b, m)
  PROVE  a \in 0..k /\ b \in 0..l /\ c \in 0..m /\ a + b + c \in 0..n
<1>1. a \in 0..k /\ n - a \in Nat
  BY DEF Least
<1>2. b \in 0..l /\ n - a - b \in Nat
  BY <1>1 DEF Least
<1>3. c \in 0..m /\ n - a - b - c \in Nat
  BY <1>1, <1>2 DEF Least
<1> QED  BY <1>1, <1>2, <1>3

LEMMA ConcatThree ==
  ASSUME NEW S, NEW a \in Seq(S), NEW b \in Seq(S), NEW c \in Seq(S)
  PROVE  /\ (a \o b) \o c \in Seq(S)
         /\ Len((a \o b) \o c) = Len(a) + Len(b) + Len(c)
         /\ Range((a \o b) \o c) = Range(a) \cup Range(b) \cup Range(c)
<1>1. /\ a \o b \in Seq(S) /\ Len(a \o b) = Len(a) + Len(b)
      /\ Range(a \o b) = Range(a) \cup Range(b)
  BY ConcatProperties, RangeConcatenation
<1> DEFINE d == a \o b
<1>2. d \in Seq(S)
  BY <1>1
<1> HIDE DEF d
<1>3. /\ d \o c \in Seq(S) /\ Len(d \o c) = Len(d) + Len(c)
      /\ Range(d \o c) = Range(d) \cup Range(c)
  BY <1>2, ConcatProperties, RangeConcatenation
<1> QED  BY <1>1, <1>3 DEF d

\* The number of jobs try_pop_bulk takes from each queue.
LEMMA PopsType ==
  ASSUME queue \in [Queues -> Seq(Jobs)], NEW x \in Contexts, NEW n \in Nat
  PROVE  /\ Pops(x, n)[1] = Least(n, Len(Found(x, 1)))
         /\ Pops(x, n)[2] = Least(n - Pops(x, n)[1], Len(Found(x, 2)))
         /\ Pops(x, n)[3] = Least(n - Pops(x, n)[1] - Pops(x, n)[2], Len(Found(x, 3)))
         /\ \A i \in 1..3 : /\ Found(x, i) \in Seq(Jobs)
                            /\ Pops(x, n)[i] \in 0..Len(Found(x, i))
         /\ Pops(x, n)[1] + Pops(x, n)[2] + Pops(x, n)[3] \in 0..n
<1>1. \A i \in 1..3 : Found(x, i) \in Seq(Jobs)
  BY LevelFacts, PlaceNames DEF Found
<1>2. /\ Pops(x, n)[1] = Least(n, Len(Found(x, 1)))
      /\ Pops(x, n)[2] = Least(n - Pops(x, n)[1], Len(Found(x, 2)))
      /\ Pops(x, n)[3] = Least(n - Pops(x, n)[1] - Pops(x, n)[2], Len(Found(x, 3)))
  BY DEF Pops
<1>3. Len(Found(x, 1)) \in Nat /\ Len(Found(x, 2)) \in Nat /\ Len(Found(x, 3)) \in Nat
  BY <1>1
<1>4. /\ Pops(x, n)[1] \in 0..Len(Found(x, 1)) /\ Pops(x, n)[2] \in 0..Len(Found(x, 2))
      /\ Pops(x, n)[3] \in 0..Len(Found(x, 3))
      /\ Pops(x, n)[1] + Pops(x, n)[2] + Pops(x, n)[3] \in 0..n
  BY <1>2, <1>3, LeastThree
<1>5. \A i \in 1..3 : i = 1 \/ i = 2 \/ i = 3
  OBVIOUS
<1> QED  BY <1>1, <1>2, <1>4, <1>5

LEMMA PopBulkType ==
  ASSUME queue \in [Queues -> Seq(Jobs)], NEW x \in Contexts, NEW n \in Nat
  PROVE  /\ PopBulk(x, n) \in Seq(Jobs)
         /\ Len(PopBulk(x, n)) <= n
         /\ Range(PopBulk(x, n)) \subseteq
              UNION {Range(Taken(Found(x, i), Pops(x, n)[i])) : i \in 1..3}
<1> DEFINE a == Taken(Found(x, 1), Pops(x, n)[1])
           b == Taken(Found(x, 2), Pops(x, n)[2])
           c == Taken(Found(x, 3), Pops(x, n)[3])
<1>1. \A i \in 1..3 : /\ Taken(Found(x, i), Pops(x, n)[i]) \in Seq(Jobs)
                      /\ Len(Taken(Found(x, i), Pops(x, n)[i])) = Pops(x, n)[i]
  <2> SUFFICES ASSUME NEW i \in 1..3
               PROVE  /\ Taken(Found(x, i), Pops(x, n)[i]) \in Seq(Jobs)
                      /\ Len(Taken(Found(x, i), Pops(x, n)[i])) = Pops(x, n)[i]
    OBVIOUS
  <2>1. Found(x, i) \in Seq(Jobs) /\ Pops(x, n)[i] \in 0..Len(Found(x, i))
    BY PopsType
  <2>2. Pops(x, n)[i] \in Nat /\ Least(Pops(x, n)[i], Len(Found(x, i))) = Pops(x, n)[i]
    BY <2>1 DEF Least
  <2> QED  BY <2>1, <2>2, TakenLength
<1>2. /\ a \in Seq(Jobs) /\ Len(a) = Pops(x, n)[1]
      /\ b \in Seq(Jobs) /\ Len(b) = Pops(x, n)[2]
      /\ c \in Seq(Jobs) /\ Len(c) = Pops(x, n)[3]
  BY <1>1
<1>3. PopBulk(x, n) = (a \o b) \o c
  BY DEF PopBulk
<1>4. /\ Range(a) \subseteq UNION {Range(Taken(Found(x, i), Pops(x, n)[i])) : i \in 1..3}
      /\ Range(b) \subseteq UNION {Range(Taken(Found(x, i), Pops(x, n)[i])) : i \in 1..3}
      /\ Range(c) \subseteq UNION {Range(Taken(Found(x, i), Pops(x, n)[i])) : i \in 1..3}
  OBVIOUS
<1> HIDE DEF a, b, c
<1>5. /\ (a \o b) \o c \in Seq(Jobs)
      /\ Len((a \o b) \o c) = Len(a) + Len(b) + Len(c)
      /\ Range((a \o b) \o c) = Range(a) \cup Range(b) \cup Range(c)
  <2>1. \A u, v, w \in Seq(Jobs) :
          /\ (u \o v) \o w \in Seq(Jobs)
          /\ Len((u \o v) \o w) = Len(u) + Len(v) + Len(w)
          /\ Range((u \o v) \o w) = Range(u) \cup Range(v) \cup Range(w)
    BY ConcatThree
  <2>2. a \in Seq(Jobs) /\ b \in Seq(Jobs) /\ c \in Seq(Jobs)
    BY <1>2
  <2> QED  BY <2>1, <2>2
<1>6. Pops(x, n)[1] + Pops(x, n)[2] + Pops(x, n)[3] \in 0..n
  BY PopsType
<1>7. Len(a) + Len(b) + Len(c) \in 0..n
  BY <1>2, <1>6
<1>8. Len(PopBulk(x, n)) <= n
  BY <1>3, <1>5, <1>7
<1>9. PopBulk(x, n) \in Seq(Jobs)
  BY <1>3, <1>5
<1>10. Range(PopBulk(x, n)) \subseteq
         UNION {Range(Taken(Found(x, i), Pops(x, n)[i])) : i \in 1..3}
  BY <1>3, <1>4, <1>5
<1> QED  BY <1>8, <1>9, <1>10

-----------------------------------------------------------------------------
(* The inductive invariant *)

\* A queue holds the jobs of its priority.
Sorted == \A q \in Queues : \A j \in Range(queue[q]) : Urgency[j] = q[3]

\* What the place a thread has reached says about the rest of its state: in the
\* middle of a theft it has a victim, only a worker migrates, a refill begins with an
\* empty cache, no body is resumed inside of another, and what a thief has still to
\* subtract is in its cache.
ThreadInv(t) ==
  /\ pc[t] \in {"gate", "steal", "count_stolen"} => victim[t] \in Workers
  /\ pc[t] \in {"migrate", "publish"} => t \in Workers
  /\ pc[t] \in {"migrate", "publish", "pop", "pick"} => cache[t] = <<>>
  /\ pc[t] \notin {"body", "count_submitted"} => running[t] = None
  /\ pc[t] = "count_stolen" => moved[t] <= Len(cache[t])

ControlInv == finished \subseteq dispatched /\ \A t \in Threads : ThreadInv(t)

IInv == TypeOK /\ EachJobOnce /\ Sorted /\ ControlInv /\ CountsExact

LEMMA PlacementInv ==
  ASSUME TypeOK, EachJobOnce
  PROVE  /\ At(queue, cache, running) \in Placement
         /\ Unique(At(queue, cache, running))
         /\ Held(At(queue, cache, running)) = dispatched \ finished
BY AtPlacement, EachJobOnceIs DEF TypeOK

\* No queue is longer than there are jobs.
LEMMA QueueLength ==
  ASSUME TypeOK, EachJobOnce, NEW q \in Queues
  PROVE  /\ queue[q] \in Seq(Jobs) /\ IsInjective(queue[q])
         /\ Len(queue[q]) \in 0..Cardinality(Jobs)
         /\ \A n \in Nat : /\ Taken(queue[q], n) \in Seq(Jobs)
                           /\ Len(Taken(queue[q], n)) \in 0..Cardinality(Jobs)
                           /\ Len(Taken(queue[q], n)) <= n
<1>1. queue[q] \in Seq(Jobs)
  BY DEF TypeOK
<1>2. IsInjective(queue[q])
  BY PlacementInv, AtPlaces, PlaceNames DEF Unique
<1>3. IsFiniteSet(Range(queue[q])) /\ Cardinality(Range(queue[q])) = Len(queue[q])
  BY <1>1, <1>2, DistinctLength
<1>4. Range(queue[q]) \subseteq Jobs
  BY <1>1, RangeOfSeq
<1>5. Cardinality(Range(queue[q])) <= Cardinality(Jobs)
  BY <1>4, QueueNamesAssumption, FS_Subset
<1>6. Len(queue[q]) \in 0..Cardinality(Jobs)
  BY <1>1, <1>3, <1>5, JobsFinite
<1>7. ASSUME NEW n \in Nat
      PROVE  /\ Taken(queue[q], n) \in Seq(Jobs)
             /\ Len(Taken(queue[q], n)) \in 0..Cardinality(Jobs)
             /\ Len(Taken(queue[q], n)) <= n
  <2>1. /\ Taken(queue[q], n) \in Seq(Jobs)
        /\ Len(Taken(queue[q], n)) \in 0..n /\ Len(Taken(queue[q], n)) \in 0..Len(queue[q])
    BY <1>1, TakenLength
  <2> QED  BY <2>1, <1>6, JobsFinite
<1> QED  BY <1>1, <1>2, <1>6, <1>7

\* What a body dispatches in one call: distinct jobs of one priority.
LEMMA BatchType ==
  ASSUME TypeOK, NEW t \in Threads, NEW batch \in Batches(Pending(t))
  PROVE  /\ batch \in Seq(Jobs) /\ IsInjective(batch) /\ batch # <<>>
         /\ Len(batch) \in 1..Cardinality(Jobs)
         /\ Range(batch) \subseteq Jobs \ dispatched
         /\ Urgency[batch[1]] \in Priorities
         /\ \A j \in Range(batch) : Urgency[j] = Urgency[batch[1]]
<1>1. Pending(t) \subseteq Jobs \ dispatched
  BY DEF Pending
<1>2. PICK n \in 1..Cardinality(Pending(t)) : batch \in [1..n -> Pending(t)]
  BY DEF Batches
<1>3. IsFiniteSet(Pending(t)) /\ Cardinality(Pending(t)) <= Cardinality(Jobs)
      /\ Cardinality(Pending(t)) \in Nat
  <2>1. Pending(t) \in SUBSET Jobs
    BY <1>1
  <2> QED  BY <2>1, QueueNamesAssumption, FS_Subset, FS_CardinalityType
<1>4. n \in 1..Cardinality(Jobs) /\ n \in Nat
  BY <1>2, <1>3, JobsFinite
<1>5. batch \in Seq(Jobs) /\ Len(batch) = n /\ DOMAIN batch = 1..n /\ batch # <<>>
  <2>1. batch \in [1..n -> Jobs]
    BY <1>1, <1>2
  <2> QED  BY <2>1, <1>4
<1>6. batch[1] \in Jobs
  BY <1>1, <1>2, <1>4
<1>7. Urgency[batch[1]] \in Priorities
  BY <1>6, QueueNamesAssumption
<1>8. \A j \in Range(batch) : Urgency[j] = Urgency[batch[1]]
  BY DEF Batches, Range
<1>9. Range(batch) \subseteq Jobs \ dispatched
  BY <1>1, <1>2 DEF Range
<1>10. IsInjective(batch)
  BY DEF Batches
<1> QED  BY <1>4, <1>5, <1>7, <1>8, <1>9, <1>10

\* The queues a thread accesses in the middle of an iteration.
LEMMA AccessedQueues ==
  ASSUME TypeOK, ControlInv, NEW t \in Threads
  PROVE  /\ level[t] \in 1..3 /\ Levels[level[t]] \in Priorities
         /\ Ctx(t) \in Contexts
         /\ Local(Global, Levels[level[t]]) \in Queues
         /\ t \in Workers => /\ Local(t, Levels[level[t]]) \in Queues
                             /\ Stealable(t, Levels[level[t]]) \in Queues
         /\ victim[t] \in Workers => Stealable(victim[t], Levels[level[t]]) \in Queues
<1>1. level[t] \in 1..3 /\ Levels[level[t]] \in Priorities
  BY LevelFacts DEF TypeOK
<1>2. Ctx(t) \in Contexts /\ Global \in Contexts /\ Workers \subseteq Contexts
  BY DEF Ctx, Contexts
<1> QED  BY <1>1, <1>2, PlaceNames

PCs == {"body", "count_submitted", "iterate", "migrate", "publish", "pop",
        "pick", "gate", "steal", "count_stolen", "global", "count_global"}

LEMMA NextLevelType ==
  ASSUME TypeOK, NEW t \in Threads, NEW again \in PCs, NEW past \in PCs,
         NextLevel(t, again, past)
  PROVE  /\ pc' \in [Threads -> PCs] /\ level' \in [Threads -> 1..Len(Levels)]
         /\ pc'[t] \in {again, past}
         /\ \A u \in Threads \ {t} : pc'[u] = pc[u] /\ level'[u] = level[u]
<1>1. level[t] \in 1..3 /\ Len(Levels) = 3 /\ pc \in [Threads -> PCs]
      /\ level \in [Threads -> 1..3]
  BY LevelFacts DEF TypeOK, PCs
<1>2. CASE level[t] < 3
  <2>1. pc' = [pc EXCEPT ![t] = again] /\ level' = [level EXCEPT ![t] = level[t] + 1]
    BY <1>1, <1>2 DEF NextLevel
  <2>2. level[t] + 1 \in 1..3
    BY <1>1, <1>2
  <2> QED  BY <1>1, <2>1, <2>2
<1>3. CASE ~(level[t] < 3)
  <2>1. pc' = [pc EXCEPT ![t] = past] /\ level' = [level EXCEPT ![t] = 1]
    BY <1>1, <1>3 DEF NextLevel
  <2> QED  BY <1>1, <2>1
<1> QED  BY <1>2, <1>3

LEMMA LoopType ==
  /\ \A t : Loop(t) \in PCs /\ Stolen(t) \in PCs
  /\ \A t \in Threads : Loop(t) \in {"iterate", "body"}
BY DEF Loop, Stolen, PCs

LEMMA TypeInit ==
  ASSUME Init
  PROVE  TypeOK
<1>1. <<>> \in Seq(Jobs) /\ Len(<<>>) = 0
  OBVIOUS
<1>2. 0 \in 0..CountMax /\ 0 \in 0..Cardinality(Jobs) /\ 0 <= CacheSize
  BY QueueSizesAssumption, JobsFinite
<1>3. 1 \in 1..Len(Levels)
  BY LevelFacts
<1> QED  BY <1>1, <1>2, <1>3, LoopType DEF Init, TypeOK, PCs

LEMMA TypeStep ==
  ASSUME TypeOK, EachJobOnce, ControlInv, NEW t \in Threads, Step(t)
  PROVE  TypeOK'
<1>1. /\ queue \in [Queues -> Seq(Jobs)] /\ count \in [Queues -> 0..CountMax]
      /\ cache \in [Threads -> Seq(Jobs)] /\ \A u \in Threads : Len(cache[u]) <= CacheSize
      /\ dispatched \in SUBSET Jobs /\ finished \in SUBSET Jobs
      /\ running \in [Threads -> Jobs \cup {None}]
      /\ pc \in [Threads -> PCs] /\ level \in [Threads -> 1..Len(Levels)]
      /\ victim \in [Threads -> Workers \cup {None}]
      /\ moved \in [Threads -> 0..Cardinality(Jobs)]
  BY DEF TypeOK, PCs
<1>2. 0 \in 0..Cardinality(Jobs) /\ 1 \in 1..Len(Levels) /\ Len(Levels) = 3
  BY LevelFacts, JobsFinite
<1>3. \A q \in Queues, k \in Int :
        Increased(count[q], k) \in 0..CountMax /\ Decreased(count[q], k) \in 0..CountMax
  <2> TAKE q \in Queues, k \in Int
  <2>1. count[q] \in Int
    BY <1>1, QueueSizesAssumption
  <2> QED  BY <2>1, CountType
<1>4. \A q \in Queues : \A n \in Nat :
        /\ Taken(queue[q], n) \in Seq(Jobs) /\ Left(queue[q], n) \in Seq(Jobs)
        /\ Len(Taken(queue[q], n)) \in 0..Cardinality(Jobs) /\ Len(Taken(queue[q], n)) \in 0..n
  <2> SUFFICES ASSUME NEW q \in Queues, NEW n \in Nat
               PROVE  /\ Taken(queue[q], n) \in Seq(Jobs) /\ Left(queue[q], n) \in Seq(Jobs)
                      /\ Len(Taken(queue[q], n)) \in 0..Cardinality(Jobs)
                      /\ Len(Taken(queue[q], n)) \in 0..n
    OBVIOUS
  <2>1. Taken(queue[q], n) \in Seq(Jobs) /\ Len(Taken(queue[q], n)) \in 0..Cardinality(Jobs)
        /\ Len(Taken(queue[q], n)) <= n
    BY QueueLength
  <2>2. queue[q] \in Seq(Jobs) /\ Left(queue[q], n) \in Seq(Jobs)
    BY <1>1, TakenLength
  <2> QED  BY <2>1, <2>2, JobsFinite
<1>5. moved[t] \in Int /\ moved[t] \in Nat
  BY <1>1, JobsFinite
<1>6. CacheSize - Len(cache[t]) \in Nat /\ Len(cache[t]) \in Nat /\ CacheSize \in Nat
  BY <1>1, QueueSizesAssumption
\* The jobs of a bulk access fit into the cache.
<1>7. ASSUME NEW q \in Queues
      PROVE  LET jobs == Taken(queue[q], CacheSize - Len(cache[t]))
             IN  /\ cache[t] \o jobs \in Seq(Jobs) /\ Len(cache[t] \o jobs) <= CacheSize
                 /\ Len(jobs) \in 0..Cardinality(Jobs) /\ Left(queue[q], Len(jobs)) \in Seq(Jobs)
  <2> DEFINE jobs == Taken(queue[q], CacheSize - Len(cache[t]))
  <2>1. jobs \in Seq(Jobs) /\ Len(jobs) \in 0..(CacheSize - Len(cache[t]))
        /\ Len(jobs) \in 0..Cardinality(Jobs)
    BY <1>4, <1>6
  <2> HIDE DEF jobs
  <2>2. cache[t] \in Seq(Jobs)
    BY <1>1
  <2>3. cache[t] \o jobs \in Seq(Jobs) /\ Len(cache[t] \o jobs) = Len(cache[t]) + Len(jobs)
    BY <2>1, <2>2
  <2>4. Len(cache[t] \o jobs) <= CacheSize
    BY <2>1, <2>3, <1>6
  <2>5. Len(jobs) \in Nat
    BY <2>1
  <2>6. Left(queue[q], Len(jobs)) \in Seq(Jobs)
    BY <2>5, <1>4
  <2> QED  BY <2>1, <2>3, <2>4, <2>6 DEF jobs
<1>8. /\ \A q \in Contexts, p \in Priorities : Local(q, p) \in Queues
      /\ Levels[level[t]] \in Priorities
      /\ Local(Global, Levels[level[t]]) \in Queues
      /\ t \in Workers => /\ Local(t, Levels[level[t]]) \in Queues
                          /\ Stealable(t, Levels[level[t]]) \in Queues
      /\ victim[t] \in Workers => Stealable(victim[t], Levels[level[t]]) \in Queues
      /\ Ctx(t) \in Contexts
  BY PlaceNames, AccessedQueues
<1>9. CASE Submit(t)
  <2>1. PICK batch \in Batches(Pending(t)) :
          LET q == Local(Ctx(t), Urgency[batch[1]])
          IN  /\ queue' = [queue EXCEPT ![q] = @ \o batch]
              /\ dispatched' = dispatched \cup Range(batch)
              /\ IF t \in Workers
                   THEN /\ count' = [count EXCEPT ![q] = Increased(@, Len(batch))]
                        /\ UNCHANGED <<pc, level, moved>>
                   ELSE /\ pc' = [pc EXCEPT ![t] = "count_submitted"]
                        /\ level' = [level EXCEPT ![t] = LevelOf(Urgency[batch[1]])]
                        /\ moved' = [moved EXCEPT ![t] = Len(batch)]
                        /\ UNCHANGED count
    BY <1>9 DEF Submit
  <2> DEFINE q == Local(Ctx(t), Urgency[batch[1]])
  <2>2. /\ batch \in Seq(Jobs) /\ Len(batch) \in 1..Cardinality(Jobs)
        /\ Range(batch) \subseteq Jobs /\ Urgency[batch[1]] \in Priorities
    BY BatchType
  <2>3. q \in Queues /\ LevelOf(Urgency[batch[1]]) \in 1..3
    BY <2>2, <1>8, LevelFacts
  <2>4. Len(batch) \in 0..Cardinality(Jobs) /\ Len(batch) \in Int
    BY <2>2, JobsFinite
  <2> HIDE DEF q
  <2>5. queue' \in [Queues -> Seq(Jobs)]
    <3>1. queue' = [queue EXCEPT ![q] = queue[q] \o batch]
      BY <2>1 DEF q
    <3>2. queue[q] \in Seq(Jobs)
      BY <1>1, <2>3
    <3>3. queue[q] \o batch \in Seq(Jobs)
      BY <2>2, <3>2
    <3> QED  BY <1>1, <3>1, <3>3
  <2>6. dispatched' \in SUBSET Jobs
    BY <2>1, <2>2, <1>1
  <2>7. /\ count' \in [Queues -> 0..CountMax] /\ pc' \in [Threads -> PCs]
        /\ level' \in [Threads -> 1..Len(Levels)] /\ moved' \in [Threads -> 0..Cardinality(Jobs)]
    <3>1. CASE t \in Workers
      <4>1. count' = [count EXCEPT ![q] = Increased(count[q], Len(batch))]
            /\ UNCHANGED <<pc, level, moved>>
        BY <3>1, <2>1 DEF q
      <4>2. Increased(count[q], Len(batch)) \in 0..CountMax
        BY <1>3, <2>3, <2>4
      <4> QED  BY <4>1, <4>2, <1>1
    <3>2. CASE t \notin Workers
      BY <3>2, <2>1, <2>3, <2>4, <1>1, <1>2 DEF PCs
    <3> QED  BY <3>1, <3>2
  <2>8. UNCHANGED <<cache, finished, running, victim>>
    BY <1>9 DEF Submit
  <2> QED  BY <2>5, <2>6, <2>7, <2>8, <1>1 DEF TypeOK, PCs
<1>10. CASE CountSubmitted(t)
  <2>1. count' = [count EXCEPT ![Local(Global, Levels[level[t]])]
                                 = Increased(count[Local(Global, Levels[level[t]])], moved[t])]
    BY <1>10 DEF CountSubmitted
  <2>2. count' \in [Queues -> 0..CountMax]
    BY <2>1, <1>1, <1>3, <1>5, <1>8
  <2> QED  BY <1>10, <2>2, <1>1, <1>2 DEF CountSubmitted, TypeOK, PCs
<1>11. CASE Pump(t)
  BY <1>11, <1>1 DEF Pump, TypeOK, PCs
<1>12. CASE Execute(t)
  <2>1. /\ cache[t] \in Seq(Jobs) /\ cache[t] # <<>>
        /\ running' = [running EXCEPT ![t] = Last(cache[t])]
        /\ cache' = [cache EXCEPT ![t] = Front(cache[t])]
    BY <1>12, <1>1 DEF Execute
  <2>2. Len(cache[t]) \in Nat \ {0} /\ Len(cache[t]) <= CacheSize
    BY <2>1, <1>1, EmptySeq
  <2>3. Last(cache[t]) \in Jobs
    BY <2>1, <2>2 DEF Last
  <2>4. Front(cache[t]) \in Seq(Jobs) /\ Len(Front(cache[t])) <= CacheSize
    BY <2>1, <2>2, <1>6 DEF Front
  <2> QED  BY <1>12, <2>1, <2>3, <2>4, <1>1 DEF Execute, TypeOK, PCs
<1>13. CASE EndBody(t)
  <2>1. running[t] \in Jobs
    BY <1>13, <1>1 DEF EndBody
  <2> QED  BY <1>13, <2>1, <1>1, LoopType DEF EndBody, TypeOK, PCs
<1>14. CASE BeginMigration(t)
  BY <1>14, <1>1 DEF BeginMigration, TypeOK, PCs
<1>15. CASE Migrate(t)
  <2> DEFINE from == Local(t, Levels[level[t]])
             to == Stealable(t, Levels[level[t]])
             jobs == Taken(queue[from], MoveCount)
  <2>1. t \in Workers /\ from \in Queues /\ to \in Queues /\ from # to
    <3>1. pc[t] = "migrate"
      BY <1>15 DEF Migrate
    <3>2. t \in Workers
      BY <3>1 DEF ControlInv, ThreadInv
    <3> QED  BY <3>2, <1>8, PlaceNames
  <2>2. /\ jobs \in Seq(Jobs) /\ Left(queue[from], MoveCount) \in Seq(Jobs)
        /\ Len(jobs) \in 0..Cardinality(Jobs) /\ Len(jobs) \in Int
    <3>1. MoveCount \in Nat /\ from \in Queues
      BY <2>1, QueueSizesAssumption
    <3>2. jobs \in Seq(Jobs) /\ Len(jobs) \in 0..Cardinality(Jobs)
      BY <1>4, <3>1
    <3>3. Left(queue[from], MoveCount) \in Seq(Jobs)
      BY <1>4, <3>1
    <3> HIDE DEF jobs
    <3> QED  BY <3>2, <3>3
  <2>3. CASE count[from] > Threshold /\ jobs # <<>>
    <3>1. /\ queue' = [queue EXCEPT ![from] = Left(@, MoveCount), ![to] = @ \o jobs]
          /\ count' = [count EXCEPT ![from] = Decreased(@, Len(jobs))]
          /\ moved' = [moved EXCEPT ![t] = Len(jobs)]
          /\ pc' = [pc EXCEPT ![t] = "publish"]
          /\ UNCHANGED <<level, cache, dispatched, finished, running, victim>>
      BY <1>15, <2>3 DEF Migrate
    <3> HIDE DEF from, to, jobs
    <3>2. queue[to] \o jobs \in Seq(Jobs)
      <4>1. queue[to] \in Seq(Jobs)
        BY <1>1, <2>1
      <4> QED  BY <4>1, <2>2
    <3>3. queue' \in [Queues -> Seq(Jobs)]
      BY <3>1, <3>2, <2>1, <2>2, <1>1
    <3>4. count' \in [Queues -> 0..CountMax]
      BY <3>1, <2>1, <2>2, <1>1, <1>3
    <3> QED  BY <3>1, <3>3, <3>4, <2>2, <1>1 DEF TypeOK, PCs
  <2>4. CASE ~(count[from] > Threshold /\ jobs # <<>>)
    <3>1. NextLevel(t, "migrate", "pop")
          /\ UNCHANGED <<queue, count, moved, cache, dispatched, finished, running, victim>>
      BY <1>15, <2>4 DEF Migrate
    <3>2. pc' \in [Threads -> PCs] /\ level' \in [Threads -> 1..Len(Levels)]
      <4>1. "migrate" \in PCs /\ "pop" \in PCs
        BY DEF PCs
      <4> QED  BY <3>1, <4>1, NextLevelType
    <3> QED  BY <3>1, <3>2, <1>1 DEF TypeOK, PCs
  <2> QED  BY <2>3, <2>4
<1>16. CASE Publish(t)
  <2>1. t \in Workers /\ Stealable(t, Levels[level[t]]) \in Queues
    BY <1>16, <1>8 DEF Publish, ControlInv, ThreadInv
  <2>2. count' \in [Queues -> 0..CountMax]
    BY <1>16, <2>1, <1>1, <1>3, <1>5 DEF Publish
  <2>3. pc' \in [Threads -> PCs] /\ level' \in [Threads -> 1..Len(Levels)]
    <3>1. "migrate" \in PCs /\ "pop" \in PCs
      BY DEF PCs
    <3> QED  BY <1>16, <3>1, NextLevelType DEF Publish
  <2> QED  BY <1>16, <2>2, <2>3, <1>1, <1>2 DEF Publish, TypeOK, PCs
<1>17. CASE PopLocal(t)
  <2>1. t \in Workers /\ t \in Contexts /\ CacheSize \in Nat
    BY <1>17, <1>6 DEF PopLocal, Contexts
  <2>2. PopBulk(t, CacheSize) \in Seq(Jobs) /\ Len(PopBulk(t, CacheSize)) <= CacheSize
    BY <2>1, <1>1, PopBulkType
  <2>3. \A p \in Priorities : Popped(t, CacheSize, p) \in Nat
    <3>1. \A i \in 1..3 : Pops(t, CacheSize)[i] \in Nat
      <4> TAKE i \in 1..3
      <4>1. Found(t, i) \in Seq(Jobs) /\ Pops(t, CacheSize)[i] \in 0..Len(Found(t, i))
        BY <2>1, <1>1, PopsType
      <4> QED  BY <4>1
    <3> QED  BY <3>1, LevelFacts DEF Popped
  <2>4. queue' \in [Queues -> Seq(Jobs)]
    <3>1. \A q \in Queues : Left(queue[q], Popped(t, CacheSize, q[3])) \in Seq(Jobs)
      BY <2>3, <1>4, PlaceNames
    <3> QED  BY <1>17, <3>1, <1>1 DEF PopLocal
  <2>5. count' \in [Queues -> 0..CountMax]
    <3>1. \A q \in Queues : Decreased(count[q], Popped(t, CacheSize, q[3])) \in 0..CountMax
      <4> TAKE q \in Queues
      <4>1. Popped(t, CacheSize, q[3]) \in Int
        BY <2>3, PlaceNames
      <4> QED  BY <4>1, <1>3
    <3> QED  BY <1>17, <3>1, <1>1 DEF PopLocal
  <2>6. cache' \in [Threads -> Seq(Jobs)] /\ \A u \in Threads : Len(cache'[u]) <= CacheSize
    BY <1>17, <2>2, <1>1 DEF PopLocal
  <2> QED  BY <1>17, <2>4, <2>5, <2>6, <1>1 DEF PopLocal, TypeOK, PCs
<1>18. CASE PickVictim(t)
  BY <1>18, <1>1 DEF PickVictim, TypeOK, PCs
<1>19. ASSUME NextSteal(t)
       PROVE  /\ pc' \in [Threads -> PCs] /\ level' \in [Threads -> 1..Len(Levels)]
              /\ victim' \in [Threads -> Workers \cup {None}]
  <2>1. "gate" \in PCs
    BY DEF PCs
  <2>2. NextLevel(t, "gate", Stolen(t))
    BY <1>19 DEF NextSteal
  <2>3. pc' \in [Threads -> PCs] /\ level' \in [Threads -> 1..Len(Levels)]
    BY <2>1, <2>2, LoopType, NextLevelType
  <2> QED  BY <1>19, <2>3, <1>1 DEF NextSteal
<1>20. CASE Gate(t)
  <2>1. CASE count[Stealable(victim[t], Levels[level[t]])] > 0
    BY <1>20, <2>1, <1>1 DEF Gate, TypeOK, PCs
  <2>2. CASE ~(count[Stealable(victim[t], Levels[level[t]])] > 0)
    BY <1>20, <2>2, <1>1, <1>19 DEF Gate, TypeOK, PCs
  <2> QED  BY <2>1, <2>2
<1>21. CASE Steal(t)
  <2> DEFINE q == Stealable(victim[t], Levels[level[t]])
             jobs == Taken(queue[q], CacheSize - Len(cache[t]))
  <2>1. q \in Queues
    BY <1>21, <1>8 DEF Steal, ControlInv, ThreadInv
  <2>2. CASE jobs # <<>>
    <3>1. /\ queue' = [queue EXCEPT ![q] = Left(@, Len(jobs))]
          /\ cache' = [cache EXCEPT ![t] = @ \o jobs]
          /\ moved' = [moved EXCEPT ![t] = Len(jobs)]
          /\ pc' = [pc EXCEPT ![t] = "count_stolen"]
          /\ UNCHANGED <<level, victim, count, dispatched, finished, running>>
      BY <1>21, <2>2 DEF Steal
    <3>2. /\ cache[t] \o jobs \in Seq(Jobs) /\ Len(cache[t] \o jobs) <= CacheSize
          /\ Len(jobs) \in 0..Cardinality(Jobs) /\ Left(queue[q], Len(jobs)) \in Seq(Jobs)
      BY <2>1, <1>7
    <3> HIDE DEF q, jobs
    <3> QED  BY <3>1, <3>2, <2>1, <1>1 DEF TypeOK, PCs
  <2>3. CASE ~(jobs # <<>>)
    <3>1. NextSteal(t)
          /\ UNCHANGED <<queue, cache, moved, count, dispatched, finished, running>>
      BY <1>21, <2>3 DEF Steal
    <3> QED  BY <3>1, <1>1, <1>19 DEF TypeOK, PCs
  <2> QED  BY <2>2, <2>3
<1>22. CASE CountStolen(t)
  <2>1. Stealable(victim[t], Levels[level[t]]) \in Queues
    BY <1>22, <1>8 DEF CountStolen, ControlInv, ThreadInv
  <2>2. count' \in [Queues -> 0..CountMax]
    BY <1>22, <2>1, <1>1, <1>3, <1>5 DEF CountStolen
  <2>3. /\ pc' \in [Threads -> PCs] /\ level' \in [Threads -> 1..Len(Levels)]
        /\ victim' \in [Threads -> Workers \cup {None}]
    <3>1. CASE moved[t] >= CacheSize
      <4>1. Loop(t) \in PCs
        BY LoopType
      <4> QED  BY <1>22, <3>1, <4>1, <1>1, <1>2 DEF CountStolen
    <3>2. CASE ~(moved[t] >= CacheSize)
      BY <1>22, <3>2, <1>19 DEF CountStolen
    <3> QED  BY <3>1, <3>2
  <2> QED  BY <1>22, <2>2, <2>3, <1>1, <1>2 DEF CountStolen, TypeOK, PCs
<1>23. CASE PopGlobal(t)
  <2> DEFINE q == Local(Global, Levels[level[t]])
             jobs == Taken(queue[q], CacheSize - Len(cache[t]))
  <2>1. q \in Queues
    BY <1>8
  <2>2. /\ queue' = [queue EXCEPT ![q] = Left(@, Len(jobs))]
        /\ cache' = [cache EXCEPT ![t] = @ \o jobs]
        /\ moved' = [moved EXCEPT ![t] = Len(jobs)]
        /\ pc' = [pc EXCEPT ![t] = "count_global"]
        /\ UNCHANGED <<count, dispatched, finished, running, level, victim>>
    BY <1>23 DEF PopGlobal
  <2>3. /\ cache[t] \o jobs \in Seq(Jobs) /\ Len(cache[t] \o jobs) <= CacheSize
        /\ Len(jobs) \in 0..Cardinality(Jobs) /\ Left(queue[q], Len(jobs)) \in Seq(Jobs)
    BY <2>1, <1>7
  <2> HIDE DEF q, jobs
  <2> QED  BY <2>1, <2>2, <2>3, <1>1 DEF TypeOK, PCs
<1>24. CASE CountGlobal(t)
  <2>1. count' = [count EXCEPT ![Local(Global, Levels[level[t]])]
                                 = Decreased(count[Local(Global, Levels[level[t]])], moved[t])]
    BY <1>24 DEF CountGlobal
  <2>2. count' \in [Queues -> 0..CountMax]
    BY <2>1, <1>1, <1>3, <1>5, <1>8
  <2>3. pc' \in [Threads -> PCs] /\ level' \in [Threads -> 1..Len(Levels)]
    <3>1. CASE Len(cache[t]) = CacheSize
      <4>1. Loop(t) \in PCs
        BY LoopType
      <4> QED  BY <1>24, <3>1, <4>1, <1>1, <1>2 DEF CountGlobal
    <3>2. CASE Len(cache[t]) # CacheSize
      <4>1. NextLevel(t, "global", Loop(t)) /\ "global" \in PCs
        BY <1>24, <3>2 DEF CountGlobal, PCs
      <4> QED  BY <4>1, LoopType, NextLevelType
    <3> QED  BY <3>1, <3>2
  <2> QED  BY <1>24, <2>2, <2>3, <1>1, <1>2 DEF CountGlobal, TypeOK, PCs
<1> QED  BY <1>9, <1>10, <1>11, <1>12, <1>13, <1>14, <1>15, <1>16, <1>17, <1>18, <1>20,
            <1>21, <1>22, <1>23, <1>24 DEF Step

-----------------------------------------------------------------------------
(* Each job in one place *)

\* A step that gives or takes no job away keeps EachJobOnce.
LEMMA HeldSame ==
  ASSUME TypeOK, EachJobOnce,
         Unique(At(queue', cache', running')),
         Held(At(queue', cache', running')) = Held(At(queue, cache, running)),
         UNCHANGED <<dispatched, finished>>
  PROVE  EachJobOnce'
BY PlacementInv, EachJobOnceIs

\* The bulk accesses of a thief and of the global queue.
LEMMA BulkKeeps ==
  ASSUME TypeOK, EachJobOnce, NEW t \in Threads, NEW q \in Queues, NEW n \in Nat,
         queue' = [queue EXCEPT ![q] = Left(@, n)],
         cache' = [cache EXCEPT ![t] = @ \o Taken(queue[q], n)],
         UNCHANGED <<running, dispatched, finished>>
  PROVE  EachJobOnce'
<1> DEFINE h == At(queue, cache, running)
           g == Transfer(h, q, CacheOf(t), n)
<1>1. h \in Placement /\ Unique(h)
  BY PlacementInv
<1>2. q \in Places /\ CacheOf(t) \in Places /\ q # CacheOf(t)
  BY PlaceNames
<1>3. /\ \A x \in Queues : h[x] = queue[x]
      /\ \A u \in Threads : h[CacheOf(u)] = cache[u]
      /\ \A u \in Threads : h[BodyOf(u)] = Resumed(running[u])
  BY AtPlaces
<1> HIDE DEF h
<1>4. g \in Placement /\ Unique(g) /\ Held(g) = Held(h)
  BY <1>1, <1>2, TransferJobs
<1>5. g = [h EXCEPT ![q] = Left(queue[q], n), ![CacheOf(t)] = cache[t] \o Taken(queue[q], n)]
  BY <1>3 DEF Transfer
<1>6. /\ g[q] = Left(queue[q], n) /\ g[CacheOf(t)] = cache[t] \o Taken(queue[q], n)
      /\ \A x \in Places \ {q, CacheOf(t)} : g[x] = h[x]
  BY <1>1, <1>2, <1>5 DEF Placement
<1> HIDE DEF g
<1>7. \A x \in Queues : g[x] = queue'[x]
  <2> TAKE x \in Queues
  <2>1. x \in Places /\ x # CacheOf(t) /\ h[x] = queue[x]
    BY <1>3, PlaceNames
  <2>2. queue'[x] = IF x = q THEN Left(queue[q], n) ELSE queue[x]
    BY DEF TypeOK
  <2> QED  BY <2>1, <2>2, <1>6
<1>8. \A u \in Threads : g[CacheOf(u)] = cache'[u]
  <2> TAKE u \in Threads
  <2>1. CacheOf(u) \in Places /\ CacheOf(u) # q /\ h[CacheOf(u)] = cache[u]
        /\ (CacheOf(u) = CacheOf(t) => u = t)
    BY <1>3, PlaceNames
  <2>2. cache'[u] = IF u = t THEN cache[t] \o Taken(queue[q], n) ELSE cache[u]
    BY DEF TypeOK
  <2> QED  BY <2>1, <2>2, <1>6
<1>9. \A u \in Threads : g[BodyOf(u)] = Resumed(running'[u])
  <2> TAKE u \in Threads
  <2>1. BodyOf(u) \in Places /\ BodyOf(u) # q /\ BodyOf(u) # CacheOf(t)
        /\ h[BodyOf(u)] = Resumed(running[u])
    BY <1>3, PlaceNames
  <2> QED  BY <2>1, <1>6
<1>10. At(queue', cache', running') = g
  BY <1>4, <1>7, <1>8, <1>9, AtNext
<1> QED  BY <1>4, <1>10, HeldSame DEF h

\* The jobs of a try_pop_bulk, one priority after the other.
LEMMA PopKeeps ==
  ASSUME TypeOK, EachJobOnce, ControlInv, NEW t \in Threads, PopLocal(t)
  PROVE  EachJobOnce'
<1> DEFINE q(i) == Local(t, Levels[i])
           n(i) == Pops(t, CacheSize)[i]
           c == CacheOf(t)
           h == At(queue, cache, running)
           h1 == Transfer(h, q(1), c, n(1))
           h2 == Transfer(h1, q(2), c, n(2))
           h3 == Transfer(h2, q(3), c, n(3))
<1>1. t \in Workers /\ t \in Contexts /\ cache[t] = <<>>
  BY DEF PopLocal, ControlInv, ThreadInv, Contexts
<1>2. \A i \in 1..3 : /\ q(i) \in Queues /\ q(i) \in Places /\ q(i) # c
                      /\ \A k \in 1..3 : q(i) = q(k) => i = k
                      /\ q(i)[3] = Levels[i] /\ q(i)[1] = "local" /\ q(i)[2] = t
  <2>1. \A i \in 1..3 : q(i) \in Queues
    BY <1>1, LevelFacts, PlaceNames
  <2>2. \A i \in 1..3 : q(i)[3] = Levels[i] /\ q(i)[1] = "local" /\ q(i)[2] = t
    BY DEF Local
  <2>3. \A i \in 1..3 : q(i) \in Places /\ q(i) # c
    BY <2>1, PlaceNames
  <2>4. \A i, k \in 1..3 : q(i) = q(k) => i = k
    BY <2>2, LevelFacts
  <2> QED  BY <2>1, <2>2, <2>3, <2>4
<1>3. \A i \in 1..3 : Found(t, i) = queue[q(i)] /\ n(i) \in Nat
  <2> TAKE i \in 1..3
  <2>1. Found(t, i) \in Seq(Jobs) /\ n(i) \in 0..Len(Found(t, i))
    BY <1>1, QueueSizesAssumption, PopsType DEF TypeOK
  <2> QED  BY <2>1 DEF Found
<1>4. /\ \A x \in Queues : h[x] = queue[x]
      /\ \A u \in Threads : h[CacheOf(u)] = cache[u]
      /\ \A u \in Threads : h[BodyOf(u)] = Resumed(running[u])
      /\ h \in Placement /\ Unique(h)
  BY AtPlaces, PlacementInv
<1>5. c \in Places /\ c \notin Queues
  BY PlaceNames
<1>6. 1 \in 1..3 /\ 2 \in 1..3 /\ 3 \in 1..3 /\ q(1) # q(2) /\ q(1) # q(3) /\ q(2) # q(3)
  <2>1. 1 \in 1..3 /\ 2 \in 1..3 /\ 3 \in 1..3
    OBVIOUS
  <2> QED  BY <2>1, <1>2
<1> HIDE DEF q, n, c, h
<1>7. h1 \in Placement /\ Unique(h1) /\ Held(h1) = Held(h)
  BY <1>2, <1>3, <1>4, <1>5, <1>6, TransferJobs
<1>8. /\ h1[q(1)] = Left(h[q(1)], n(1)) /\ h1[c] = h[c] \o Taken(h[q(1)], n(1))
      /\ \A x \in Places \ {q(1), c} : h1[x] = h[x]
  BY <1>2, <1>4, <1>5, <1>6 DEF Transfer, Placement
<1> HIDE DEF h1
<1>9. h2 \in Placement /\ Unique(h2) /\ Held(h2) = Held(h)
  BY <1>2, <1>3, <1>7, <1>5, <1>6, TransferJobs
<1>10. /\ h2[q(2)] = Left(h1[q(2)], n(2)) /\ h2[c] = h1[c] \o Taken(h1[q(2)], n(2))
       /\ \A x \in Places \ {q(2), c} : h2[x] = h1[x]
  BY <1>2, <1>7, <1>5, <1>6 DEF Transfer, Placement
<1> HIDE DEF h2
<1>11. h3 \in Placement /\ Unique(h3) /\ Held(h3) = Held(h)
  BY <1>2, <1>3, <1>9, <1>5, <1>6, TransferJobs
<1>12. /\ h3[q(3)] = Left(h2[q(3)], n(3)) /\ h3[c] = h2[c] \o Taken(h2[q(3)], n(3))
       /\ \A x \in Places \ {q(3), c} : h3[x] = h2[x]
  BY <1>2, <1>9, <1>5, <1>6 DEF Transfer, Placement
<1> HIDE DEF h3
<1>13. q(1) \in Places /\ q(2) \in Places /\ q(3) \in Places
       /\ q(1) # c /\ q(2) # c /\ q(3) # c
  BY <1>2, <1>6
<1>14. \A x \in Places \ {q(1), q(2), q(3), c} : h3[x] = h[x]
  BY <1>8, <1>10, <1>12
<1>15. /\ h1[q(2)] = h[q(2)] /\ h2[q(3)] = h[q(3)] /\ h3[q(1)] = Left(h[q(1)], n(1))
       /\ h3[q(2)] = Left(h[q(2)], n(2)) /\ h3[q(3)] = Left(h[q(3)], n(3))
  BY <1>6, <1>8, <1>10, <1>12, <1>13
<1>16. h3[c] = (((<<>> \o Taken(h[q(1)], n(1))) \o Taken(h[q(2)], n(2))) \o Taken(h[q(3)], n(3)))
  <2>1. h[c] = <<>>
    BY <1>1, <1>4 DEF c
  <2> QED  BY <2>1, <1>8, <1>10, <1>12, <1>15
<1>17. \A i \in 1..3 : h[q(i)] = Found(t, i) /\ Taken(Found(t, i), n(i)) \in Seq(Jobs)
  <2> TAKE i \in 1..3
  <2>1. Found(t, i) \in Seq(Jobs) /\ h[q(i)] = Found(t, i) /\ n(i) \in Nat
    <3>1. q(i) \in Queues
      BY <1>2
    <3>2. queue[q(i)] \in Seq(Jobs)
      BY <3>1 DEF TypeOK
    <3>3. h[q(i)] = queue[q(i)]
      BY <3>1, <1>4
    <3> QED  BY <3>2, <3>3, <1>3
  <2> QED  BY <2>1, TakenLength
<1>18. h3[c] = PopBulk(t, CacheSize)
  <2> DEFINE u == Taken(Found(t, 1), n(1))
  <2>1. u \in Seq(Jobs)
    BY <1>6, <1>17
  <2> HIDE DEF u
  <2>2. <<>> \o u = u
    BY <2>1, ConcatEmptySeq
  <2>3. h3[c] = (((<<>> \o u) \o Taken(Found(t, 2), n(2))) \o Taken(Found(t, 3), n(3)))
    BY <1>6, <1>16, <1>17 DEF u
  <2>4. PopBulk(t, CacheSize) = (u \o Taken(Found(t, 2), n(2))) \o Taken(Found(t, 3), n(3))
    BY DEF PopBulk, u, n
  <2> QED  BY <2>2, <2>3, <2>4
<1>19. \A x \in Queues : h3[x] = queue'[x]
  <2> SUFFICES ASSUME NEW x \in Queues PROVE h3[x] = queue'[x]
    OBVIOUS
  <2>1. queue'[x] = IF x[1] = "local" /\ x[2] = t
                      THEN Left(queue[x], Popped(t, CacheSize, x[3])) ELSE queue[x]
    BY DEF PopLocal
  <2>2. x = <<x[1], x[2], x[3]>> /\ x[3] \in Priorities /\ x \in Places /\ x # c
    BY <1>5, PlaceNames
  <2>3. CASE x[1] = "local" /\ x[2] = t
    <3>1. PICK i \in 1..3 : i = LevelOf(x[3]) /\ Levels[i] = x[3]
      BY <2>2, LevelFacts
    <3>2. x = q(i) /\ Popped(t, CacheSize, x[3]) = n(i)
      BY <2>2, <2>3, <3>1 DEF q, n, Popped, Local
    <3>3. h3[q(i)] = Left(h[q(i)], n(i))
      <4>1. i = 1 \/ i = 2 \/ i = 3
        OBVIOUS
      <4> QED  BY <4>1, <1>15
    <3> QED  BY <2>1, <2>3, <3>2, <3>3, <1>4
  <2>4. CASE ~(x[1] = "local" /\ x[2] = t)
    <3>1. x # q(1) /\ x # q(2) /\ x # q(3)
      BY <2>4, <1>2, <1>6
    <3> QED  BY <2>1, <2>2, <2>4, <3>1, <1>4, <1>14
  <2> QED  BY <2>3, <2>4
<1>20. \A u \in Threads : h3[CacheOf(u)] = cache'[u]
  <2> SUFFICES ASSUME NEW u \in Threads PROVE h3[CacheOf(u)] = cache'[u]
    OBVIOUS
  <2>1. CASE u = t
    BY <2>1, <1>18 DEF c, PopLocal, TypeOK
  <2>2. CASE u # t
    <3>1. CacheOf(u) \in Places \ {q(1), q(2), q(3), c}
      BY <2>2, <1>2, <1>6, PlaceNames DEF c
    <3> QED  BY <2>2, <3>1, <1>4, <1>14 DEF PopLocal, TypeOK
  <2> QED  BY <2>1, <2>2
<1>21. \A u \in Threads : h3[BodyOf(u)] = Resumed(running'[u])
  <2> SUFFICES ASSUME NEW u \in Threads PROVE h3[BodyOf(u)] = Resumed(running'[u])
    OBVIOUS
  <2>1. BodyOf(u) \in Places \ {q(1), q(2), q(3), c}
    BY <1>2, <1>6, PlaceNames DEF c
  <2> QED  BY <2>1, <1>4, <1>14 DEF PopLocal
<1>22. At(queue', cache', running') = h3
  BY <1>11, <1>19, <1>20, <1>21, AtNext
<1> QED  BY <1>11, <1>22, HeldSame DEF h, PopLocal

\* A batch joins a queue.
LEMMA SubmitKeeps ==
  ASSUME TypeOK, EachJobOnce, ControlInv, NEW t \in Threads, Submit(t)
  PROVE  EachJobOnce'
<1>1. PICK batch \in Batches(Pending(t)) :
        /\ queue' = [queue EXCEPT ![Local(Ctx(t), Urgency[batch[1]])] = @ \o batch]
        /\ dispatched' = dispatched \cup Range(batch)
  BY DEF Submit
<1> DEFINE q == Local(Ctx(t), Urgency[batch[1]])
           h == At(queue, cache, running)
           s == queue[q] \o batch
           g == [h EXCEPT ![q] = s]
<1>2. /\ batch \in Seq(Jobs) /\ IsInjective(batch)
      /\ Range(batch) \subseteq Jobs \ dispatched /\ Urgency[batch[1]] \in Priorities
  BY BatchType
<1>3. q \in Queues /\ q \in Places
  BY <1>2, AccessedQueues, PlaceNames
<1>4. /\ h \in Placement /\ Unique(h) /\ Held(h) = dispatched \ finished
      /\ \A x \in Queues : h[x] = queue[x]
      /\ \A u \in Threads : h[CacheOf(u)] = cache[u]
      /\ \A u \in Threads : h[BodyOf(u)] = Resumed(running[u])
  BY PlacementInv, AtPlaces
<1>5. queue' = [queue EXCEPT ![q] = s]
  BY <1>1
<1>6. UNCHANGED <<cache, running, finished>>
  BY DEF Submit
<1> HIDE DEF q, h
<1>7. queue[q] \in Seq(Jobs) /\ IsInjective(queue[q]) /\ Range(queue[q]) \subseteq Held(h)
      /\ h[q] = queue[q]
  <2>1. h[q] = queue[q] /\ h[q] \in Seq(Jobs) /\ Range(h[q]) \subseteq Held(h)
    BY <1>3, <1>4, PlacedOf
  <2>2. IsInjective(h[q])
    BY <1>3, <1>4 DEF Unique
  <2> QED  BY <2>1, <2>2
<1>8. s \in Seq(Jobs) /\ IsInjective(s) /\ Range(s) = Range(queue[q]) \cup Range(batch)
  BY <1>2, <1>4, <1>7, Concatenation
<1> HIDE DEF s
<1>9. Replaces(h, q, s, g)
  BY <1>2, <1>3, <1>4, <1>7, <1>8 DEF Replaces
<1>10. g[q] = s /\ \A x \in Places \ {q} : g[x] = h[x]
  BY <1>3, <1>4 DEF Placement
<1> HIDE DEF g
<1>11. /\ g \in Placement /\ Unique(g)
       /\ Held(g) = (Held(h) \ Range(h[q])) \cup Range(s)
  BY <1>9, ReplaceContents
<1>12. Held(g) = dispatched' \ finished'
  <2>1. Held(g) = (dispatched \ finished) \cup Range(batch)
    BY <1>4, <1>7, <1>8, <1>11
  <2>2. Range(batch) \cap finished = {}
    BY <1>2 DEF ControlInv
  <2> QED  BY <2>1, <2>2, <1>1, <1>6
<1>13. \A x \in Queues : g[x] = queue'[x]
  <2> TAKE x \in Queues
  <2>1. queue'[x] = IF x = q THEN s ELSE queue[x]
    BY <1>5 DEF TypeOK
  <2> QED  BY <2>1, <1>4, <1>10, PlaceNames
<1>14. \A u \in Threads : g[CacheOf(u)] = cache'[u]
  <2> TAKE u \in Threads
  <2>1. CacheOf(u) \in Places \ {q}
    BY <1>3, PlaceNames
  <2> QED  BY <2>1, <1>4, <1>6, <1>10
<1>15. \A u \in Threads : g[BodyOf(u)] = Resumed(running'[u])
  <2> TAKE u \in Threads
  <2>1. BodyOf(u) \in Places \ {q}
    BY <1>3, PlaceNames
  <2> QED  BY <2>1, <1>4, <1>6, <1>10
<1>16. At(queue', cache', running') = g
  BY <1>11, <1>13, <1>14, <1>15, AtNext
<1> QED  BY <1>11, <1>12, <1>16, EachJobOnceIs

\* The last job of a cache becomes the body of the thread.
LEMMA ExecuteKeeps ==
  ASSUME TypeOK, EachJobOnce, ControlInv, NEW t \in Threads, Execute(t)
  PROVE  EachJobOnce'
<1> DEFINE h == At(queue, cache, running)
           c == CacheOf(t)
           b == BodyOf(t)
           s == Front(cache[t])
           u == <<Last(cache[t])>>
           g == [h EXCEPT ![c] = s, ![b] = u]
<1>1. /\ h \in Placement /\ Unique(h)
      /\ \A x \in Queues : h[x] = queue[x]
      /\ \A v \in Threads : h[CacheOf(v)] = cache[v]
      /\ \A v \in Threads : h[BodyOf(v)] = Resumed(running[v])
  BY PlacementInv, AtPlaces
<1>2. c \in Places /\ b \in Places /\ c # b /\ c \notin Queues /\ b \notin Queues
  BY PlaceNames
<1>3. /\ cache[t] # <<>> /\ running[t] = None
      /\ running' = [running EXCEPT ![t] = Last(cache[t])]
      /\ cache' = [cache EXCEPT ![t] = Front(cache[t])]
      /\ UNCHANGED <<queue, dispatched, finished>>
  BY DEF Execute, ControlInv, ThreadInv
<1>4. cache[t] \in Seq(Jobs) /\ IsInjective(cache[t])
  <2>1. h[c] = cache[t] /\ IsInjective(h[c]) /\ h[c] \in Seq(Jobs)
    BY <1>1, <1>2, PlacedOf DEF Unique
  <2> QED  BY <2>1
<1>5. /\ Last(cache[t]) \in Jobs /\ s \in Seq(Jobs) /\ IsInjective(s)
      /\ Range(s) = Range(cache[t]) \ {Last(cache[t])}
      /\ Last(cache[t]) \in Range(cache[t])
  BY <1>3, <1>4, FrontLast
<1>6. u \in Seq(Jobs) /\ IsInjective(u) /\ Range(u) = {Last(cache[t])}
  BY <1>5, Singleton
<1>7. h[b] = <<>> /\ Range(h[b]) = {} /\ h[c] = cache[t]
  BY <1>1, <1>3, EmptyQueue DEF Resumed
<1> HIDE DEF h, s, u
<1>8. Moves(h, c, s, b, u, g)
  BY <1>1, <1>2, <1>5, <1>6, <1>7 DEF Moves
<1>9. g \in Placement /\ Unique(g) /\ Held(g) = Held(h)
  BY <1>8, MoveJobs
<1>10. g[c] = s /\ g[b] = u /\ \A x \in Places \ {c, b} : g[x] = h[x]
  BY <1>1, <1>2 DEF Placement
<1> HIDE DEF g
<1>11. \A x \in Queues : g[x] = queue'[x]
  <2> TAKE x \in Queues
  <2>1. x \in Places \ {c, b}
    BY <1>2, PlaceNames
  <2> QED  BY <2>1, <1>1, <1>3, <1>10
<1>12. \A v \in Threads : g[CacheOf(v)] = cache'[v]
  <2> TAKE v \in Threads
  <2>1. cache'[v] = IF v = t THEN s ELSE cache[v]
    BY <1>3 DEF TypeOK, s
  <2>2. v # t => CacheOf(v) \in Places \ {c, b}
    BY PlaceNames
  <2> QED  BY <2>1, <2>2, <1>1, <1>10
<1>13. \A v \in Threads : g[BodyOf(v)] = Resumed(running'[v])
  <2> TAKE v \in Threads
  <2>1. running'[v] = IF v = t THEN Last(cache[t]) ELSE running[v]
    BY <1>3 DEF TypeOK
  <2>2. v # t => BodyOf(v) \in Places \ {c, b}
    BY PlaceNames
  <2>3. Last(cache[t]) # None
    BY <1>5, QueueNamesAssumption
  <2>4. Resumed(Last(cache[t])) = u
    BY <2>3 DEF Resumed, u
  <2> QED  BY <2>1, <2>2, <2>4, <1>1, <1>10
<1>14. At(queue', cache', running') = g
  BY <1>9, <1>11, <1>12, <1>13, AtNext
<1> QED  BY <1>3, <1>9, <1>14, HeldSame DEF h

\* A body that ends takes its job out of circulation.
LEMMA EndKeeps ==
  ASSUME TypeOK, EachJobOnce, ControlInv, NEW t \in Threads, EndBody(t)
  PROVE  EachJobOnce'
<1> DEFINE h == At(queue, cache, running)
           b == BodyOf(t)
           g == [h EXCEPT ![b] = <<>>]
<1>1. /\ h \in Placement /\ Unique(h) /\ Held(h) = dispatched \ finished
      /\ \A x \in Queues : h[x] = queue[x]
      /\ \A v \in Threads : h[CacheOf(v)] = cache[v]
      /\ \A v \in Threads : h[BodyOf(v)] = Resumed(running[v])
  BY PlacementInv, AtPlaces
<1>2. b \in Places /\ b \notin Queues
  BY PlaceNames
<1>3. /\ running[t] \in Jobs /\ running[t] # None
      /\ running' = [running EXCEPT ![t] = None]
      /\ finished' = finished \cup {running[t]}
      /\ UNCHANGED <<queue, cache, dispatched>>
  BY DEF EndBody, TypeOK
<1>4. Range(h[b]) = {running[t]}
  <2>1. h[b] = <<running[t]>>
    BY <1>1, <1>3 DEF Resumed
  <2> QED  BY <2>1, <1>3, Singleton
<1>5. <<>> \in Seq(Jobs) /\ IsInjective(<<>>) /\ Range(<<>>) = {}
  BY EmptyQueue
<1> HIDE DEF h
<1>6. Replaces(h, b, <<>>, g)
  BY <1>1, <1>2, <1>5 DEF Replaces
<1>7. g[b] = <<>> /\ \A x \in Places \ {b} : g[x] = h[x]
  BY <1>1, <1>2 DEF Placement
<1> HIDE DEF g
<1>8. /\ g \in Placement /\ Unique(g)
      /\ Held(g) = (Held(h) \ Range(h[b])) \cup Range(<<>>)
  BY <1>6, ReplaceContents
<1>9. Held(g) = dispatched' \ finished'
  BY <1>1, <1>3, <1>4, <1>5, <1>8
<1>10. \A x \in Queues : g[x] = queue'[x]
  <2> TAKE x \in Queues
  <2>1. x \in Places \ {b}
    BY <1>2, PlaceNames
  <2> QED  BY <2>1, <1>1, <1>3, <1>7
<1>11. \A v \in Threads : g[CacheOf(v)] = cache'[v]
  <2> TAKE v \in Threads
  <2>1. CacheOf(v) \in Places \ {b}
    BY PlaceNames
  <2> QED  BY <2>1, <1>1, <1>3, <1>7
<1>12. \A v \in Threads : g[BodyOf(v)] = Resumed(running'[v])
  <2> TAKE v \in Threads
  <2>1. running'[v] = IF v = t THEN None ELSE running[v]
    BY <1>3 DEF TypeOK
  <2>2. v # t => BodyOf(v) \in Places \ {b}
    BY PlaceNames
  <2>3. Resumed(None) = <<>>
    BY DEF Resumed
  <2> QED  BY <2>1, <2>2, <2>3, <1>1, <1>7
<1>13. At(queue', cache', running') = g
  BY <1>8, <1>10, <1>11, <1>12, AtNext
<1> QED  BY <1>8, <1>9, <1>13, EachJobOnceIs

\* A migration moves the first jobs of a queue behind those of another.
LEMMA MigrateKeeps ==
  ASSUME TypeOK, EachJobOnce, ControlInv, NEW t \in Threads, Migrate(t)
  PROVE  EachJobOnce'
<1> DEFINE from == Local(t, Levels[level[t]])
           to == Stealable(t, Levels[level[t]])
           h == At(queue, cache, running)
           g == Transfer(h, from, to, MoveCount)
<1>1. CASE queue' = queue
  <2>1. UNCHANGED <<queue, cache, running, dispatched, finished>>
    BY <1>1 DEF Migrate
  <2>2. At(queue', cache', running') = At(queue, cache, running)
    BY <2>1
  <2> QED  BY <2>1, <2>2, EachJobOnceIs
<1>2. CASE queue' = [queue EXCEPT ![from] = Left(@, MoveCount),
                                  ![to] = @ \o Taken(queue[from], MoveCount)]
  <2>1. from \in Queues /\ to \in Queues /\ from # to /\ from \in Places /\ to \in Places
    <3>1. pc[t] = "migrate"
      BY DEF Migrate
    <3>2. t \in Workers
      BY <3>1 DEF ControlInv, ThreadInv
    <3> QED  BY <3>2, AccessedQueues, PlaceNames
  <2>2. UNCHANGED <<cache, running, dispatched, finished>>
    BY DEF Migrate
  <2>3. /\ h \in Placement /\ Unique(h)
        /\ \A x \in Queues : h[x] = queue[x]
        /\ \A v \in Threads : h[CacheOf(v)] = cache[v]
        /\ \A v \in Threads : h[BodyOf(v)] = Resumed(running[v])
    BY PlacementInv, AtPlaces
  <2> HIDE DEF from, to, h
  <2>4. g \in Placement /\ Unique(g) /\ Held(g) = Held(h)
    BY <2>1, <2>3, QueueSizesAssumption, TransferJobs
  <2>5. /\ g[from] = Left(queue[from], MoveCount)
        /\ g[to] = queue[to] \o Taken(queue[from], MoveCount)
        /\ \A x \in Places \ {from, to} : g[x] = h[x]
    BY <2>1, <2>3 DEF Transfer, Placement
  <2> HIDE DEF g
  <2>6. \A x \in Queues : g[x] = queue'[x]
    <3> SUFFICES ASSUME NEW x \in Queues PROVE g[x] = queue'[x]
      OBVIOUS
    <3>1. queue'[x] = IF x = to THEN queue[to] \o Taken(queue[from], MoveCount)
                      ELSE IF x = from THEN Left(queue[from], MoveCount) ELSE queue[x]
      BY <1>2, <2>1 DEF TypeOK
    <3> QED  BY <3>1, <2>1, <2>3, <2>5, PlaceNames
  <2>7. \A v \in Threads : g[CacheOf(v)] = cache'[v]
    <3> TAKE v \in Threads
    <3>1. CacheOf(v) \in Places \ {from, to}
      BY <2>1, PlaceNames
    <3> QED  BY <3>1, <2>2, <2>3, <2>5
  <2>8. \A v \in Threads : g[BodyOf(v)] = Resumed(running'[v])
    <3> TAKE v \in Threads
    <3>1. BodyOf(v) \in Places \ {from, to}
      BY <2>1, PlaceNames
    <3> QED  BY <3>1, <2>2, <2>3, <2>5
  <2>9. At(queue', cache', running') = g
    BY <2>4, <2>6, <2>7, <2>8, AtNext
  <2> QED  BY <2>2, <2>4, <2>9, HeldSame DEF h
<1> QED  BY <1>1, <1>2 DEF Migrate

LEMMA EachJobOnceStep ==
  ASSUME TypeOK, EachJobOnce, ControlInv, NEW t \in Threads, Step(t)
  PROVE  EachJobOnce'
<1>1. CASE UNCHANGED <<queue, cache, running, dispatched, finished>>
  <2>1. At(queue', cache', running') = At(queue, cache, running)
    BY <1>1
  <2> QED  BY <1>1, <2>1, EachJobOnceIs
<1>2. CASE CountSubmitted(t) \/ Pump(t) \/ BeginMigration(t) \/ Publish(t) \/ PickVictim(t)
           \/ Gate(t) \/ CountStolen(t) \/ CountGlobal(t)
  BY <1>1, <1>2 DEF CountSubmitted, Pump, BeginMigration, Publish, PickVictim, Gate,
                    CountStolen, CountGlobal
<1>3. Len(cache[t]) \in Nat /\ CacheSize - Len(cache[t]) \in Nat
  BY QueueSizesAssumption DEF TypeOK
<1>4. CASE Steal(t)
  <2> DEFINE q == Stealable(victim[t], Levels[level[t]])
             n == Len(Taken(queue[q], CacheSize - Len(cache[t])))
             jobs == Taken(queue[q], CacheSize - Len(cache[t]))
  <2>1. CASE jobs = <<>>
    BY <1>1, <1>4, <2>1 DEF Steal
  <2>2. CASE jobs # <<>>
    <3>1. q \in Queues
      <4>1. pc[t] = "steal"
        BY <1>4 DEF Steal
      <4>2. victim[t] \in Workers
        BY <4>1 DEF ControlInv, ThreadInv
      <4> QED  BY <4>2, AccessedQueues
    <3>2. queue[q] \in Seq(Jobs)
      BY <3>1 DEF TypeOK
    <3>3. n \in Nat /\ Taken(queue[q], n) = Taken(queue[q], CacheSize - Len(cache[t]))
      BY <3>2, <1>3, TakenLength
    <3>4. /\ queue' = [queue EXCEPT ![q] = Left(@, n)]
          /\ cache' = [cache EXCEPT ![t] = @ \o Taken(queue[q], n)]
          /\ UNCHANGED <<running, dispatched, finished>>
      BY <1>4, <2>2, <3>3 DEF Steal
    <3> HIDE DEF q, n
    <3> QED  BY <3>1, <3>3, <3>4, BulkKeeps
  <2> QED  BY <2>1, <2>2
<1>5. CASE PopGlobal(t)
  <2> DEFINE q == Local(Global, Levels[level[t]])
             n == Len(Taken(queue[q], CacheSize - Len(cache[t])))
  <2>1. q \in Queues
    BY AccessedQueues
  <2>2. queue[q] \in Seq(Jobs)
    BY <2>1 DEF TypeOK
  <2>3. n \in Nat /\ Taken(queue[q], n) = Taken(queue[q], CacheSize - Len(cache[t]))
    BY <2>2, <1>3, TakenLength
  <2>4. /\ queue' = [queue EXCEPT ![q] = Left(@, n)]
        /\ cache' = [cache EXCEPT ![t] = @ \o Taken(queue[q], n)]
        /\ UNCHANGED <<running, dispatched, finished>>
    BY <1>5, <2>3 DEF PopGlobal
  <2> HIDE DEF q, n
  <2> QED  BY <2>1, <2>3, <2>4, BulkKeeps
<1> QED  BY <1>2, <1>4, <1>5, SubmitKeeps, ExecuteKeeps, EndKeeps, MigrateKeeps, PopKeeps DEF Step

-----------------------------------------------------------------------------
(* Queues by priority, and what the places of threads say *)

\* What an access leaves in a queue was in it, and so was what it took.
LEMMA PartsOfQueue ==
  ASSUME TypeOK, EachJobOnce, NEW q \in Queues, NEW n \in Nat
  PROVE  /\ Range(Left(queue[q], n)) \subseteq Range(queue[q])
         /\ Range(Taken(queue[q], n)) \subseteq Range(queue[q])
<1>1. queue[q] \in Seq(Jobs) /\ IsInjective(queue[q])
  BY QueueLength
<1>2. Range(Taken(queue[q], n)) \cup Range(Left(queue[q], n)) = Range(queue[q])
  BY <1>1, TakenLeft
<1> QED  BY <1>2

LEMMA SortedStep ==
  ASSUME TypeOK, EachJobOnce, Sorted, ControlInv, NEW t \in Threads, Step(t)
  PROVE  Sorted'
<1>1. \A q \in Queues : queue[q] \in Seq(Jobs)
  BY DEF TypeOK
<1>2. CASE Submit(t)
  <2>1. PICK batch \in Batches(Pending(t)) :
          queue' = [queue EXCEPT ![Local(Ctx(t), Urgency[batch[1]])] = @ \o batch]
    BY <1>2 DEF Submit
  <2> DEFINE q == Local(Ctx(t), Urgency[batch[1]])
  <2>2. /\ batch \in Seq(Jobs) /\ Urgency[batch[1]] \in Priorities
        /\ \A j \in Range(batch) : Urgency[j] = Urgency[batch[1]]
    BY BatchType
  <2>3. q \in Queues /\ q[3] = Urgency[batch[1]]
    <3>1. Ctx(t) \in Contexts
      BY AccessedQueues
    <3> QED  BY <3>1, <2>2, PlaceNames DEF Local
  <2>4. Range(queue[q] \o batch) = Range(queue[q]) \cup Range(batch)
    BY <2>2, <2>3, <1>1, RangeConcatenation
  <2> HIDE DEF q
  <2>5. \A x \in Queues : queue'[x] = IF x = q THEN queue[q] \o batch ELSE queue[x]
    BY <2>1, <2>3 DEF TypeOK, q
  <2> QED  BY <2>2, <2>3, <2>4, <2>5 DEF Sorted
<1>3. CASE Migrate(t)
  <2> DEFINE from == Local(t, Levels[level[t]])
             to == Stealable(t, Levels[level[t]])
             jobs == Taken(queue[from], MoveCount)
  <2>1. CASE queue' = queue
    BY <2>1 DEF Sorted
  <2>2. CASE queue' = [queue EXCEPT ![from] = Left(@, MoveCount), ![to] = @ \o jobs]
    <3>1. from \in Queues /\ to \in Queues /\ from # to /\ from[3] = to[3]
      <4>1. pc[t] = "migrate"
        BY <1>3 DEF Migrate
      <4>2. t \in Workers
        BY <4>1 DEF ControlInv, ThreadInv
      <4>3. from[3] = to[3]
        BY DEF Local, Stealable
      <4> QED  BY <4>2, <4>3, AccessedQueues, PlaceNames
    <3>2. MoveCount \in Nat
      BY QueueSizesAssumption
    <3>3. /\ Range(Left(queue[from], MoveCount)) \subseteq Range(queue[from])
          /\ Range(jobs) \subseteq Range(queue[from])
      BY <3>1, <3>2, PartsOfQueue
    <3>4. jobs \in Seq(Jobs)
      BY <3>1, <3>2, <1>1, TakenLength
    <3> HIDE DEF from, to, jobs
    <3>5. Range(queue[to] \o jobs) = Range(queue[to]) \cup Range(jobs)
      BY <3>1, <3>4, <1>1, RangeConcatenation
    <3>6. \A x \in Queues : queue'[x] = IF x = to THEN queue[to] \o jobs
                              ELSE IF x = from THEN Left(queue[from], MoveCount) ELSE queue[x]
      BY <2>2, <3>1 DEF TypeOK
    <3> QED  BY <3>1, <3>3, <3>5, <3>6 DEF Sorted
  <2> QED  BY <1>3, <2>1, <2>2 DEF Migrate
<1>4. ASSUME NEW q \in Queues, NEW n \in Nat, queue' = [queue EXCEPT ![q] = Left(@, n)]
      PROVE  Sorted'
  <2>1. Range(Left(queue[q], n)) \subseteq Range(queue[q])
    BY PartsOfQueue
  <2>2. \A x \in Queues : queue'[x] = IF x = q THEN Left(queue[q], n) ELSE queue[x]
    BY <1>4 DEF TypeOK
  <2> QED  BY <2>1, <2>2 DEF Sorted
<1>5. Len(cache[t]) \in Nat /\ CacheSize - Len(cache[t]) \in Nat
  BY QueueSizesAssumption DEF TypeOK
<1>6. CASE Steal(t)
  <2> DEFINE q == Stealable(victim[t], Levels[level[t]])
             jobs == Taken(queue[q], CacheSize - Len(cache[t]))
  <2>1. CASE queue' = queue
    BY <2>1 DEF Sorted
  <2>2. CASE queue' = [queue EXCEPT ![q] = Left(@, Len(jobs))]
    <3>1. q \in Queues
      <4>1. pc[t] = "steal"
        BY <1>6 DEF Steal
      <4>2. victim[t] \in Workers
        BY <4>1 DEF ControlInv, ThreadInv
      <4> QED  BY <4>2, AccessedQueues
    <3>2. Len(jobs) \in Nat
      BY <3>1, <1>1, <1>5, TakenLength
    <3> QED  BY <2>2, <3>1, <3>2, <1>4
  <2> QED  BY <1>6, <2>1, <2>2 DEF Steal
<1>7. CASE PopGlobal(t)
  <2> DEFINE q == Local(Global, Levels[level[t]])
             jobs == Taken(queue[q], CacheSize - Len(cache[t]))
  <2>1. q \in Queues
    BY AccessedQueues
  <2>2. Len(jobs) \in Nat
    BY <2>1, <1>1, <1>5, TakenLength
  <2> QED  BY <1>7, <2>1, <2>2, <1>4 DEF PopGlobal
<1>8. CASE PopLocal(t)
  <2>1. \A q \in Queues : Range(queue'[q]) \subseteq Range(queue[q])
    <3> TAKE q \in Queues
    <3>1. queue'[q] = IF q[1] = "local" /\ q[2] = t
                        THEN Left(queue[q], Popped(t, CacheSize, q[3])) ELSE queue[q]
      BY <1>8 DEF PopLocal
    <3>2. Popped(t, CacheSize, q[3]) \in Nat
      <4>1. LevelOf(q[3]) \in 1..3 /\ t \in Contexts /\ CacheSize \in Nat
        BY <1>8, PlaceNames, LevelFacts, QueueSizesAssumption DEF PopLocal, Contexts
      <4>2. /\ Found(t, LevelOf(q[3])) \in Seq(Jobs)
            /\ Pops(t, CacheSize)[LevelOf(q[3])] \in 0..Len(Found(t, LevelOf(q[3])))
        BY <4>1, PopsType DEF TypeOK
      <4> QED  BY <4>2 DEF Popped
    <3> QED  BY <3>1, <3>2, PartsOfQueue
  <2> QED  BY <2>1 DEF Sorted
<1>9. CASE CountSubmitted(t) \/ Pump(t) \/ Execute(t) \/ EndBody(t) \/ BeginMigration(t)
           \/ Publish(t) \/ PickVictim(t) \/ Gate(t) \/ CountStolen(t) \/ CountGlobal(t)
  <2>1. queue' = queue
    BY <1>9 DEF CountSubmitted, Pump, Execute, EndBody, BeginMigration, Publish, PickVictim,
                Gate, CountStolen, CountGlobal
  <2> QED  BY <2>1 DEF Sorted
<1> QED  BY <1>2, <1>3, <1>6, <1>7, <1>8, <1>9 DEF Step

\* No thread changes where another thread is, its victim, its cache or its body.
LEMMA OthersKeep ==
  ASSUME TypeOK, NEW t \in Threads, Step(t), NEW u \in Threads \ {t}
  PROVE  /\ pc'[u] = pc[u] /\ victim'[u] = victim[u] /\ cache'[u] = cache[u]
         /\ running'[u] = running[u] /\ moved'[u] = moved[u] /\ level'[u] = level[u]
<1> USE DEF TypeOK
<1>1. CASE Submit(t)
  BY <1>1 DEF Submit
<1>2. CASE CountSubmitted(t) \/ Pump(t) \/ Execute(t) \/ EndBody(t) \/ BeginMigration(t)
  BY <1>2 DEF CountSubmitted, Pump, Execute, EndBody, BeginMigration
<1>3. CASE Migrate(t) \/ Publish(t)
  BY <1>3 DEF Migrate, Publish, NextLevel
<1>4. CASE PopLocal(t) \/ PickVictim(t)
  BY <1>4 DEF PopLocal, PickVictim
<1>5. CASE Gate(t)
  BY <1>5 DEF Gate, NextSteal, NextLevel
<1>6. CASE Steal(t)
  BY <1>6 DEF Steal, NextSteal, NextLevel
<1>7. CASE CountStolen(t)
  BY <1>7 DEF CountStolen, NextSteal, NextLevel
<1>8. CASE PopGlobal(t) \/ CountGlobal(t)
  BY <1>8 DEF PopGlobal, CountGlobal, NextLevel
<1> QED  BY <1>1, <1>2, <1>3, <1>4, <1>5, <1>6, <1>7, <1>8 DEF Step

LEMMA NextStealControl ==
  ASSUME TypeOK, NEW t \in Threads, NextSteal(t), victim[t] \in Workers,
         cache'[t] = cache[t], running'[t] = None
  PROVE  ThreadInv(t)'
<1>1. pc'[t] \in {"gate", Stolen(t)} /\ (pc'[t] = "gate" => level[t] < Len(Levels))
  BY DEF NextSteal, NextLevel, Stolen, Loop, TypeOK
<1>2. Stolen(t) \in {"global", "iterate", "body"}
  BY DEF Stolen, Loop
<1>3. level[t] < Len(Levels) => victim'[t] = victim[t]
  BY DEF NextSteal, TypeOK
<1> QED  BY <1>1, <1>2, <1>3 DEF ThreadInv

LEMMA ControlStep ==
  ASSUME TypeOK, EachJobOnce, ControlInv, NEW t \in Threads, Step(t)
  PROVE  ControlInv'
<1>1. \A u \in Threads \ {t} : ThreadInv(u)'
  BY OthersKeep DEF ControlInv, ThreadInv
<1>2. finished' \subseteq dispatched'
  <2>1. CASE Submit(t)
    BY <2>1 DEF Submit, ControlInv
  <2>2. CASE EndBody(t)
    <3>1. running[t] \in Jobs
      BY <2>2 DEF EndBody, TypeOK
    <3>2. running[t] \in dispatched
      <4>1. BodyOf(t) \in Places /\ At(queue, cache, running)[BodyOf(t)] = Resumed(running[t])
        BY PlaceNames, AtPlaces
      <4>2. Range(Resumed(running[t])) \subseteq Held(At(queue, cache, running))
        BY <4>1, PlacementInv, PlacedOf
      <4>3. running[t] \in Range(Resumed(running[t]))
        BY <3>1, ResumedType, QueueNamesAssumption
      <4> QED  BY <4>2, <4>3, PlacementInv
    <3> QED  BY <2>2, <3>2 DEF EndBody, ControlInv
  <2>3. CASE UNCHANGED <<dispatched, finished>>
    BY <2>3 DEF ControlInv
  <2> QED  BY <2>1, <2>2, <2>3 DEF Step, CountSubmitted, Pump, Execute, BeginMigration, Migrate,
             Publish, PopLocal, PickVictim, Gate, Steal, CountStolen, PopGlobal, CountGlobal
<1>3. ThreadInv(t)'
  <2>0. ThreadInv(t)
    BY DEF ControlInv
  <2>1. CASE Submit(t)
    <3>1. pc'[t] \in {"body", "count_submitted"}
      BY <2>1 DEF Submit, TypeOK
    <3> QED  BY <3>1 DEF ThreadInv
  <2>2. CASE CountSubmitted(t)
    BY <2>2 DEF CountSubmitted, ThreadInv, TypeOK
  <2>3. CASE Pump(t)
    BY <2>3 DEF Pump, ThreadInv, TypeOK
  <2>4. CASE Execute(t)
    BY <2>4 DEF Execute, ThreadInv, TypeOK
  <2>5. CASE EndBody(t)
    <3>1. pc'[t] \in {"iterate", "body"} /\ running'[t] = None
      BY <2>5, LoopType DEF EndBody, TypeOK
    <3> QED  BY <3>1 DEF ThreadInv
  <2>6. CASE BeginMigration(t)
    BY <2>0, <2>6 DEF BeginMigration, ThreadInv, TypeOK
  <2>7. CASE Migrate(t) \/ Publish(t)
    <3>1. /\ pc[t] \in {"migrate", "publish"} /\ pc'[t] \in {"migrate", "publish", "pop"}
          /\ cache' = cache /\ running' = running
      <4>1. CASE Publish(t)
        BY <4>1 DEF Publish, NextLevel, TypeOK
      <4>2. CASE Migrate(t)
        <5>1. pc' = [pc EXCEPT ![t] = "publish"] \/ NextLevel(t, "migrate", "pop")
          BY <4>2 DEF Migrate
        <5>2. pc'[t] \in {"migrate", "publish", "pop"}
          BY <5>1 DEF NextLevel, TypeOK
        <5> QED  BY <4>2, <5>2 DEF Migrate
      <4> QED  BY <2>7, <4>1, <4>2
    <3> QED  BY <2>0, <3>1 DEF ThreadInv
  <2>8. CASE PopLocal(t)
    <3>1. /\ pc'[t] \in {"pick", "iterate"} /\ (pc'[t] = "pick" => cache'[t] = <<>>)
          /\ running'[t] = None
      BY <2>0, <2>8 DEF PopLocal, ThreadInv, TypeOK
    <3> QED  BY <3>1 DEF ThreadInv
  <2>9. CASE PickVictim(t)
    <3>1. running[t] = None
      BY <2>0, <2>9 DEF PickVictim, ThreadInv
    <3>2. /\ pc'[t] \in {"global", "gate"} /\ (pc'[t] = "gate" => victim'[t] \in Workers)
          /\ running'[t] = None
      BY <3>1, <2>9 DEF PickVictim, TypeOK
    <3> QED  BY <3>2 DEF ThreadInv
  <2>10. CASE Gate(t)
    <3>1. victim[t] \in Workers /\ running[t] = None /\ pc[t] = "gate"
          /\ cache' = cache /\ running' = running
      BY <2>0, <2>10 DEF Gate, ThreadInv
    <3>2. CASE NextSteal(t)
      BY <3>1, <3>2, NextStealControl
    <3>3. CASE pc' = [pc EXCEPT ![t] = "steal"] /\ UNCHANGED <<level, victim>>
      BY <3>1, <3>3 DEF ThreadInv, TypeOK
    <3> QED  BY <2>10, <3>2, <3>3 DEF Gate
  <2>11. CASE Steal(t)
    <3>1. victim[t] \in Workers /\ running[t] = None /\ running' = running
      BY <2>0, <2>11 DEF Steal, ThreadInv
    <3>2. CASE NextSteal(t) /\ cache' = cache
      BY <3>1, <3>2, NextStealControl
    <3> DEFINE jobs == Taken(queue[Stealable(victim[t], Levels[level[t]])],
                             CacheSize - Len(cache[t]))
    <3>3. CASE /\ pc' = [pc EXCEPT ![t] = "count_stolen"] /\ UNCHANGED <<level, victim>>
               /\ cache' = [cache EXCEPT ![t] = @ \o jobs]
               /\ moved' = [moved EXCEPT ![t] = Len(jobs)]
      <4>1. pc'[t] = "count_stolen" /\ victim'[t] \in Workers /\ running'[t] = None
        BY <3>1, <3>3 DEF TypeOK
      <4>2. cache'[t] = cache[t] \o jobs /\ moved'[t] = Len(jobs)
        BY <3>3 DEF TypeOK
      <4>3. cache[t] \in Seq(Jobs) /\ jobs \in Seq(Jobs)
        <5>1. queue[Stealable(victim[t], Levels[level[t]])] \in Seq(Jobs)
          BY <3>1, AccessedQueues DEF TypeOK
        <5>2. cache[t] \in Seq(Jobs) /\ CacheSize - Len(cache[t]) \in Nat
          BY QueueSizesAssumption DEF TypeOK
        <5> QED  BY <5>1, <5>2, TakenLength
      <4> HIDE DEF jobs
      <4>4. Len(cache[t] \o jobs) = Len(cache[t]) + Len(jobs) /\ Len(jobs) \in Nat
            /\ Len(cache[t]) \in Nat
        BY <4>3
      <4>5. moved'[t] <= Len(cache'[t])
        BY <4>2, <4>4
      <4> QED  BY <4>1, <4>5 DEF ThreadInv
    <3> QED  BY <2>11, <3>2, <3>3 DEF Steal
  <2>12. CASE CountStolen(t)
    <3>1. victim[t] \in Workers /\ running[t] = None /\ running' = running /\ cache' = cache
      BY <2>0, <2>12 DEF CountStolen, ThreadInv
    <3>2. CASE NextSteal(t)
      BY <3>1, <3>2, NextStealControl
    <3>3. CASE pc' = [pc EXCEPT ![t] = Loop(t)]
      <4>1. pc'[t] \in {"iterate", "body"}
        BY <3>3, LoopType DEF TypeOK
      <4> QED  BY <3>1, <4>1 DEF ThreadInv
    <3> QED  BY <2>12, <3>2, <3>3 DEF CountStolen
  <2>13. CASE PopGlobal(t)
    BY <2>0, <2>13 DEF PopGlobal, ThreadInv, TypeOK
  <2>14. CASE CountGlobal(t)
    <3>1. pc'[t] \in {"global", Loop(t)} /\ running[t] = None /\ running' = running
      BY <2>0, <2>14 DEF CountGlobal, NextLevel, ThreadInv, TypeOK
    <3>2. Loop(t) \in {"iterate", "body"}
      BY LoopType
    <3> QED  BY <3>1, <3>2 DEF ThreadInv
  <2> QED  BY <2>1, <2>2, <2>3, <2>4, <2>5, <2>6, <2>7, <2>8, <2>9, <2>10, <2>11, <2>12,
              <2>13, <2>14 DEF Step
<1> QED  BY <1>1, <1>2, <1>3 DEF ControlInv

-----------------------------------------------------------------------------
(* Counts *)

\* What thread t still has to add to the count of queue q, and to subtract from it.
ToAdd(t, q) == IF Adding(t, q) THEN moved[t] ELSE 0
ToSubtract(t, q) == IF Removing(t, q) THEN moved[t] ELSE 0

Balance(q) == Len(queue[q]) + Cardinality(Due(q)) - Cardinality(Owed(q))

\* The rows of one thread beside those of the others.
LEMMA RowsOfOne ==
  ASSUME NEW A \in SUBSET Threads, NEW t \in Threads, NEW m \in [Threads -> 0..Cardinality(Jobs)]
  PROVE  Cardinality(Rows(A, m)) =
           Cardinality(Rows(A \ {t}, m)) + (IF t \in A THEN m[t] ELSE 0)
<1>1. CASE t \in A
  <2>1. (A \ {t}) \cup {t} = A /\ t \notin A \ {t} /\ m[t] \in 0..Cardinality(Jobs)
    BY <1>1
  <2>2. Cardinality(Rows((A \ {t}) \cup {t}, m)) = Cardinality(Rows(A \ {t}, m)) + m[t]
    BY <2>1, RowsMore
  <2> QED  BY <1>1, <2>1, <2>2
<1>2. CASE t \notin A
  <2>1. A \ {t} = A /\ Cardinality(Rows(A, m)) \in Nat
    BY <1>2, RowsFinite
  <2> QED  BY <1>2, <2>1
<1> QED  BY <1>1, <1>2

\* A step changes what is owed to a count by what its thread owes.
LEMMA DebtsOfOne ==
  ASSUME TypeOK, TypeOK', NEW t \in Threads, Step(t), NEW q \in Queues
  PROVE  /\ Cardinality(Owed(q)') - ToAdd(t, q)' = Cardinality(Owed(q)) - ToAdd(t, q)
         /\ Cardinality(Due(q)') - ToSubtract(t, q)' = Cardinality(Due(q)) - ToSubtract(t, q)
         /\ Cardinality(Owed(q)) \in Nat /\ Cardinality(Owed(q)') \in Nat
         /\ Cardinality(Due(q)) \in Nat /\ Cardinality(Due(q)') \in Nat
         /\ ToAdd(t, q) \in Nat /\ ToAdd(t, q)' \in Nat
         /\ ToSubtract(t, q) \in Nat /\ ToSubtract(t, q)' \in Nat
<1> DEFINE A == {u \in Threads : Adding(u, q)}
           B == {u \in Threads : Adding(u, q)'}
           C == {u \in Threads : Removing(u, q)}
           D == {u \in Threads : Removing(u, q)'}
           m == moved
           n == moved'
<1>1. /\ Owed(q) = Rows(A, m) /\ Owed(q)' = Rows(B, n)
      /\ Due(q) = Rows(C, m) /\ Due(q)' = Rows(D, n)
  BY DEF Owed, Due, Rows
<1>2. /\ ToAdd(t, q) = (IF t \in A THEN m[t] ELSE 0)
      /\ ToAdd(t, q)' = (IF t \in B THEN n[t] ELSE 0)
      /\ ToSubtract(t, q) = (IF t \in C THEN m[t] ELSE 0)
      /\ ToSubtract(t, q)' = (IF t \in D THEN n[t] ELSE 0)
  BY DEF ToAdd, ToSubtract
<1>3. /\ m \in [Threads -> 0..Cardinality(Jobs)] /\ n \in [Threads -> 0..Cardinality(Jobs)]
      /\ m[t] \in Nat /\ n[t] \in Nat
  BY JobsFinite DEF TypeOK
<1>4. \A u \in Threads \ {t} : /\ Adding(u, q)' <=> Adding(u, q)
                               /\ Removing(u, q)' <=> Removing(u, q)
                               /\ m[u] = n[u]
  <2> TAKE u \in Threads \ {t}
  <2>1. pc'[u] = pc[u] /\ victim'[u] = victim[u] /\ moved'[u] = moved[u] /\ level'[u] = level[u]
    BY OthersKeep
  <2> QED  BY <2>1 DEF Adding, Removing
<1>5. A \ {t} = B \ {t} /\ C \ {t} = D \ {t}
  BY <1>4
<1>6. A \in SUBSET Threads /\ B \in SUBSET Threads /\ C \in SUBSET Threads /\ D \in SUBSET Threads
  OBVIOUS
<1>7. Rows(A \ {t}, m) = Rows(B \ {t}, n) /\ Rows(C \ {t}, m) = Rows(D \ {t}, n)
  <2>1. (\A u \in A \ {t} : m[u] = n[u]) /\ (\A u \in C \ {t} : m[u] = n[u])
    BY <1>4, <1>6
  <2>2. Rows(A \ {t}, m) = Rows(A \ {t}, n) /\ Rows(C \ {t}, m) = Rows(C \ {t}, n)
    BY <2>1, RowsSame
  <2> QED  BY <2>2, <1>5
<1> HIDE DEF A, B, C, D, m, n
<1>8. /\ Cardinality(Rows(A, m)) = Cardinality(Rows(A \ {t}, m)) + (IF t \in A THEN m[t] ELSE 0)
      /\ Cardinality(Rows(B, n)) = Cardinality(Rows(B \ {t}, n)) + (IF t \in B THEN n[t] ELSE 0)
      /\ Cardinality(Rows(C, m)) = Cardinality(Rows(C \ {t}, m)) + (IF t \in C THEN m[t] ELSE 0)
      /\ Cardinality(Rows(D, n)) = Cardinality(Rows(D \ {t}, n)) + (IF t \in D THEN n[t] ELSE 0)
  <2>1. \A S \in SUBSET Threads, f \in [Threads -> 0..Cardinality(Jobs)] :
          Cardinality(Rows(S, f)) = Cardinality(Rows(S \ {t}, f)) + (IF t \in S THEN f[t] ELSE 0)
    BY RowsOfOne
  <2> QED  BY <2>1, <1>3, <1>6
<1>9. /\ Cardinality(Rows(A, m)) \in Nat /\ Cardinality(Rows(A \ {t}, m)) \in Nat
      /\ Cardinality(Rows(B, n)) \in Nat /\ Cardinality(Rows(B \ {t}, n)) \in Nat
      /\ Cardinality(Rows(C, m)) \in Nat /\ Cardinality(Rows(C \ {t}, m)) \in Nat
      /\ Cardinality(Rows(D, n)) \in Nat /\ Cardinality(Rows(D \ {t}, n)) \in Nat
  BY RowsFinite
<1>10. /\ ToAdd(t, q) \in Nat /\ ToAdd(t, q)' \in Nat
       /\ ToSubtract(t, q) \in Nat /\ ToSubtract(t, q)' \in Nat
  BY <1>2, <1>3
<1>11. Cardinality(Owed(q)') - ToAdd(t, q)' = Cardinality(Owed(q)) - ToAdd(t, q)
  BY <1>1, <1>2, <1>7, <1>8, <1>9, <1>10
<1>12. Cardinality(Due(q)') - ToSubtract(t, q)' = Cardinality(Due(q)) - ToSubtract(t, q)
  BY <1>1, <1>2, <1>7, <1>8, <1>9, <1>10
<1> QED  BY <1>1, <1>9, <1>10, <1>11, <1>12

\* The count of a queue is updated by d, and the queue and what the thread owes to
\* the count change by d together.
Follows(t, q, d) ==
  /\ Len(queue'[q]) + ToSubtract(t, q)' - ToAdd(t, q)' =
       Len(queue[q]) + ToSubtract(t, q) - ToAdd(t, q) + d
  /\ count'[q] = (count[q] + d) % (CountMax + 1) \/ (d = 0 /\ count'[q] = count[q])

LEMMA CountFollows ==
  ASSUME TypeOK, TypeOK', CountsExact, NEW t \in Threads, Step(t), NEW q \in Queues,
         NEW d \in Int, Follows(t, q, d)
  PROVE  count'[q] = Balance(q)' % (CountMax + 1)
<1>1. Len(queue[q]) \in Nat /\ Len(queue'[q]) \in Nat /\ CountMax + 1 \in Nat \ {0}
  BY QueueSizesAssumption DEF TypeOK
<1>2. Balance(q) \in Int /\ Balance(q)' = Balance(q) + d
  <2>1. /\ Cardinality(Owed(q)') - ToAdd(t, q)' = Cardinality(Owed(q)) - ToAdd(t, q)
        /\ Cardinality(Due(q)') - ToSubtract(t, q)' = Cardinality(Due(q)) - ToSubtract(t, q)
        /\ Cardinality(Owed(q)) \in Nat /\ Cardinality(Owed(q)') \in Nat
        /\ Cardinality(Due(q)) \in Nat /\ Cardinality(Due(q)') \in Nat
        /\ ToAdd(t, q) \in Nat /\ ToAdd(t, q)' \in Nat
        /\ ToSubtract(t, q) \in Nat /\ ToSubtract(t, q)' \in Nat
    BY DebtsOfOne
  <2>2. Len(queue'[q]) + ToSubtract(t, q)' - ToAdd(t, q)' =
          Len(queue[q]) + ToSubtract(t, q) - ToAdd(t, q) + d
    BY DEF Follows
  <2>3. Balance(q)' = Len(queue'[q]) + Cardinality(Due(q)') - Cardinality(Owed(q)')
    BY DEF Balance
  <2>4. Balance(q) = Len(queue[q]) + Cardinality(Due(q)) - Cardinality(Owed(q))
    BY DEF Balance
  <2> DEFINE o == Cardinality(Owed(q))
             o1 == Cardinality(Owed(q)')
             e == Cardinality(Due(q))
             e1 == Cardinality(Due(q)')
             a == ToAdd(t, q)
             a1 == ToAdd(t, q)'
             s == ToSubtract(t, q)
             s1 == ToSubtract(t, q)'
             l == Len(queue[q])
             l1 == Len(queue'[q])
  <2>5. /\ o1 - a1 = o - a /\ e1 - s1 = e - s /\ l1 + s1 - a1 = l + s - a + d
        /\ o \in Nat /\ o1 \in Nat /\ e \in Nat /\ e1 \in Nat /\ l \in Nat /\ l1 \in Nat
        /\ a \in Nat /\ a1 \in Nat /\ s \in Nat /\ s1 \in Nat
    BY <2>1, <2>2, <1>1
  <2>6. Balance(q) = l + e - o /\ Balance(q)' = l1 + e1 - o1
    BY <2>3, <2>4
  <2> HIDE DEF o, o1, e, e1, a, a1, s, s1, l, l1
  <2>7. l + e - o \in Int /\ l1 + e1 - o1 = (l + e - o) + d
    BY <2>5
  <2> QED  BY <2>6, <2>7
<1>3. count[q] = Balance(q) % (CountMax + 1)
  BY DEF CountsExact, Balance
<1>4. CASE d = 0 /\ count'[q] = count[q]
  BY <1>2, <1>3, <1>4
<1>5. CASE count'[q] = (count[q] + d) % (CountMax + 1)
  <2>1. ((Balance(q) % (CountMax + 1)) + d) % (CountMax + 1) = (Balance(q) + d) % (CountMax + 1)
    BY <1>1, <1>2, WrapShift
  <2> QED  BY <1>2, <1>3, <1>5, <2>1
<1> QED  BY <1>4, <1>5 DEF Follows

\* A thread that is not between an access to a queue and the update of its count
\* owes nothing.
LEMMA NothingOwed ==
  ASSUME NEW t \in Threads, NEW q
  PROVE  /\ pc[t] \notin {"count_submitted", "publish", "count_global", "count_stolen"} =>
              ToAdd(t, q) = 0 /\ ToSubtract(t, q) = 0
         /\ pc'[t] \notin {"count_submitted", "publish", "count_global", "count_stolen"} =>
              ToAdd(t, q)' = 0 /\ ToSubtract(t, q)' = 0
BY DEF ToAdd, ToSubtract, Adding, Removing

\* A thread puts k jobs into a queue and owes its count k, or does neither.
LEMMA FollowsOwing ==
  ASSUME NEW t, NEW q, NEW k \in Nat, Len(queue[q]) \in Nat,
         Len(queue'[q]) = Len(queue[q]) + k, count'[q] = count[q],
         ToAdd(t, q) = 0, ToAdd(t, q)' = k, ToSubtract(t, q) = 0, ToSubtract(t, q)' = 0
  PROVE  Follows(t, q, 0)
<1> DEFINE l == Len(queue[q])
<1>1. (l + k) + 0 - k = l + 0 - 0 + 0
  <2>1. l \in Nat
    OBVIOUS
  <2> HIDE DEF l
  <2> QED  BY <2>1
<1> QED  BY <1>1 DEF Follows

\* The second half of an access: the count of x takes note of what the thread moved.
LEMMA CountUpdated ==
  ASSUME TypeOK, NEW t \in Threads, NEW x \in Queues, queue' = queue,
         pc'[t] \notin {"count_submitted", "publish", "count_global", "count_stolen"},
         \/ /\ \A q \in Queues : /\ ToAdd(t, q) = (IF q = x THEN moved[t] ELSE 0)
                                 /\ ToSubtract(t, q) = 0
            /\ count' = [count EXCEPT ![x] = Increased(@, moved[t])]
         \/ /\ \A q \in Queues : /\ ToSubtract(t, q) = (IF q = x THEN moved[t] ELSE 0)
                                 /\ ToAdd(t, q) = 0
            /\ count' = [count EXCEPT ![x] = Decreased(@, moved[t])]
  PROVE  \A q \in Queues : \E d \in Int : Follows(t, q, d)
<1> SUFFICES ASSUME NEW q \in Queues PROVE \E d \in Int : Follows(t, q, d)
  OBVIOUS
<1>1. ToAdd(t, q)' = 0 /\ ToSubtract(t, q)' = 0
  BY NothingOwed
<1>2. Len(queue[q]) \in Nat /\ moved[t] \in Nat /\ count[q] \in Int
  BY JobsFinite, QueueSizesAssumption DEF TypeOK
<1>3. CASE q # x
  <2>1. count'[q] = count[q] /\ ToAdd(t, q) = 0 /\ ToSubtract(t, q) = 0
    BY <1>3 DEF TypeOK
  <2>2. Follows(t, q, 0)
    BY <2>1, <1>1, <1>2 DEF Follows
  <2> QED  BY <2>2
<1>4. CASE q = x /\ ToAdd(t, q) = moved[t] /\ ToSubtract(t, q) = 0
                 /\ count'[q] = Increased(count[q], moved[t])
  <2>1. Follows(t, q, moved[t])
    BY <1>1, <1>2, <1>4 DEF Follows, Increased
  <2> QED  BY <2>1, <1>2
<1>5. CASE q = x /\ ToSubtract(t, q) = moved[t] /\ ToAdd(t, q) = 0
                 /\ count'[q] = Decreased(count[q], moved[t])
  <2>1. count[q] + (0 - moved[t]) = count[q] - moved[t]
    BY <1>2
  <2>2. Follows(t, q, 0 - moved[t])
    BY <2>1, <1>1, <1>2, <1>5 DEF Follows, Decreased
  <2> QED  BY <2>2, <1>2
<1> QED  BY <1>3, <1>4, <1>5 DEF TypeOK

\* The first half of a theft or of an access to the global queue: the jobs leave x.
LEMMA CountBehind ==
  ASSUME TypeOK, NEW t \in Threads, NEW x \in Queues, NEW k \in Nat, k <= Len(queue[x]),
         queue' = [queue EXCEPT ![x] = Left(@, k)], count' = count,
         pc[t] \notin {"count_submitted", "publish", "count_global", "count_stolen"},
         \A q \in Queues : /\ ToSubtract(t, q)' = (IF q = x THEN k ELSE 0)
                           /\ ToAdd(t, q)' = 0
  PROVE  \A q \in Queues : \E d \in Int : Follows(t, q, d)
<1> SUFFICES ASSUME NEW q \in Queues PROVE Follows(t, q, 0)
  OBVIOUS
<1>1. ToAdd(t, q) = 0 /\ ToSubtract(t, q) = 0
  BY NothingOwed
<1>2. Len(queue[q]) \in Nat /\ queue[x] \in Seq(Jobs)
  BY DEF TypeOK
<1>3. CASE q # x
  <2>1. queue'[q] = queue[q] /\ ToAdd(t, q)' = 0 /\ ToSubtract(t, q)' = 0
    BY <1>3 DEF TypeOK
  <2> QED  BY <2>1, <1>1, <1>2 DEF Follows
<1>4. CASE q = x
  <2>1. queue'[q] = Left(queue[q], k) /\ ToAdd(t, q)' = 0 /\ ToSubtract(t, q)' = k
    BY <1>4 DEF TypeOK
  <2>2. Least(k, Len(queue[q])) = k
    BY <1>4 DEF Least
  <2>3. Len(Left(queue[q], k)) = Len(queue[q]) - k
    BY <2>2, <1>2, <1>4, TakenLength
  <2> QED  BY <2>1, <2>3, <1>1, <1>2 DEF Follows
<1> QED  BY <1>3, <1>4

LEMMA CountsStep ==
  ASSUME TypeOK, TypeOK', EachJobOnce, ControlInv, CountsExact, NEW t \in Threads, Step(t)
  PROVE  CountsExact'
<1> SUFFICES \A q \in Queues : \E d \in Int : Follows(t, q, d)
  <2>1. \A q \in Queues : count'[q] = Balance(q)' % (CountMax + 1)
    BY CountFollows
  <2> QED  BY <2>1 DEF CountsExact, Balance
<1>1. \A q \in Queues : queue[q] \in Seq(Jobs) /\ Len(queue[q]) \in Nat
  BY DEF TypeOK
<1>2. ASSUME queue' = queue, count' = count,
             pc[t] \notin {"count_submitted", "publish", "count_global", "count_stolen"},
             pc'[t] \notin {"count_submitted", "publish", "count_global", "count_stolen"}
      PROVE  \A q \in Queues : \E d \in Int : Follows(t, q, d)
  <2> SUFFICES ASSUME NEW q \in Queues PROVE Follows(t, q, 0)
    OBVIOUS
  <2>1. /\ ToAdd(t, q) = 0 /\ ToSubtract(t, q) = 0
        /\ ToAdd(t, q)' = 0 /\ ToSubtract(t, q)' = 0
    BY <1>2, NothingOwed
  <2> QED  BY <2>1, <1>1, <1>2 DEF Follows
<1>3. CASE Pump(t) \/ Execute(t) \/ EndBody(t) \/ BeginMigration(t) \/ PickVictim(t)
  <2>1. Loop(t) \in {"iterate", "body"}
    BY LoopType
  <2>2. queue' = queue /\ count' = count /\ pc[t] \in {"body", "iterate", "pick"}
        /\ pc'[t] \in {"iterate", "body", "migrate", "global", "gate"}
    BY <1>3, <2>1 DEF Pump, Execute, EndBody, BeginMigration, PickVictim, TypeOK
  <2> QED  BY <1>2, <2>2
<1>4. CASE Gate(t)
  <2>1. pc'[t] \in {"gate", "steal", Stolen(t)}
    BY <1>4 DEF Gate, NextSteal, NextLevel, TypeOK
  <2>2. Stolen(t) \in {"global", "iterate", "body"}
    BY DEF Stolen, Loop
  <2> QED  BY <1>2, <1>4, <2>1, <2>2 DEF Gate
<1>5. CASE Submit(t)
  <2>1. PICK batch \in Batches(Pending(t)) :
          LET q == Local(Ctx(t), Urgency[batch[1]])
          IN  /\ queue' = [queue EXCEPT ![q] = @ \o batch]
              /\ IF t \in Workers
                   THEN /\ count' = [count EXCEPT ![q] = Increased(@, Len(batch))]
                        /\ UNCHANGED <<pc, level, moved>>
                   ELSE /\ pc' = [pc EXCEPT ![t] = "count_submitted"]
                        /\ level' = [level EXCEPT ![t] = LevelOf(Urgency[batch[1]])]
                        /\ moved' = [moved EXCEPT ![t] = Len(batch)]
                        /\ UNCHANGED count
    BY <1>5 DEF Submit
  <2> DEFINE x == Local(Ctx(t), Urgency[batch[1]])
  <2>2. /\ batch \in Seq(Jobs) /\ Len(batch) \in Nat /\ Urgency[batch[1]] \in Priorities
    BY BatchType
  <2>3. x \in Queues /\ queue[x] \in Seq(Jobs)
    <3>1. Ctx(t) \in Contexts
      BY AccessedQueues
    <3> QED  BY <3>1, <2>2, <1>1, PlaceNames
  <2>4. Len(queue[x] \o batch) = Len(queue[x]) + Len(batch)
    BY <2>2, <2>3
  <2>5. pc[t] = "body"
    BY <1>5 DEF Submit
  <2>6. \A q \in Queues : ToAdd(t, q) = 0 /\ ToSubtract(t, q) = 0
    BY <2>5, NothingOwed
  <2>7. \A q \in Queues : queue'[q] = IF q = x THEN queue[x] \o batch ELSE queue[q]
    BY <2>1, <2>3 DEF TypeOK
  <2>8. CASE t \in Workers
    <3>1. count' = [count EXCEPT ![x] = Increased(@, Len(batch))] /\ pc' = pc
      BY <2>1, <2>8
    <3>2. \A q \in Queues : ToAdd(t, q)' = 0 /\ ToSubtract(t, q)' = 0
      BY <2>5, <3>1, NothingOwed
    <3> HIDE DEF x
    <3> SUFFICES ASSUME NEW q \in Queues PROVE \E d \in Int : Follows(t, q, d)
      OBVIOUS
    <3>3. CASE q = x
      <4>1. count'[q] = Increased(count[q], Len(batch)) /\ Len(queue'[q]) = Len(queue[q]) + Len(batch)
        BY <3>1, <3>3, <2>3, <2>4, <2>7 DEF TypeOK
      <4>2. Follows(t, q, Len(batch))
        BY <4>1, <3>2, <2>2, <2>6, <1>1 DEF Follows, Increased
      <4> QED  BY <4>2, <2>2
    <3>4. CASE q # x
      <4>1. count'[q] = count[q] /\ queue'[q] = queue[q]
        BY <3>1, <3>4, <2>7 DEF TypeOK
      <4>2. Follows(t, q, 0)
        BY <4>1, <3>2, <2>6, <1>1 DEF Follows
      <4> QED  BY <4>2
    <3> QED  BY <3>3, <3>4
  <2>9. CASE t \notin Workers
    <3>1. /\ pc'[t] = "count_submitted" /\ level'[t] = LevelOf(Urgency[batch[1]])
          /\ moved'[t] = Len(batch) /\ count' = count
      BY <2>1, <2>9 DEF TypeOK
    <3>2. x = Local(Global, Levels[level'[t]])
      BY <2>2, <2>9, <3>1, LevelFacts DEF Ctx
    <3>3. \A q \in Queues : ToAdd(t, q)' = (IF q = x THEN Len(batch) ELSE 0) /\ ToSubtract(t, q)' = 0
      BY <3>1, <3>2 DEF ToAdd, ToSubtract, Adding, Removing
    <3> HIDE DEF x
    <3> SUFFICES ASSUME NEW q \in Queues PROVE Follows(t, q, 0)
      OBVIOUS
    <3>4. CASE q = x
      <4>1. queue'[q] = queue[x] \o batch /\ Len(queue'[q]) = Len(queue[q]) + Len(batch)
        BY <2>4, <2>7, <3>4
      <4>2. /\ ToAdd(t, q) = 0 /\ ToAdd(t, q)' = Len(batch)
            /\ ToSubtract(t, q) = 0 /\ ToSubtract(t, q)' = 0
        BY <3>3, <3>4, <2>6
      <4>3. Len(queue[q]) \in Nat /\ count'[q] = count[q]
        BY <3>1, <1>1
      <4> QED  BY <4>1, <4>2, <4>3, <2>2, FollowsOwing
    <3>5. CASE q # x
      <4>1. queue'[q] = queue[q] /\ Len(queue[q]) \in Nat /\ Len(queue'[q]) = Len(queue[q]) + 0
        BY <2>7, <3>5, <1>1
      <4>2. /\ ToAdd(t, q) = 0 /\ ToAdd(t, q)' = 0
            /\ ToSubtract(t, q) = 0 /\ ToSubtract(t, q)' = 0
        BY <3>3, <3>5, <2>6
      <4>3. count'[q] = count[q] /\ 0 \in Nat
        BY <3>1
      <4> QED  BY <4>1, <4>2, <4>3, FollowsOwing
    <3> QED  BY <3>4, <3>5
  <2> QED  BY <2>8, <2>9
<1>6. CASE CountSubmitted(t)
  <2> DEFINE x == Local(Global, Levels[level[t]])
  <2>1. /\ pc[t] = "count_submitted" /\ pc'[t] = "body" /\ queue' = queue
        /\ count' = [count EXCEPT ![x] = Increased(@, moved[t])]
    BY <1>6 DEF CountSubmitted, TypeOK
  <2>2. x \in Queues
    BY AccessedQueues
  <2>3. \A q \in Queues : ToAdd(t, q) = (IF q = x THEN moved[t] ELSE 0) /\ ToSubtract(t, q) = 0
    BY <2>1 DEF ToAdd, ToSubtract, Adding, Removing
  <2> HIDE DEF x
  <2> QED  BY <2>1, <2>2, <2>3, CountUpdated
<1>7. CASE Publish(t)
  <2> DEFINE x == Stealable(t, Levels[level[t]])
  <2>1. /\ pc[t] = "publish" /\ pc'[t] \in {"migrate", "pop"} /\ queue' = queue
        /\ count' = [count EXCEPT ![x] = Increased(@, moved[t])]
    BY <1>7 DEF Publish, NextLevel, TypeOK
  <2>2. x \in Queues
    BY <2>1, AccessedQueues DEF ControlInv, ThreadInv
  <2>3. \A q \in Queues : ToAdd(t, q) = (IF q = x THEN moved[t] ELSE 0) /\ ToSubtract(t, q) = 0
    BY <2>1 DEF ToAdd, ToSubtract, Adding, Removing
  <2> HIDE DEF x
  <2> QED  BY <2>1, <2>2, <2>3, CountUpdated
<1>8. CASE CountStolen(t)
  <2> DEFINE x == Stealable(victim[t], Levels[level[t]])
  <2>1. /\ pc[t] = "count_stolen" /\ queue' = queue
        /\ count' = [count EXCEPT ![x] = Decreased(@, moved[t])]
    BY <1>8 DEF CountStolen
  <2>2. pc'[t] \in {"gate", "global", "iterate", "body"}
    <3>1. pc'[t] \in {"gate", Stolen(t), Loop(t)}
      BY <1>8 DEF CountStolen, NextSteal, NextLevel, TypeOK
    <3> QED  BY <3>1 DEF Stolen, Loop
  <2>3. x \in Queues
    BY <2>1, AccessedQueues DEF ControlInv, ThreadInv
  <2>4. \A q \in Queues : ToSubtract(t, q) = (IF q = x THEN moved[t] ELSE 0) /\ ToAdd(t, q) = 0
    BY <2>1 DEF ToAdd, ToSubtract, Adding, Removing
  <2> HIDE DEF x
  <2> QED  BY <2>1, <2>2, <2>3, <2>4, CountUpdated
<1>9. CASE CountGlobal(t)
  <2> DEFINE x == Local(Global, Levels[level[t]])
  <2>1. /\ pc[t] = "count_global" /\ queue' = queue
        /\ count' = [count EXCEPT ![x] = Decreased(@, moved[t])]
    BY <1>9 DEF CountGlobal
  <2>2. pc'[t] \in {"global", "iterate", "body"}
    <3>1. pc'[t] \in {"global", Loop(t)}
      BY <1>9 DEF CountGlobal, NextLevel, TypeOK
    <3> QED  BY <3>1 DEF Loop
  <2>3. x \in Queues
    BY AccessedQueues
  <2>4. \A q \in Queues : ToSubtract(t, q) = (IF q = x THEN moved[t] ELSE 0) /\ ToAdd(t, q) = 0
    BY <2>1 DEF ToAdd, ToSubtract, Adding, Removing
  <2> HIDE DEF x
  <2> QED  BY <2>1, <2>2, <2>3, <2>4, CountUpdated
<1>10. Len(cache[t]) \in Nat /\ CacheSize - Len(cache[t]) \in Nat
  BY QueueSizesAssumption DEF TypeOK
<1>11. ASSUME NEW q \in Queues
       PROVE  /\ Len(Taken(queue[q], CacheSize - Len(cache[t]))) \in Nat
              /\ Len(Taken(queue[q], CacheSize - Len(cache[t]))) <= Len(queue[q])
  <2>1. /\ Len(Taken(queue[q], CacheSize - Len(cache[t])))
             = Least(CacheSize - Len(cache[t]), Len(queue[q]))
        /\ Least(CacheSize - Len(cache[t]), Len(queue[q])) \in 0..Len(queue[q])
    BY <1>1, <1>10, TakenLength
  <2> QED  BY <2>1, <1>1
<1>12. CASE Steal(t)
  <2> DEFINE x == Stealable(victim[t], Levels[level[t]])
             jobs == Taken(queue[x], CacheSize - Len(cache[t]))
  <2>1. pc[t] = "steal" /\ count' = count
    BY <1>12 DEF Steal
  <2>2. x \in Queues
    BY <2>1, AccessedQueues DEF ControlInv, ThreadInv
  <2>3. CASE jobs # <<>>
    <3>1. /\ queue' = [queue EXCEPT ![x] = Left(@, Len(jobs))]
          /\ pc'[t] = "count_stolen" /\ moved'[t] = Len(jobs)
          /\ level' = level /\ victim' = victim
      BY <1>12, <2>3 DEF Steal, TypeOK
    <3>2. \A q \in Queues : ToSubtract(t, q)' = (IF q = x THEN Len(jobs) ELSE 0) /\ ToAdd(t, q)' = 0
      BY <3>1 DEF ToAdd, ToSubtract, Adding, Removing
    <3>3. Len(jobs) \in Nat /\ Len(jobs) <= Len(queue[x])
      BY <2>2, <1>11
    <3> HIDE DEF x, jobs
    <3> QED  BY <2>1, <2>2, <3>1, <3>2, <3>3, CountBehind
  <2>4. CASE jobs = <<>>
    <3>1. queue' = queue /\ pc'[t] \in {"gate", Stolen(t)}
      BY <1>12, <2>4 DEF Steal, NextSteal, NextLevel, TypeOK
    <3>2. Stolen(t) \in {"global", "iterate", "body"}
      BY DEF Stolen, Loop
    <3> QED  BY <2>1, <3>1, <3>2, <1>2
  <2> QED  BY <2>3, <2>4
<1>13. CASE PopGlobal(t)
  <2> DEFINE x == Local(Global, Levels[level[t]])
             jobs == Taken(queue[x], CacheSize - Len(cache[t]))
  <2>1. /\ pc[t] = "global" /\ count' = count /\ pc'[t] = "count_global"
        /\ moved'[t] = Len(jobs) /\ level' = level
        /\ queue' = [queue EXCEPT ![x] = Left(@, Len(jobs))]
    BY <1>13 DEF PopGlobal, TypeOK
  <2>2. x \in Queues
    BY AccessedQueues
  <2>3. \A q \in Queues : ToSubtract(t, q)' = (IF q = x THEN Len(jobs) ELSE 0) /\ ToAdd(t, q)' = 0
    BY <2>1 DEF ToAdd, ToSubtract, Adding, Removing
  <2>4. Len(jobs) \in Nat /\ Len(jobs) <= Len(queue[x])
    BY <2>2, <1>11
  <2> HIDE DEF x, jobs
  <2> QED  BY <2>1, <2>2, <2>3, <2>4, CountBehind
<1>14. CASE Migrate(t)
  <2> DEFINE from == Local(t, Levels[level[t]])
             to == Stealable(t, Levels[level[t]])
             jobs == Taken(queue[from], MoveCount)
  <2>1. pc[t] = "migrate"
    BY <1>14 DEF Migrate
  <2>2. from \in Queues /\ to \in Queues /\ from # to
    <3>1. t \in Workers
      BY <2>1 DEF ControlInv, ThreadInv
    <3> QED  BY <3>1, AccessedQueues, PlaceNames
  <2>3. CASE count[from] > Threshold /\ jobs # <<>>
    <3>1. /\ queue' = [queue EXCEPT ![from] = Left(@, MoveCount), ![to] = @ \o jobs]
          /\ count' = [count EXCEPT ![from] = Decreased(@, Len(jobs))]
          /\ moved'[t] = Len(jobs) /\ pc'[t] = "publish" /\ level' = level
      BY <1>14, <2>3 DEF Migrate, TypeOK
    <3>2. \A q \in Queues : ToAdd(t, q)' = (IF q = to THEN Len(jobs) ELSE 0) /\ ToSubtract(t, q)' = 0
      BY <3>1 DEF ToAdd, ToSubtract, Adding, Removing
    <3>3. \A q \in Queues : ToAdd(t, q) = 0 /\ ToSubtract(t, q) = 0
      BY <2>1, NothingOwed
    <3>4. /\ jobs \in Seq(Jobs) /\ Len(jobs) \in Nat
          /\ Len(Left(queue[from], MoveCount)) = Len(queue[from]) - Len(jobs)
      <4>1. queue[from] \in Seq(Jobs) /\ MoveCount \in Nat
        BY <2>2, <1>1, QueueSizesAssumption
      <4>2. /\ jobs \in Seq(Jobs) /\ Len(jobs) = Least(MoveCount, Len(queue[from]))
            /\ Least(MoveCount, Len(queue[from])) \in 0..MoveCount
            /\ Len(Left(queue[from], MoveCount)) =
                 Len(queue[from]) - Least(MoveCount, Len(queue[from]))
        BY <4>1, TakenLength
      <4> QED  BY <4>1, <4>2
    <3> HIDE DEF from, to, jobs
    <3>5. Len(queue[to] \o jobs) = Len(queue[to]) + Len(jobs)
      BY <3>4, <2>2, <1>1
    <3> SUFFICES ASSUME NEW q \in Queues PROVE \E d \in Int : Follows(t, q, d)
      OBVIOUS
    <3>6. CASE q = from
      <4>1. /\ queue'[q] = Left(queue[from], MoveCount)
            /\ count'[q] = Decreased(count[q], Len(jobs)) /\ count[q] \in Int
        BY <3>1, <3>6, <2>2, QueueSizesAssumption DEF TypeOK
      <4>2. count[q] + (0 - Len(jobs)) = count[q] - Len(jobs)
        BY <4>1, <3>4
      <4>3. Len(queue'[q]) = Len(queue[q]) + (0 - Len(jobs))
        <5>1. Len(queue'[q]) = Len(queue[q]) - Len(jobs) /\ Len(queue[q]) \in Nat
          <6>1. Len(queue'[q]) = Len(Left(queue[from], MoveCount)) /\ Len(queue[q]) = Len(queue[from])
            BY <4>1, <3>6
          <6> QED  BY <6>1, <3>4, <1>1
        <5> DEFINE l == Len(queue[q])
                   k == Len(jobs)
        <5>2. l \in Nat /\ k \in Nat
          BY <5>1, <3>4
        <5> HIDE DEF l, k
        <5>3. l - k = l + (0 - k)
          BY <5>2
        <5> QED  BY <5>1, <5>3 DEF l, k
      <4>4. ToAdd(t, q)' = 0 /\ ToSubtract(t, q)' = 0 /\ ToAdd(t, q) = 0 /\ ToSubtract(t, q) = 0
        BY <3>2, <3>3, <3>6, <2>2
      <4>5. Follows(t, q, 0 - Len(jobs))
        BY <4>1, <4>2, <4>3, <4>4, <3>4, <1>1 DEF Follows, Decreased
      <4> QED  BY <4>5, <3>4
    <3>7. CASE q = to
      <4>1. queue'[q] = queue[to] \o jobs /\ count'[q] = count[q]
        BY <3>1, <3>7, <2>2 DEF TypeOK
      <4>2. Len(queue'[q]) = Len(queue[q]) + Len(jobs)
        BY <4>1, <3>5, <3>7
      <4>3. /\ ToAdd(t, q)' = Len(jobs) /\ ToSubtract(t, q)' = 0
            /\ ToAdd(t, q) = 0 /\ ToSubtract(t, q) = 0
        BY <3>2, <3>3, <3>7
      <4>4. Len(queue[q]) \in Nat
        BY <1>1
      <4>5. Follows(t, q, 0)
        BY <4>1, <4>2, <4>3, <4>4, <3>4, FollowsOwing
      <4> QED  BY <4>5
    <3>8. CASE q # from /\ q # to
      <4>1. queue'[q] = queue[q] /\ count'[q] = count[q]
        BY <3>1, <3>8 DEF TypeOK
      <4>2. Follows(t, q, 0)
        BY <4>1, <3>2, <3>3, <3>8, <1>1 DEF Follows
      <4> QED  BY <4>2
    <3> QED  BY <3>6, <3>7, <3>8
  <2>4. CASE ~(count[from] > Threshold /\ jobs # <<>>)
    <3>1. NextLevel(t, "migrate", "pop") /\ queue' = queue /\ count' = count
      BY <1>14, <2>4 DEF Migrate
    <3>2. pc'[t] \in {"migrate", "pop"}
      BY <3>1 DEF NextLevel, TypeOK
    <3> QED  BY <2>1, <3>1, <3>2, <1>2
  <2> QED  BY <2>3, <2>4
<1>15. CASE PopLocal(t)
  <2>1. pc[t] \in {"pop", "iterate"} /\ pc'[t] \in {"pick", "iterate"}
    BY <1>15 DEF PopLocal, TypeOK
  <2>2. \A q \in Queues : /\ ToAdd(t, q) = 0 /\ ToSubtract(t, q) = 0
                          /\ ToAdd(t, q)' = 0 /\ ToSubtract(t, q)' = 0
    BY <2>1, NothingOwed
  <2> SUFFICES ASSUME NEW q \in Queues PROVE \E d \in Int : Follows(t, q, d)
    OBVIOUS
  <2>3. CASE q[1] = "local" /\ q[2] = t
    <3> DEFINE k == Popped(t, CacheSize, q[3])
    <3>1. queue'[q] = Left(queue[q], k) /\ count'[q] = Decreased(count[q], k)
      BY <1>15, <2>3 DEF PopLocal
    <3>2. LevelOf(q[3]) \in 1..3 /\ Levels[LevelOf(q[3])] = q[3] /\ q = Local(t, q[3])
      BY <2>3, PlaceNames, LevelFacts DEF Local
    <3>3. Found(t, LevelOf(q[3])) = queue[q]
      BY <3>2 DEF Found
    <3>4. t \in Contexts /\ CacheSize \in Nat
      BY <1>15, QueueSizesAssumption DEF PopLocal, Contexts
    <3>5. k \in 0..Len(queue[q])
      BY <3>2, <3>3, <3>4, PopsType DEF Popped, TypeOK
    <3> HIDE DEF k
    <3>6. k \in Nat /\ Least(k, Len(queue[q])) = k
      BY <3>5, <1>1 DEF Least
    <3>7. Len(Left(queue[q], k)) = Len(queue[q]) - k
      BY <3>6, <1>1, TakenLength
    <3>8. count[q] \in Int /\ count[q] + (0 - k) = count[q] - k
      BY <3>6, QueueSizesAssumption DEF TypeOK
    <3>9. Follows(t, q, 0 - k)
      BY <3>1, <3>6, <3>7, <3>8, <2>2, <1>1 DEF Follows, Decreased
    <3> QED  BY <3>6, <3>9
  <2>4. CASE ~(q[1] = "local" /\ q[2] = t)
    <3>1. queue'[q] = queue[q] /\ count'[q] = count[q]
      BY <1>15, <2>4 DEF PopLocal
    <3>2. Follows(t, q, 0)
      BY <3>1, <2>2, <1>1 DEF Follows
    <3> QED  BY <3>2
  <2> QED  BY <2>3, <2>4
<1> QED  BY <1>3, <1>4, <1>5, <1>6, <1>7, <1>8, <1>9, <1>12, <1>13, <1>14, <1>15 DEF Step

-----------------------------------------------------------------------------
(* The theorems *)

LEMMA InitInv ==
  ASSUME Init
  PROVE  IInv
<1>1. TypeOK
  BY TypeInit
<1>2. EachJobOnce
  <2> DEFINE h == At(queue, cache, running)
  <2>1. \A x \in Places : h[x] = <<>>
    <3> SUFFICES ASSUME NEW x \in Places PROVE h[x] = <<>>
      OBVIOUS
    <3>1. CASE x \in Queues
      BY <3>1, AtPlaces DEF Init
    <3>2. ASSUME NEW t \in Threads, x = CacheOf(t) PROVE h[x] = <<>>
      <4>1. h[x] = cache[t]
        BY <3>2, AtPlaces
      <4> QED  BY <4>1 DEF Init
    <3>3. ASSUME NEW t \in Threads, x = BodyOf(t) PROVE h[x] = <<>>
      <4>1. h[x] = Resumed(running[t])
        BY <3>3, AtPlaces
      <4> QED  BY <4>1 DEF Init, Resumed
    <3> QED  BY <3>1, <3>2, <3>3, PlaceCases
  <2> HIDE DEF h
  <2>2. IsInjective(<<>>) /\ Range(<<>>) = {}
    BY EmptyQueue
  <2>3. Unique(h) /\ Held(h) = {}
    BY <2>1, <2>2 DEF Unique, Held
  <2>4. dispatched \ finished = {}
    BY DEF Init
  <2> QED  BY <2>3, <2>4, EachJobOnceIs DEF h
<1>3. Sorted
  <2>1. Range(<<>>) = {}
    BY EmptyQueue
  <2> QED  BY <2>1 DEF Init, Sorted
<1>4. ControlInv
  <2> SUFFICES ASSUME NEW t \in Threads PROVE ThreadInv(t)
    BY DEF Init, ControlInv
  <2>1. pc[t] \in {"iterate", "body"} /\ running[t] = None
    BY LoopType DEF Init
  <2> QED  BY <2>1 DEF ThreadInv
<1>5. CountsExact
  <2> SUFFICES ASSUME NEW q \in Queues
               PROVE  count[q] = (Len(queue[q]) + Cardinality(Due(q)) - Cardinality(Owed(q)))
                                   % (CountMax + 1)
    BY DEF CountsExact
  <2>1. \A t \in Threads : pc[t] \in {"iterate", "body"}
    BY LoopType DEF Init
  <2>2. Due(q) = {} /\ Owed(q) = {}
    BY <2>1 DEF Due, Owed, Adding, Removing
  <2>3. count[q] = 0 /\ Len(queue[q]) = 0
    BY DEF Init
  <2>4. Cardinality({}) = 0
    BY FS_EmptySet
  <2>5. 0 % (CountMax + 1) = 0
    BY QueueSizesAssumption
  <2> QED  BY <2>2, <2>3, <2>4, <2>5
<1> QED  BY <1>1, <1>2, <1>3, <1>4, <1>5 DEF IInv

LEMMA NextInv ==
  ASSUME IInv, [Next]_vars
  PROVE  IInv'
<1>1. ASSUME NEW t \in Threads, Step(t)
      PROVE  IInv'
  <2>1. TypeOK'
    BY <1>1, TypeStep DEF IInv
  <2>2. EachJobOnce'
    BY <1>1, EachJobOnceStep DEF IInv
  <2>3. Sorted'
    BY <1>1, SortedStep DEF IInv
  <2>4. ControlInv'
    BY <1>1, ControlStep DEF IInv
  <2>5. CountsExact'
    BY <1>1, <2>1, CountsStep DEF IInv
  <2> QED  BY <2>1, <2>2, <2>3, <2>4, <2>5 DEF IInv
<1>2. CASE UNCHANGED vars
  <2>1. TypeOK'
    BY <1>2 DEF IInv, vars, TypeOK
  <2>2. EachJobOnce'
    <3>1. At(queue', cache', running') = At(queue, cache, running)
      BY <1>2 DEF vars
    <3>2. dispatched' \ finished' = dispatched \ finished
      BY <1>2 DEF vars
    <3> QED  BY <3>1, <3>2, EachJobOnceIs DEF IInv
  <2>3. Sorted'
    BY <1>2 DEF IInv, vars, Sorted
  <2>4. ControlInv'
    BY <1>2 DEF IInv, vars, ControlInv, ThreadInv
  <2>5. CountsExact'
    BY <1>2 DEF IInv, vars, CountsExact, Owed, Due, Adding, Removing
  <2> QED  BY <2>1, <2>2, <2>3, <2>4, <2>5 DEF IInv
<1> QED  BY <1>1, <1>2 DEF Next

\* The inductive invariant of the queues holds in every reachable state: types, one
\* place for each job, queues sorted by priority, what a thread's place in an access
\* says of its cache and its victim, and what each count has still to take note of.
THEOREM InductiveInvariant == Spec => []IInv
BY InitInv, NextInv, PTL DEF Spec

\* Variables keep their types, a cache never holds more than its slots, and the
\* number a thread still owes to a count never exceeds the number of jobs, whatever
\* the sizes of caches and migrations are.
THEOREM TypeCorrect == Spec => []TypeOK
<1>1. IInv => TypeOK
  BY DEF IInv
<1> QED  BY <1>1, InductiveInvariant, PTL

\* Bulk accesses, migrations and thefts lose no job and hand none out twice, for any
\* number of threads: every dispatched job that has not ended is in one place.
THEOREM EachJobOncePlaced == Spec => []EachJobOnce
<1>1. IInv => EachJobOnce
  BY DEF IInv
<1> QED  BY <1>1, InductiveInvariant, PTL

\* Counts that are updated before or after their queues, by threads that do not wait
\* for each other, never drift: modulo the size of the counter a count is the length
\* of its queue, corrected by what the threads in the middle of an access owe it.
THEOREM CountsNeverDrift == Spec => []CountsExact
<1>1. IInv => CountsExact
  BY DEF IInv
<1> QED  BY <1>1, InductiveInvariant, PTL

\* The jobs of a stealable queue, and those its thieves have still to subtract from its
\* count, are different jobs.
LEMMA StolenElsewhere ==
  ASSUME IInv, NEW w \in Workers, NEW p \in Priorities
  PROVE  LET q == Stealable(w, p)
         IN  Len(queue[q]) + Cardinality(Due(q)) <= Cardinality(Jobs)
<1> DEFINE q == Stealable(w, p)
           R == Range(queue[q])
           f == [e \in Due(q) |-> cache[e[1]][e[2]]]
<1>1. w \in Contexts /\ q \in Queues
  BY PlaceNames DEF Contexts
<1>2. queue[q] \in Seq(Jobs) /\ IsInjective(queue[q])
  BY <1>1, QueueLength DEF IInv
<1>3. IsFiniteSet(R) /\ Cardinality(R) = Len(queue[q]) /\ R \subseteq Jobs
  BY <1>2, DistinctLength, RangeOfSeq
<1>4. IsFiniteSet(Jobs \ R) /\ Cardinality(Jobs \ R) = Cardinality(Jobs) - Len(queue[q])
  <2>1. IsFiniteSet(Jobs \ R) /\ Cardinality(Jobs \ R) = Cardinality(Jobs) - Cardinality(Jobs \cap R)
    BY QueueNamesAssumption, FS_Difference
  <2>2. Jobs \cap R = R
    BY <1>3
  <2> QED  BY <2>1, <2>2, <1>3
<1>5. \A e \in Due(q) : /\ e[1] \in Threads /\ e = <<e[1], e[2]>>
                        /\ e[2] \in 1..Len(cache[e[1]]) /\ cache[e[1]] \in Seq(Jobs)
  <2> SUFFICES ASSUME NEW e \in Due(q)
               PROVE  /\ e[1] \in Threads /\ e = <<e[1], e[2]>>
                      /\ e[2] \in 1..Len(cache[e[1]]) /\ cache[e[1]] \in Seq(Jobs)
    OBVIOUS
  <2>1. /\ e[1] \in Threads /\ e[2] \in 1..Cardinality(Jobs) /\ e = <<e[1], e[2]>>
        /\ Removing(e[1], q) /\ e[2] <= moved[e[1]]
    BY DEF Due
  <2>2. pc[e[1]] = "count_stolen"
    BY <2>1, PlaceNames DEF Removing
  <2>3. moved[e[1]] <= Len(cache[e[1]]) /\ cache[e[1]] \in Seq(Jobs) /\ moved[e[1]] \in Nat
    BY <2>1, <2>2, JobsFinite DEF IInv, ControlInv, ThreadInv, TypeOK
  <2>4. e[2] \in Nat /\ Len(cache[e[1]]) \in Nat
    BY <2>1, <2>3, JobsFinite
  <2> QED  BY <2>1, <2>3, <2>4
<1>6. \A t \in Threads : /\ At(queue, cache, running)[CacheOf(t)] = cache[t]
                         /\ CacheOf(t) \in Places
  BY AtPlaces, PlaceNames
<1>7. /\ Unique(At(queue, cache, running)) /\ q \in Places
      /\ At(queue, cache, running)[q] = queue[q]
  BY <1>1, PlacementInv, AtPlaces, PlaceNames DEF IInv
<1> HIDE DEF q
<1>8. f \in [Due(q) -> Jobs \ R]
  <2> SUFFICES ASSUME NEW e \in Due(q) PROVE cache[e[1]][e[2]] \in Jobs \ R
    OBVIOUS
  <2>1. /\ e[1] \in Threads /\ e[2] \in 1..Len(cache[e[1]]) /\ cache[e[1]] \in Seq(Jobs)
    BY <1>5
  <2>2. cache[e[1]][e[2]] \in Jobs /\ cache[e[1]][e[2]] \in Range(cache[e[1]])
    BY <2>1 DEF Range
  <2>3. CacheOf(e[1]) # q
    BY <2>1, <1>1, PlaceNames
  <2>4. Range(cache[e[1]]) \cap R = {}
    BY <2>1, <2>3, <1>6, <1>7 DEF Unique
  <2> QED  BY <2>2, <2>4
<1>9. \A e, g \in Due(q) : f[e] = f[g] => e = g
  <2> SUFFICES ASSUME NEW e \in Due(q), NEW g \in Due(q), cache[e[1]][e[2]] = cache[g[1]][g[2]]
               PROVE  e = g
    OBVIOUS
  <2>1. /\ e[1] \in Threads /\ e[2] \in 1..Len(cache[e[1]]) /\ cache[e[1]] \in Seq(Jobs)
        /\ g[1] \in Threads /\ g[2] \in 1..Len(cache[g[1]]) /\ cache[g[1]] \in Seq(Jobs)
        /\ e = <<e[1], e[2]>> /\ g = <<g[1], g[2]>>
    BY <1>5
  <2>2. e[1] = g[1]
    <3>1. cache[e[1]][e[2]] \in Range(cache[e[1]]) \cap Range(cache[g[1]])
      BY <2>1 DEF Range
    <3>2. CacheOf(e[1]) = CacheOf(g[1])
      BY <3>1, <2>1, <1>6, <1>7 DEF Unique
    <3> QED  BY <3>2, PlaceNames
  <2>3. IsInjective(cache[e[1]])
    BY <2>1, <1>6, <1>7 DEF Unique
  <2>4. e[2] = g[2]
    BY <2>1, <2>2, <2>3 DEF IsInjective
  <2> QED  BY <2>1, <2>2, <2>4
<1>10. f \in Injection(Due(q), Jobs \ R)
  <2>1. DOMAIN f = Due(q)
    OBVIOUS
  <2> HIDE DEF f
  <2> QED  BY <1>8, <1>9, <2>1 DEF Injection, IsInjective
<1>11. Cardinality(Due(q)) <= Cardinality(Jobs) - Len(queue[q])
  <2> HIDE DEF f, R
  <2>1. Cardinality(Due(q)) <= Cardinality(Jobs \ R)
    BY <1>4, <1>10, FS_Injection
  <2> QED  BY <2>1, <1>4
<1>12. Len(queue[q]) \in Nat /\ Cardinality(Due(q)) \in Nat
  <2>1. Due(q) = Rows(Removers(q), moved)
    BY OwedIsRows
  <2> QED  BY <2>1, <1>2, RowsFinite
<1>13. Len(queue[q]) + Cardinality(Due(q)) <= Cardinality(Jobs)
  BY <1>11, <1>12, JobsFinite
<1> QED  BY <1>13 DEF q

\* A thief that reads a zero count passes over jobs only in the moment in which their
\* owner has put them there and not yet added them.
THEOREM NothingHidden == Spec => []ZeroHidesNothing
<1>1. ASSUME IInv PROVE ZeroHidesNothing
  <2> SUFFICES ASSUME NEW w \in Workers, NEW p \in Priorities,
                      count[Stealable(w, p)] = 0, queue[Stealable(w, p)] # <<>>,
                      ~(pc[w] = "publish" /\ Levels[level[w]] = p)
               PROVE  FALSE
    BY DEF ZeroHidesNothing
  <2> DEFINE q == Stealable(w, p)
  <2>1. q \in Queues /\ queue[q] \in Seq(Jobs)
    BY <1>1, PlaceNames DEF IInv, TypeOK, Contexts
  <2>2. \A t \in Threads : ~Adding(t, q)
    BY PlaceNames DEF Adding
  <2>3. Owed(q) = {}
    BY <2>2 DEF Owed
  <2>4. Cardinality(Owed(q)) = 0
    BY <2>3, FS_EmptySet
  <2>5. Cardinality(Due(q)) \in Nat
    BY OwedIsRows, RowsFinite
  <2>6. Len(queue[q]) + Cardinality(Due(q)) <= Cardinality(Jobs)
    BY <1>1, StolenElsewhere
  <2>7. Len(queue[q]) \in Nat /\ Len(queue[q]) # 0
    BY <2>1, EmptySeq
  <2>8. count[q] = (Len(queue[q]) + Cardinality(Due(q)) - Cardinality(Owed(q))) % (CountMax + 1)
    BY <1>1, <2>1 DEF IInv, CountsExact
  <2> DEFINE n == Len(queue[q]) + Cardinality(Due(q))
  <2>9. n \in 1..CountMax
    BY <2>5, <2>6, <2>7, JobsFinite, QueueSizesAssumption
  <2>10. count[q] = n % (CountMax + 1)
    BY <2>4, <2>5, <2>7, <2>8
  <2> HIDE DEF n
  <2>11. n % (CountMax + 1) = n
    BY <2>9, QueueSizesAssumption
  <2> QED  BY <2>9, <2>10, <2>11
<1> QED  BY <1>1, InductiveInvariant, PTL

\* A priority from which try_pop_bulk took something has the ones before it empty.
LEMMA PopsDrain ==
  ASSUME TypeOK, NEW x \in Contexts, NEW n \in Nat, NEW i \in 1..3, NEW k \in 1..3, k < i,
         Pops(x, n)[i] # 0
  PROVE  Pops(x, n)[k] = Len(Found(x, k))
<1> DEFINE a == Pops(x, n)[1]
           b == Pops(x, n)[2]
           c == Pops(x, n)[3]
           r == Len(Found(x, 1))
           s == Len(Found(x, 2))
           u == Len(Found(x, 3))
<1>1. a = Least(n, r) /\ b = Least(n - a, s) /\ c = Least(n - a - b, u)
  BY PopsType DEF TypeOK
<1>2. r \in Nat /\ s \in Nat /\ u \in Nat
  <2>1. \A m \in 1..3 : Found(x, m) \in Seq(Jobs)
    BY PopsType DEF TypeOK
  <2> QED  BY <2>1
<1>3. (i = 2 /\ k = 1) \/ (i = 3 /\ k = 1) \/ (i = 3 /\ k = 2)
  OBVIOUS
<1>4. /\ i = 2 => b # 0
      /\ i = 3 => c # 0
      /\ (k = 1 /\ a = r) \/ (k = 2 /\ b = s) => Pops(x, n)[k] = Len(Found(x, k))
  OBVIOUS
<1> HIDE DEF a, b, c, r, s, u
<1>5. a \in 0..r /\ (a # r => n - a = 0)
  BY <1>1, <1>2 DEF Least
<1>6. b \in 0..s /\ (b # s => n - a - b = 0) /\ (n - a = 0 => b = 0)
  <2>1. n - a \in Nat
    BY <1>1, <1>2 DEF Least
  <2> QED  BY <2>1, <1>1, <1>2 DEF Least
<1>7. n - a - b = 0 => c = 0
  BY <1>1, <1>2 DEF Least
<1> QED  BY <1>2, <1>3, <1>4, <1>5, <1>6, <1>7

LEMMA RankIs ==
  ASSUME NEW j, NEW i \in 1..3, Urgency[j] = Levels[i]
  PROVE  Rank(j) = i
<1>1. /\ Levels = <<"High", "Normal", "Low">>
      /\ Rank(j) = CHOOSE m \in 1..3 : Levels[m] = Urgency[j]
  BY LevelFacts DEF Rank, Levels
<1>2. \A m \in 1..3 : Levels[m] = Urgency[j] => m = i
  BY LevelFacts
<1> QED  BY <1>1, <1>2

LEMMA UrgentStep ==
  ASSUME IInv, [Next]_vars
  PROVE  \A w \in Workers, p \in Priorities :
           \A k \in Range(queue'[Local(w, p)]), j \in Range(cache'[w]) \ Range(cache[w]) :
             pc[w] \in {"iterate", "pop"} => ~MoreUrgent(k, j)
<1> SUFFICES ASSUME NEW w \in Workers, NEW p \in Priorities,
                    NEW k \in Range(queue'[Local(w, p)]),
                    NEW j \in Range(cache'[w]) \ Range(cache[w]),
                    pc[w] \in {"iterate", "pop"}
             PROVE  ~MoreUrgent(k, j)
  OBVIOUS
<1>1. cache'[w] # cache[w]
  OBVIOUS
<1>2. PICK t \in Threads : Step(t)
  BY <1>1 DEF Next, vars
<1>3. t = w
  BY <1>1, <1>2, OthersKeep DEF IInv, Threads
<1>4. ~Execute(w)
  <2> SUFFICES ASSUME Execute(w) PROVE FALSE
    OBVIOUS
  <2>1. cache[w] \in Seq(Jobs) /\ cache[w] # <<>> /\ cache'[w] = Front(cache[w])
    BY DEF Execute, IInv, TypeOK, Threads
  <2>2. IsInjective(cache[w])
    <3>1. w \in Threads
      BY DEF Threads
    <3>2. CacheOf(w) \in Places /\ At(queue, cache, running)[CacheOf(w)] = cache[w]
      BY <3>1, AtPlaces, PlaceNames
    <3> QED  BY <3>2, PlacementInv DEF IInv, Unique
  <2>3. Range(Front(cache[w])) = Range(cache[w]) \ {Last(cache[w])}
    BY <2>1, <2>2, FrontLast
  <2> QED  BY <2>1, <2>3
<1>5. PopLocal(w)
  <2>1. \/ Submit(w) \/ CountSubmitted(w) \/ Pump(w) \/ Execute(w) \/ EndBody(w)
        \/ BeginMigration(w) \/ Migrate(w) \/ Publish(w) \/ PopLocal(w)
        \/ PickVictim(w) \/ Gate(w) \/ Steal(w) \/ CountStolen(w)
        \/ PopGlobal(w) \/ CountGlobal(w)
    BY <1>2, <1>3 DEF Step
  <2>2. ~Steal(w) /\ ~PopGlobal(w)
    BY DEF Steal, PopGlobal
  <2>3. ~(Submit(w) \/ CountSubmitted(w) \/ Pump(w) \/ EndBody(w) \/ BeginMigration(w)
          \/ Migrate(w) \/ Publish(w) \/ PickVictim(w) \/ Gate(w) \/ CountStolen(w)
          \/ CountGlobal(w))
    BY <1>1 DEF Submit, CountSubmitted, Pump, EndBody, BeginMigration, Migrate, Publish,
                PickVictim, Gate, CountStolen, CountGlobal
  <2> QED  BY <2>1, <2>2, <2>3, <1>4
<1> DEFINE m == LevelOf(p)
           n(i) == Pops(w, CacheSize)[i]
<1>6. w \in Contexts /\ w \in Threads /\ CacheSize \in Nat /\ queue \in [Queues -> Seq(Jobs)]
  BY QueueSizesAssumption DEF Contexts, Threads, IInv, TypeOK
<1>7. m \in 1..3 /\ Levels[m] = p
  BY LevelFacts
<1>8. \A i \in 1..3 : /\ Found(w, i) \in Seq(Jobs) /\ n(i) \in 0..Len(Found(w, i)) /\ n(i) \in Nat
                      /\ Local(w, Levels[i]) \in Queues /\ Found(w, i) = queue[Local(w, Levels[i])]
  <2> TAKE i \in 1..3
  <2>1. Found(w, i) \in Seq(Jobs) /\ n(i) \in 0..Len(Found(w, i))
    BY <1>6, PopsType
  <2>2. Local(w, Levels[i]) \in Queues
    BY <1>6, LevelFacts, PlaceNames
  <2> QED  BY <2>1, <2>2 DEF Found
<1>9. PICK i \in 1..3 : j \in Range(Taken(Found(w, i), n(i)))
  <2>1. cache'[w] = PopBulk(w, CacheSize)
    BY <1>5, <1>6 DEF PopLocal, IInv, TypeOK
  <2>2. Range(PopBulk(w, CacheSize)) \subseteq
          UNION {Range(Taken(Found(w, l), Pops(w, CacheSize)[l])) : l \in 1..3}
    BY <1>6, PopBulkType
  <2> QED  BY <2>1, <2>2
<1>10. k \in Range(Left(Found(w, m), n(m)))
  <2>1. /\ Local(w, p) \in Queues /\ Local(w, p)[1] = "local" /\ Local(w, p)[2] = w
        /\ Local(w, p)[3] = p
    BY <1>6, PlaceNames DEF Local
  <2>2. queue'[Local(w, p)] = Left(queue[Local(w, p)], Popped(w, CacheSize, p))
    BY <2>1, <1>5 DEF PopLocal
  <2>3. queue[Local(w, p)] = Found(w, m) /\ Popped(w, CacheSize, p) = n(m)
    BY <1>7 DEF Found, Popped
  <2> QED  BY <2>2, <2>3
<1>11. n(i) # 0
  <2> SUFFICES ASSUME n(i) = 0 PROVE FALSE
    OBVIOUS
  <2>1. Least(0, Len(Found(w, i))) = 0
    BY <1>8 DEF Least
  <2>2. Taken(Found(w, i), 0) \in Seq(Jobs) /\ Len(Taken(Found(w, i), 0)) = 0
    BY <2>1, <1>8, TakenLength
  <2>3. Range(Taken(Found(w, i), 0)) = {}
    BY <2>2 DEF Range
  <2> QED  BY <2>3, <1>9
<1>12. ~(m < i)
  <2> SUFFICES ASSUME m < i PROVE FALSE
    OBVIOUS
  <2>1. n(m) = Len(Found(w, m))
    BY <1>6, <1>7, <1>11, PopsDrain DEF IInv
  <2>2. Least(n(m), Len(Found(w, m))) = n(m)
    BY <2>1 DEF Least
  <2>3. Left(Found(w, m), n(m)) \in Seq(Jobs) /\ Len(Left(Found(w, m), n(m))) = 0
    <3>1. /\ Left(Found(w, m), n(m)) \in Seq(Jobs)
          /\ Len(Left(Found(w, m), n(m))) = Len(Found(w, m)) - Least(n(m), Len(Found(w, m)))
      BY <1>7, <1>8, TakenLength
    <3> QED  BY <3>1, <2>1, <2>2, <1>7, <1>8
  <2>4. Range(Left(Found(w, m), n(m))) = {}
    BY <2>3 DEF Range
  <2> QED  BY <2>4, <1>10
<1>13. Urgency[j] = Levels[i] /\ Urgency[k] = Levels[m]
  <2>1. \A l \in 1..3 : \A z \in Range(Found(w, l)) : Urgency[z] = Levels[l]
    <3> TAKE l \in 1..3
    <3>1. Local(w, Levels[l])[3] = Levels[l]
      BY DEF Local
    <3> QED  BY <3>1, <1>8 DEF IInv, Sorted
  <2>2. \A l \in 1..3 : /\ Range(Taken(Found(w, l), n(l))) \subseteq Range(Found(w, l))
                        /\ Range(Left(Found(w, l), n(l))) \subseteq Range(Found(w, l))
    <3> TAKE l \in 1..3
    <3>1. Local(w, Levels[l]) \in Queues /\ n(l) \in Nat /\ Found(w, l) = queue[Local(w, Levels[l])]
      BY <1>8
    <3> QED  BY <3>1, PartsOfQueue DEF IInv
  <2> QED  BY <2>1, <2>2, <1>7, <1>9, <1>10
<1>14. Rank(j) = i /\ Rank(k) = m
  BY <1>7, <1>13, RankIs
<1> QED  BY <1>12, <1>14 DEF MoreUrgent

\* A worker never takes a job and leaves a more urgent one behind in its own queues.
THEOREM MostUrgentFirst == Spec => UrgentFirst
<1>1. IInv /\ [Next]_vars =>
        [\A w \in Workers, p \in Priorities :
           \A k \in Range(queue'[Local(w, p)]), j \in Range(cache'[w]) \ Range(cache[w]) :
             pc[w] \in {"iterate", "pop"} => ~MoreUrgent(k, j)]_vars
  BY UrgentStep
<1> QED  BY <1>1, InductiveInvariant, PTL DEF Spec, UrgentFirst

=============================================================================
