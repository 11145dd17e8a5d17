--------------------------- MODULE SceneEditorProofs ---------------------------
(***************************************************************************)
(* What holds of the hierarchy of entities and of the editor for every set *)
(* of entities, every loaded scene and every size of the undo ring, proved *)
(* for games that do not destroy an entity that still has children.        *)
(*                                                                         *)
(* The definitions of the model are recursive functions.  The first part   *)
(* is about those: induction over numbers, and what a function is that is  *)
(* defined by iteration.                                                   *)
(***************************************************************************)
EXTENDS SceneEditor, SequenceTheorems, FiniteSetTheorems, FunctionTheorems, TLAPS


-----------------------------------------------------------------------------
(* Induction and iteration *)

LEMMA LeastElement ==
  ASSUME NEW T \in SUBSET Nat, T # {}
  PROVE  \E n \in T : \A m \in T : n <= m
<1> DEFINE U == {1..n : n \in T}
<1>1. U \subseteq FiniteSubsetsOf(Nat) /\ U # {}
  <2>1. \A n \in T : IsFiniteSet(1..n) /\ 1..n \in SUBSET Nat
    BY FS_Interval
  <2>2. U # {}
    OBVIOUS
  <2>3. ASSUME NEW u \in U
        PROVE  u \in FiniteSubsetsOf(Nat)
    <3>1. PICK n \in T : u = 1..n
      OBVIOUS
    <3> QED  BY <3>1, <2>1 DEF FiniteSubsetsOf
  <2> QED  BY <2>2, <2>3
<1>2. IsWellFoundedOn(StrictSubsetOrdering(Nat), FiniteSubsetsOf(Nat))
  BY FS_StrictSubsetOrderingWellFounded
<1> HIDE DEF U
<1>3. PICK x \in U : \A y \in U : ~ (<<y, x>> \in StrictSubsetOrdering(Nat))
  BY <1>1, <1>2, WFMin
<1>4. PICK n \in T : x = 1..n
  BY <1>3 DEF U
<1>5. ASSUME NEW m \in T, m < n
      PROVE  FALSE
  <2>1. 1..m \in U
    BY DEF U
  <2>2. /\ 1..m \subseteq 1..n /\ 1..m # 1..n
        /\ 1..m \in SUBSET Nat /\ 1..n \in SUBSET Nat
    BY <1>5
  <2> QED  BY <1>3, <1>4, <2>1, <2>2 DEF StrictSubsetOrdering
<1> QED  BY <1>5

LEMMA Induction ==
  ASSUME NEW n \in Nat, NEW T, 0 \in T, \A i \in 1..n : i - 1 \in T => i \in T
  PROVE  \A i \in 0..n : i \in T
<1> DEFINE U == (0..n) \ T
<1> SUFFICES ASSUME U # {} PROVE FALSE
  OBVIOUS
<1>1. U \in SUBSET Nat
  OBVIOUS
<1>2. PICK k \in U : \A m \in U : k <= m
  BY <1>1, LeastElement
<1>3. k \in 1..n /\ k - 1 \in 0..n
  BY <1>2
<1>4. k - 1 \in T
  BY <1>2, <1>3
<1> QED  BY <1>2, <1>3, <1>4

\* f is what the first n steps make of b.
StaysIn(V, step, n) == \A i \in 1..n : \A v \in V : step[i][v] \in V
Follows(f, b, step, n) == f[0] = b /\ \A i \in 1..n : f[i] = step[i][f[i - 1]]

LEMMA Iteration ==
  ASSUME NEW n \in Nat, NEW V, NEW b \in V, NEW step, StaysIn(V, step, n)
  PROVE  \E f \in [0..n -> V] : Follows(f, b, step, n)
<1> DEFINE Good(k, f) == f[0] = b /\ \A i \in 1..k : f[i] = step[i][f[i - 1]]
           T == {k \in 0..n : \E f \in [0..k -> V] : Good(k, f)}
<1>1. 0 \in T
  <2> DEFINE g == [i \in 0..0 |-> b]
  <2>1. g \in [0..0 -> V] /\ g[0] = b /\ 0 \in 0..n
    OBVIOUS
  <2>2. \A i \in 1..0 : g[i] = step[i][g[i - 1]]
    OBVIOUS
  <2> HIDE DEF g
  <2> QED  BY <2>1, <2>2
<1>2. ASSUME NEW k \in 1..n, k - 1 \in T
      PROVE  k \in T
  <2>1. PICK f \in [0..k - 1 -> V] : Good(k - 1, f)
    BY <1>2
  <2> DEFINE g == [i \in 0..k |-> IF i = k THEN step[k][f[k - 1]] ELSE f[i]]
  <2>2. step[k][f[k - 1]] \in V
    BY DEF StaysIn
  <2>3. g \in [0..k -> V]
    BY <2>2
  <2>4. g[0] = b
    BY <2>1
  <2>5. ASSUME NEW i \in 1..k
        PROVE  g[i] = step[i][g[i - 1]]
    <3>1. i - 1 \in 0..k /\ i - 1 # k /\ g[i - 1] = f[i - 1]
      OBVIOUS
    <3>2. CASE i = k
      BY <3>1, <3>2
    <3>3. CASE i # k
      <4>1. i \in 1..k - 1
        BY <3>3
      <4>2. f[i] = step[i][f[i - 1]]
        BY <4>1, <2>1
      <4> QED  BY <3>1, <3>3, <4>2
    <3> QED  BY <3>2, <3>3
  <2> HIDE DEF g
  <2>6. Good(k, g)
    BY <2>4, <2>5, Zenon
  <2>7. k \in 0..n
    OBVIOUS
  <2> QED  BY <2>3, <2>6, <2>7
<1> HIDE DEF T
<1>3. n \in T
  <2>1. \A k \in 1..n : k - 1 \in T => k \in T
    BY <1>2
  <2>2. \A k \in 0..n : k \in T
    BY <1>1, <2>1, Induction, Zenon
  <2> QED  BY <2>2
<1> QED  BY <1>3 DEF T, Follows

-----------------------------------------------------------------------------
(* Sequences *)

\* The entry of a list, or null beyond its ends.
Entry(s, i) == IF i \in 1..Len(s) THEN s[i] ELSE Null

\* A list without its k-th entry: the i-th entry left was the i-th or the one after.
Skip(i, k) == IF i < k THEN i ELSE i + 1
Without(s, k) == [i \in 1..(Len(s) - 1) |-> s[Skip(i, k)]]

LEMMA EntryOf ==
  ASSUME NEW S, NEW s \in Seq(S), NEW i \in Int
  PROVE  /\ i \in 1..Len(s) => Entry(s, i) = s[i] /\ s[i] \in S
         /\ i \notin 1..Len(s) => Entry(s, i) = Null
BY DEF Entry

LEMMA SameSequence ==
  ASSUME NEW S, NEW s \in Seq(S), NEW u \in Seq(S), Len(s) = Len(u),
         \A i \in 1..Len(s) : s[i] = u[i]
  PROVE  s = u
OBVIOUS

\* A list without repetitions is no longer than the set its elements are from.
LEMMA DistinctLength ==
  ASSUME NEW S, IsFiniteSet(S), NEW s \in Seq(S), IsInjective(s)
  PROVE  Len(s) <= Cardinality(S)
<1>1. /\ s \in [1..Len(s) -> S] /\ Len(s) \in Nat
      /\ \A i, k \in 1..Len(s) : s[i] = s[k] => i = k
  BY DEF IsInjective
<1>2. IsFiniteSet(1..Len(s)) /\ Cardinality(1..Len(s)) = Len(s)
  <2>1. \A n \in Nat : IsFiniteSet(1..n) /\ Cardinality(1..n) = n
    BY FS_Interval
  <2> QED  BY <2>1, <1>1
<1>3. s \in Injection(1..Len(s), S)
  BY <1>1, Fun_IsInj
<1> QED  BY <1>2, <1>3, FS_Injection DEF ExistsInjection

LEMMA FrontIs ==
  ASSUME NEW S, NEW p \in Seq(S), p # <<>>
  PROVE  /\ Len(p) # 0 /\ Front(p) \in Seq(S) /\ Len(Front(p)) = Len(p) - 1
         /\ \A k \in 1..(Len(p) - 1) : Front(p)[k] = p[k]
<1>1. Len(p) \in Nat /\ Len(p) # 0
  BY EmptySeq
<1>2. Front(p) = [k \in 1..(Len(p) - 1) |-> p[k]]
  BY <1>1 DEF Front
<1>3. [k \in 1..(Len(p) - 1) |-> p[k]] \in Seq(S)
  <2>1. \A k \in 1..(Len(p) - 1) : p[k] \in S
    BY <1>1
  <2> QED  BY <1>1, <2>1, IsASeq
<1>4. Len(p) - 1 \in Nat /\ DOMAIN Front(p) = 1..(Len(p) - 1)
  BY <1>1, <1>2
<1>5. Len(Front(p)) = Len(p) - 1
  BY <1>2, <1>4
<1> QED  BY <1>1, <1>2, <1>3, <1>5

-----------------------------------------------------------------------------
(* Walks *)

N == Cardinality(All)
Handles == All \cup {Null, Dead}

LEMMA Names ==
  /\ Scene \in All /\ Scene \notin Entities /\ Entities \subseteq All
  /\ Null \notin All /\ Dead \notin All /\ Null # Dead
  /\ IsFiniteSet(All) /\ N \in Nat \ {0} /\ N = Cardinality(Entities) + 1
<1>1. /\ Scene \in All /\ Scene \notin Entities /\ Entities \subseteq All
      /\ Null \notin All /\ Dead \notin All /\ Null # Dead
  BY HierarchyAssumption DEF All
<1>2. IsFiniteSet(All) /\ N = Cardinality(Entities) + 1
  BY <1>1, HierarchyAssumption, FS_AddElement DEF All, N
<1>3. Cardinality(Entities) \in Nat
  BY HierarchyAssumption, FS_CardinalityType
<1> QED  BY <1>1, <1>2, <1>3

LEMMA WalkAt ==
  ASSUME NEW succ \in [All -> Handles], NEW e \in Handles
  PROVE  \E at \in [1..N -> Handles] :
           /\ at[1] = e
           /\ \A i \in 2..N : at[i] = IF at[i - 1] \in All THEN succ[at[i - 1]] ELSE Null
           /\ Walk(e, succ) = SubSeq(at, 1, Cardinality({i \in 1..N : at[i] \in All}))
<1> DEFINE step == [i \in 1..N |-> [h \in Handles |-> IF h \in All THEN succ[h] ELSE Null]]
           Is(g) == g = [i \in 1..N |-> IF i = 1 THEN e
                                        ELSE IF g[i - 1] \in All THEN succ[g[i - 1]] ELSE Null]
<1>1. StaysIn(Handles, step, N)
  BY DEF Handles, StaysIn
<1>2. PICK f \in [0..N -> Handles] : f[0] = e /\ \A i \in 1..N : f[i] = step[i][f[i - 1]]
  <2> HIDE DEF step
  <2>1. N \in Nat
    BY Names
  <2>2. \E f \in [0..N -> Handles] : Follows(f, e, step, N)
    BY <1>1, <2>1, Iteration
  <2> QED  BY <2>2 DEF Follows
<1> DEFINE g == [i \in 1..N |-> f[i - 1]]
<1>3. g \in [1..N -> Handles]
  BY <1>2, Names
<1>4. Is(g)
  <2>1. ASSUME NEW i \in 1..N, i # 1
        PROVE  g[i] = IF g[i - 1] \in All THEN succ[g[i - 1]] ELSE Null
    <3>1. i - 1 \in 1..N /\ i - 2 \in 0..N /\ (i - 1) - 1 = i - 2
      BY <2>1, Names
    <3>2. g[i] = f[i - 1] /\ g[i - 1] = f[i - 2]
      BY <3>1
    <3>3. f[i - 1] = step[i - 1][f[i - 2]]
      BY <3>1, <1>2
    <3>4. f[i - 2] \in Handles
      BY <3>1
    <3> QED  BY <3>1, <3>2, <3>3, <3>4
  <2>2. g[1] = e
    BY <1>2, Names
  <2>3. \A i \in 1..N : g[i] = IF i = 1 THEN e
                               ELSE IF g[i - 1] \in All THEN succ[g[i - 1]] ELSE Null
    BY <2>1, <2>2
  <2> HIDE DEF g
  <2> QED  BY <2>3, <1>3
<1> HIDE DEF g, step
<1> DEFINE at == CHOOSE h : Is(h)
<1>5. Is(at)
  BY <1>4
<1>6. Walk(e, succ) = SubSeq(at, 1, Cardinality({i \in DOMAIN at : at[i] \in All}))
  BY DEF Walk, N
<1> HIDE DEF at
<1>7. /\ DOMAIN at = 1..N /\ at[1] = e
      /\ \A i \in 2..N : at[i] = IF at[i - 1] \in All THEN succ[at[i - 1]] ELSE Null
  BY <1>5, Names
<1>8. \A i \in 1..N : at[i] \in Handles
  <2> SUFFICES ASSUME NEW i \in 1..N
               PROVE  at[i] \in Handles
    OBVIOUS
  <2>1. CASE i = 1
    BY <2>1, <1>7
  <2>2. CASE i # 1 /\ at[i - 1] \in All
    BY <2>2, <1>7
  <2>3. CASE i # 1 /\ at[i - 1] \notin All
    BY <2>3, <1>7 DEF Handles
  <2> QED  BY <2>1, <2>2, <2>3
<1>9. at \in [1..N -> Handles]
  BY <1>5, <1>8
<1> QED  BY <1>6, <1>7, <1>9

\* The elements of a walk are entities, each follows the one before it, and it ends
\* where there is no next one, or after as many steps as there are entities.
LEMMA WalkIs ==
  ASSUME NEW succ \in [All -> Handles], NEW e \in Handles
  PROVE  /\ Walk(e, succ) \in Seq(All) /\ Len(Walk(e, succ)) <= N
         /\ e \in All => Len(Walk(e, succ)) > 0 /\ Walk(e, succ)[1] = e
         /\ e \notin All => Walk(e, succ) = <<>>
         /\ \A i \in 1..(Len(Walk(e, succ)) - 1) :
              Walk(e, succ)[i + 1] = succ[Walk(e, succ)[i]]
         /\ \A i \in 1..Len(Walk(e, succ)) :
              i = Len(Walk(e, succ)) /\ i < N => succ[Walk(e, succ)[i]] \notin All
<1>1. PICK at \in [1..N -> Handles] :
           /\ at[1] = e
           /\ \A i \in 2..N : at[i] = IF at[i - 1] \in All THEN succ[at[i - 1]] ELSE Null
           /\ Walk(e, succ) = SubSeq(at, 1, Cardinality({i \in 1..N : at[i] \in All}))
  BY WalkAt
<1> DEFINE gone == {i \in 1..(N + 1) : i = N + 1 \/ at[i] \notin All}
<1>2. PICK m \in gone : \A i \in gone : m <= i
  <2>1. gone \in SUBSET Nat /\ gone # {}
    BY Names
  <2> HIDE DEF gone
  <2> QED  BY <2>1, LeastElement
<1>3. m \in 1..(N + 1) /\ \A i \in 1..(m - 1) : at[i] \in All
  BY <1>2, Names
<1>4. \A i \in 0..N : i >= m => at[i] \notin All
  <2> DEFINE T == {i \in 0..N : i >= m => at[i] \notin All}
  <2>1. 0 \in T
    BY <1>3, Names
  <2>2. ASSUME NEW i \in 1..N, i - 1 \in T
        PROVE  i \in T
    <3>1. CASE i < m
      BY <3>1, <1>3
    <3>2. CASE i = m
      BY <3>2, <1>2, Names
    <3>3. CASE i > m
      <4>1. i \in 2..N /\ at[i - 1] \notin All
        BY <3>3, <2>2, <1>3
      <4> QED  BY <4>1, <1>1, Names
    <3> QED  BY <3>1, <3>2, <3>3, <1>3
  <2> HIDE DEF T
  <2>3. \A i \in 1..N : i - 1 \in T => i \in T
    BY <2>2
  <2>4. \A i \in 0..N : i \in T
    BY <2>1, <2>3, Names, Induction, Zenon
  <2> QED  BY <2>4 DEF T
<1>5. {i \in 1..N : at[i] \in All} = 1..(m - 1)
  BY <1>3, <1>4, Names
<1>6. Cardinality(1..(m - 1)) = m - 1
  BY <1>3, FS_Interval
<1> DEFINE w == Walk(e, succ)
<1>7. w = SubSeq(at, 1, m - 1)
  BY <1>1, <1>5, <1>6
<1> HIDE DEF w, gone
<1>8. /\ w \in Seq(All) /\ Len(w) = m - 1
      /\ \A i \in 1..(m - 1) : w[i] = at[i]
  <2>1. SubSeq(at, 1, m - 1) = [i \in 1..(m - 1) |-> at[i]]
    BY <1>3, Names
  <2>2. [i \in 1..(m - 1) |-> at[i]] \in Seq(All) /\ Len([i \in 1..(m - 1) |-> at[i]]) = m - 1
    <3>1. m - 1 \in Nat
      BY <1>3
    <3> QED  BY <1>3, <3>1, IsASeq
  <2> QED  BY <2>1, <2>2, <1>7
<1>9. e \in All => m > 1
  BY <1>1, <1>2, <1>3, Names DEF gone
<1>10. e \notin All => m = 1
  BY <1>1, <1>2, <1>3, Names DEF gone
<1>11. \A i \in 1..(m - 2) : w[i + 1] = succ[w[i]]
  <2> SUFFICES ASSUME NEW i \in 1..(m - 2) PROVE w[i + 1] = succ[w[i]]
    OBVIOUS
  <2>1. i \in 1..(m - 1) /\ i + 1 \in 1..(m - 1) /\ i + 1 \in 2..N
    BY <1>3, Names
  <2>2. at[i + 1] = succ[at[i]]
    BY <2>1, <1>1, <1>3
  <2> QED  BY <2>1, <2>2, <1>8
<1>12. ASSUME NEW i \in 1..(m - 1), i = m - 1, i < N
       PROVE  succ[w[i]] \notin All
  <2>1. m \in 2..N /\ at[m] \notin All /\ at[m - 1] \in All
    BY <1>12, <1>3, <1>4, Names
  <2>2. at[m] = succ[at[m - 1]]
    BY <2>1, <1>1
  <2> QED  BY <2>1, <2>2, <1>8, <1>12
<1>13. m - 1 <= N /\ (e \in All => w[1] = e) /\ (e \notin All => w = <<>>)
  <2>1. m - 1 <= N
    BY <1>3, Names
  <2>2. e \in All => w[1] = e
    BY <1>3, <1>8, <1>9, <1>1
  <2>3. e \notin All => w = <<>>
    BY <1>8, <1>10, EmptySeq
  <2> QED  BY <2>1, <2>2, <2>3
<1>14. /\ w \in Seq(All) /\ Len(w) <= N
       /\ e \in All => Len(w) > 0 /\ w[1] = e
       /\ e \notin All => w = <<>>
  BY <1>3, <1>8, <1>9, <1>13
<1>15. \A i \in 1..(Len(w) - 1) : w[i + 1] = succ[w[i]]
  BY <1>3, <1>8, <1>11
<1>16. \A i \in 1..Len(w) : i = Len(w) /\ i < N => succ[w[i]] \notin All
  BY <1>3, <1>8, <1>12
<1> QED  BY <1>14, <1>15, <1>16 DEF w

\* A list of distinct entities that follow one another is what a walk finds.
LEMMA WalkOf ==
  ASSUME NEW succ \in [All -> Handles], NEW s \in Seq(All), IsInjective(s),
         \A i \in 1..Len(s) : succ[s[i]] = Entry(s, i + 1)
  PROVE  Walk(Entry(s, 1), succ) = s
<1> DEFINE w == Walk(Entry(s, 1), succ)
           n == Len(s)
<1>1. n \in Nat /\ n <= N
  BY Names, DistinctLength DEF N
<1>2. Entry(s, 1) \in Handles /\ (n > 0 => Entry(s, 1) = s[1] /\ s[1] \in All)
      /\ (n = 0 => Entry(s, 1) = Null)
  BY <1>1 DEF Entry, Handles
<1>3. /\ w \in Seq(All) /\ Len(w) <= N
      /\ n > 0 => Len(w) > 0 /\ w[1] = s[1]
      /\ n = 0 => w = <<>>
      /\ \A i \in 1..(Len(w) - 1) : w[i + 1] = succ[w[i]]
      /\ \A i \in 1..Len(w) : i = Len(w) /\ i < N => succ[w[i]] \notin All
  BY <1>2, WalkIs, Names
<1> HIDE DEF w
<1>4. Len(w) \in Nat
  BY <1>3
<1>5. \A i \in 0..n : i = 0 \/ (i <= Len(w) /\ w[i] = s[i])
  <2> DEFINE T == {i \in 0..n : i = 0 \/ (i <= Len(w) /\ w[i] = s[i])}
  <2>1. 0 \in T
    BY <1>1
  <2>2. ASSUME NEW i \in 1..n, i - 1 \in T
        PROVE  i \in T
    <3>1. CASE i = 1
      BY <3>1, <1>1, <1>3, <1>4
    <3>2. CASE i # 1
      <4>1. i - 1 \in 1..n /\ i - 1 <= Len(w) /\ w[i - 1] = s[i - 1] /\ (i - 1) + 1 = i
        BY <3>2, <2>2
      <4>2. succ[s[i - 1]] = s[i] /\ s[i] \in All
        BY <4>1 DEF Entry
      <4>3. i - 1 < N
        BY <1>1, Names
      <4>4. i - 1 # Len(w)
        BY <4>1, <4>2, <4>3, <1>3, <1>4
      <4>5. i - 1 \in 1..(Len(w) - 1)
        BY <4>1, <4>4, <1>4
      <4>6. w[i] = succ[w[i - 1]]
        BY <4>1, <4>5, <1>3
      <4> QED  BY <4>1, <4>2, <4>5, <4>6, <1>4
    <3> QED  BY <3>1, <3>2
  <2> HIDE DEF T
  <2>3. \A i \in 1..n : i - 1 \in T => i \in T
    BY <2>2
  <2>4. \A i \in 0..n : i \in T
    BY <2>1, <2>3, <1>1, Induction, Zenon
  <2> QED  BY <2>4 DEF T
<1>6. Len(w) = n
  <2>1. CASE n = 0
    BY <2>1, <1>3
  <2>2. CASE n # 0
    <3>1. n \in 1..n /\ n <= Len(w) /\ w[n] = s[n]
      BY <2>2, <1>1, <1>5
    <3>2. succ[s[n]] = Null
      BY <3>1, <1>1 DEF Entry
    <3>3. n \notin 1..(Len(w) - 1)
      <4> SUFFICES ASSUME n \in 1..(Len(w) - 1) PROVE FALSE
        OBVIOUS
      <4>1. w[n + 1] = Null /\ n + 1 \in 1..Len(w)
        BY <3>1, <3>2, <1>3, <1>4
      <4> QED  BY <4>1, <1>3, Names
    <3> QED  BY <3>1, <3>3, <1>1, <1>4
  <2> QED  BY <2>1, <2>2
<1>7. \A i \in 1..n : w[i] = s[i]
  BY <1>5, <1>1
<1> QED  BY <1>3, <1>6, <1>7, SameSequence DEF w

-----------------------------------------------------------------------------
(* Sibling lists *)

\* The components r say that L[p] are the children of p: p counts them and points at
\* the first, each points at its parent and at the ones before and after it, and who is
\* in no list has no parent and no siblings.
Linked(r, L) ==
  /\ r \in [All -> Relationship] /\ L \in [All -> Seq(All)]
  /\ r[Scene].parent = Null
  /\ \A p \in All : /\ IsInjective(L[p])
                    /\ r[p].children = Len(L[p]) /\ r[p].first = Entry(L[p], 1)
  /\ \A p \in All : \A i \in 1..Len(L[p]) :
       LET c == L[p][i] IN
       r[c].parent = p /\ r[c].prev = Entry(L[p], i - 1) /\ r[c].next = Entry(L[p], i + 1)
  /\ \A c \in All :
       \/ r[c].parent = Null /\ r[c].prev = Null /\ r[c].next = Null
       \/ r[c].parent \in All /\ \E i \in 1..Len(L[r[c].parent]) : L[r[c].parent][i] = c

LEMMA EntryType ==
  ASSUME NEW s \in Seq(All), NEW i \in Int
  PROVE  Entry(s, i) \in All \cup {Null} /\ Entry(s, i) \in Handles
BY DEF Entry, Handles

LEMMA ChainIs ==
  ASSUME NEW r \in [All -> Relationship], NEW s \in Seq(All), IsInjective(s),
         \A i \in 1..Len(s) : r[s[i]].next = Entry(s, i + 1)
  PROVE  Chain(r, Entry(s, 1)) = s
<1> DEFINE succ == [x \in All |-> r[x].next]
<1>1. succ \in [All -> Handles]
  BY DEF Relationship, Handles
<1>2. \A i \in 1..Len(s) : succ[s[i]] = Entry(s, i + 1)
  OBVIOUS
<1> HIDE DEF succ
<1>3. Walk(Entry(s, 1), succ) = s
  BY <1>1, <1>2, WalkOf
<1> QED  BY <1>3 DEF Chain, succ

LEMMA KidsAre ==
  ASSUME NEW r, NEW L, Linked(r, L), NEW p \in All
  PROVE  Kids(r, p) = L[p]
<1>1. /\ L[p] \in Seq(All) /\ IsInjective(L[p]) /\ r \in [All -> Relationship]
      /\ r[p].children = Len(L[p]) /\ r[p].first = Entry(L[p], 1)
      /\ \A i \in 1..Len(L[p]) : r[L[p][i]].next = Entry(L[p], i + 1)
  BY DEF Linked
<1>2. Chain(r, r[p].first) = L[p]
  BY <1>1, ChainIs
<1>3. CASE r[p].children = 0
  BY <1>1, <1>3, EmptySeq DEF Kids
<1>4. CASE r[p].children # 0
  BY <1>2, <1>4 DEF Kids
<1> QED  BY <1>3, <1>4

\* What remove_child makes of the components r, field by field.
Unlinked(u, r, p, c) ==
  /\ u \in [All -> Relationship]
  /\ \A x \in All :
       /\ u[x].parent = IF x = c THEN Null ELSE r[x].parent
       /\ u[x].prev = IF x = c THEN Null
                      ELSE IF x = r[c].next THEN r[c].prev ELSE r[x].prev
       /\ u[x].next = IF x = c THEN Null
                      ELSE IF x = r[c].prev THEN r[c].next ELSE r[x].next
       /\ u[x].first = IF x = p /\ r[c].prev = Null THEN r[c].next ELSE r[x].first
       /\ u[x].children = IF x = p THEN r[x].children - 1 ELSE r[x].children

LEMMA UnlinkFields ==
  ASSUME NEW r \in [All -> Relationship], NEW p \in All, NEW c \in All,
         r[c].prev \in All \cup {Null}, r[c].next \in All \cup {Null},
         r[p].children > 0
  PROVE  Unlinked(Unlink(r, p, c), r, p, c)
<1> DEFINE prev == r[c].prev
           next == r[c].next
           r1 == IF prev # Null THEN [r EXCEPT ![prev].next = next] ELSE [r EXCEPT ![p].first = next]
           r2 == IF next # Null THEN [r1 EXCEPT ![next].prev = prev] ELSE r1
           u == [r2 EXCEPT ![c].prev = Null, ![c].next = Null, ![c].parent = Null,
                           ![p].children = @ - 1]
<1>1. Unlink(r, p, c) = u
  BY DEF Unlink
<1>2. prev \in All \cup {Null} /\ next \in All \cup {Null}
      /\ prev \in All \cup {Null, Dead} /\ next \in All \cup {Null, Dead}
  OBVIOUS
<1> HIDE DEF prev, next
<1>3. /\ r1 \in [All -> Relationship]
      /\ \A x \in All :
           /\ r1[x].parent = r[x].parent /\ r1[x].prev = r[x].prev
           /\ r1[x].next = IF x = prev THEN next ELSE r[x].next
           /\ r1[x].first = IF x = p /\ prev = Null THEN next ELSE r[x].first
           /\ r1[x].children = r[x].children
  <2>1. CASE prev = Null
    <3>1. r1 = [r EXCEPT ![p].first = next]
      BY <2>1
    <3> QED  BY <1>2, <2>1, <3>1, Names DEF Relationship
  <2>2. CASE prev # Null
    <3>1. r1 = [r EXCEPT ![prev].next = next] /\ prev \in All
      BY <1>2, <2>2
    <3> QED  BY <1>2, <2>2, <3>1, Names DEF Relationship
  <2> QED  BY <2>1, <2>2
<1> HIDE DEF r1
<1>4. /\ r2 \in [All -> Relationship]
      /\ \A x \in All :
           /\ r2[x].parent = r1[x].parent /\ r2[x].next = r1[x].next
           /\ r2[x].first = r1[x].first /\ r2[x].children = r1[x].children
           /\ r2[x].prev = IF x = next THEN prev ELSE r1[x].prev
  <2>1. CASE next = Null
    BY <1>2, <1>3, <2>1, Names
  <2>2. CASE next # Null
    <3>1. r2 = [r1 EXCEPT ![next].prev = prev] /\ next \in All
      BY <1>2, <2>2
    <3> QED  BY <1>2, <1>3, <2>2, <3>1, Names DEF Relationship
  <2> QED  BY <2>1, <2>2
<1> HIDE DEF r2
<1> DEFINE r3 == [r2 EXCEPT ![c].prev = Null, ![c].next = Null, ![c].parent = Null]
<1>5. /\ r3 \in [All -> Relationship]
      /\ \A x \in All :
           /\ r3[x].parent = IF x = c THEN Null ELSE r2[x].parent
           /\ r3[x].prev = IF x = c THEN Null ELSE r2[x].prev
           /\ r3[x].next = IF x = c THEN Null ELSE r2[x].next
           /\ r3[x].first = r2[x].first /\ r3[x].children = r2[x].children
  <2> DEFINE q1 == [r2 EXCEPT ![c].prev = Null]
             q2 == [q1 EXCEPT ![c].next = Null]
  <2>1. /\ q1 \in [All -> Relationship]
        /\ \A x \in All :
             /\ q1[x].parent = r2[x].parent /\ q1[x].next = r2[x].next
             /\ q1[x].prev = IF x = c THEN Null ELSE r2[x].prev
             /\ q1[x].first = r2[x].first /\ q1[x].children = r2[x].children
    BY <1>4 DEF Relationship
  <2> HIDE DEF q1
  <2>2. /\ q2 \in [All -> Relationship]
        /\ \A x \in All :
             /\ q2[x].parent = r2[x].parent
             /\ q2[x].next = IF x = c THEN Null ELSE r2[x].next
             /\ q2[x].prev = IF x = c THEN Null ELSE r2[x].prev
             /\ q2[x].first = r2[x].first /\ q2[x].children = r2[x].children
    BY <2>1 DEF Relationship
  <2>3. r3 = [q2 EXCEPT ![c].parent = Null]
    BY DEF q1
  <2> HIDE DEF q2, r3
  <2> QED  BY <2>2, <2>3 DEF Relationship
<1>6. u = [r3 EXCEPT ![p].children = @ - 1]
  OBVIOUS
<1> HIDE DEF r3, u
<1>7. r3[p].children - 1 \in 0..N
  <2>1. r3[p].children = r[p].children
    BY <1>3, <1>4, <1>5
  <2>2. r[p].children \in 0..N
    BY DEF Relationship, N
  <2> QED  BY <2>1, <2>2, Names
<1>8. /\ u \in [All -> Relationship]
      /\ \A x \in All :
           /\ u[x].parent = r3[x].parent /\ u[x].next = r3[x].next
           /\ u[x].first = r3[x].first /\ u[x].prev = r3[x].prev
           /\ u[x].children = IF x = p THEN r3[x].children - 1 ELSE r3[x].children
  BY <1>5, <1>6, <1>7 DEF Relationship, N
<1>9. \A x \in All :
        /\ u[x].parent = IF x = c THEN Null ELSE r[x].parent
        /\ u[x].prev = IF x = c THEN Null ELSE IF x = next THEN prev ELSE r[x].prev
        /\ u[x].next = IF x = c THEN Null ELSE IF x = prev THEN next ELSE r[x].next
        /\ u[x].first = IF x = p /\ prev = Null THEN next ELSE r[x].first
        /\ u[x].children = IF x = p THEN r[x].children - 1 ELSE r[x].children
  BY <1>3, <1>4, <1>5, <1>8
<1> QED  BY <1>1, <1>8, <1>9 DEF prev, next, Unlinked

LEMMA WithoutIs ==
  ASSUME NEW s \in Seq(All), IsInjective(s), NEW k \in 1..Len(s)
  PROVE  /\ Without(s, k) \in Seq(All) /\ Len(Without(s, k)) = Len(s) - 1
         /\ IsInjective(Without(s, k))
         /\ \A i \in 0..Len(s) : Entry(Without(s, k), i) = Entry(s, Skip(i, k))
         /\ \A i \in 1..(Len(s) - 1) : Without(s, k)[i] = s[Skip(i, k)]
<1> DEFINE w == Without(s, k)
<1>1. Len(s) \in Nat /\ \A i \in 1..Len(s) : s[i] \in All
  OBVIOUS
<1>2. w \in Seq(All) /\ Len(w) = Len(s) - 1
  <2>1. Len(s) - 1 \in Nat
    BY <1>1
  <2>2. \A i \in 1..(Len(s) - 1) : s[Skip(i, k)] \in All
    BY <1>1 DEF Skip
  <2> QED  BY <2>1, <2>2, IsASeq DEF Without
<1>3. \A i \in 1..(Len(s) - 1) : w[i] = s[Skip(i, k)]
  BY DEF Without
<1> HIDE DEF w
<1>4. IsInjective(w)
  <2> SUFFICES ASSUME NEW i \in 1..(Len(s) - 1), NEW j \in 1..(Len(s) - 1), w[i] = w[j]
               PROVE  i = j
    BY <1>2 DEF IsInjective
  <2>1. s[Skip(i, k)] = s[Skip(j, k)]
    BY <1>3
  <2>2. Skip(i, k) \in 1..Len(s) /\ Skip(j, k) \in 1..Len(s)
    BY <1>1 DEF Skip
  <2>3. Skip(i, k) = Skip(j, k)
    BY <2>1, <2>2 DEF IsInjective
  <2> QED  BY <2>3 DEF Skip
<1>5. ASSUME NEW i \in 0..Len(s)
      PROVE  Entry(w, i) = Entry(s, Skip(i, k))
  <2>1. CASE i \in 1..(Len(s) - 1)
    BY <2>1, <1>1, <1>2, <1>3 DEF Entry, Skip
  <2>2. CASE i = 0
    BY <2>2, <1>1, <1>2 DEF Entry, Skip
  <2>3. CASE i = Len(s)
    BY <2>3, <1>1, <1>2 DEF Entry, Skip
  <2> QED  BY <2>1, <2>2, <2>3, <1>1
<1> QED  BY <1>2, <1>3, <1>4, <1>5 DEF w

\* An entity is in the list of its parent only, and in one place.
LEMMA OnePlace ==
  ASSUME NEW r, NEW L, Linked(r, L), NEW p \in All, NEW q \in All,
         NEW i \in 1..Len(L[p]), NEW k \in 1..Len(L[q]), L[p][i] = L[q][k]
  PROVE  p = q /\ i = k
<1>1. r[L[p][i]].parent = p /\ r[L[q][k]].parent = q
  BY DEF Linked
<1>2. p = q
  BY <1>1
<1>3. IsInjective(L[p]) /\ DOMAIN L[p] = 1..Len(L[p])
  BY DEF Linked
<1> QED  BY <1>2, <1>3 DEF IsInjective

LEMMA LinkedType ==
  ASSUME NEW r, NEW L, Linked(r, L)
  PROVE  /\ r \in [All -> Relationship]
         /\ \A p \in All : /\ L[p] \in Seq(All) /\ Len(L[p]) \in Nat
                           /\ \A i \in 1..Len(L[p]) : L[p][i] \in All
         /\ \A c \in All : /\ r[c].prev \in All \cup {Null} /\ r[c].next \in All \cup {Null}
                           /\ r[c].parent \in All \cup {Null}
                           /\ r[c].first \in All \cup {Null}
<1>1. /\ r \in [All -> Relationship]
      /\ \A p \in All : /\ L[p] \in Seq(All) /\ Len(L[p]) \in Nat
                        /\ \A i \in 1..Len(L[p]) : L[p][i] \in All
  BY DEF Linked
<1>2. ASSUME NEW c \in All
      PROVE  /\ r[c].prev \in All \cup {Null} /\ r[c].next \in All \cup {Null}
             /\ r[c].parent \in All \cup {Null}
  <2>1. CASE r[c].parent = Null /\ r[c].prev = Null /\ r[c].next = Null
    BY <2>1
  <2>2. CASE r[c].parent \in All /\ \E i \in 1..Len(L[r[c].parent]) : L[r[c].parent][i] = c
    <3> DEFINE p == r[c].parent
    <3>1. PICK i \in 1..Len(L[p]) : L[p][i] = c
      BY <2>2
    <3>2. r[c].prev = Entry(L[p], i - 1) /\ r[c].next = Entry(L[p], i + 1)
      BY <2>2, <3>1 DEF Linked
    <3> HIDE DEF p
    <3>3. p \in All
      BY <2>2 DEF p
    <3> QED  BY <2>2, <3>2, <3>3, <1>1, EntryType
  <2> QED  BY <2>1, <2>2 DEF Linked
<1>3. ASSUME NEW c \in All
      PROVE  r[c].first \in All \cup {Null}
  BY <1>1, EntryType DEF Linked
<1> QED  BY <1>1, <1>2, <1>3

LEMMA UnlinkKeeps ==
  ASSUME NEW r, NEW L, Linked(r, L), NEW p \in All, NEW k \in 1..Len(L[p])
  PROVE  LET c == L[p][k] IN
         /\ Linked(Unlink(r, p, c), [L EXCEPT ![p] = Without(L[p], k)])
         /\ \A x \in All : Unlink(r, p, c)[x].parent = IF x = c THEN Null ELSE r[x].parent
<1> DEFINE c == L[p][k]
           u == Unlink(r, p, c)
           s == L[p]
           w == Without(s, k)
           M == [L EXCEPT ![p] = w]
           prev == Entry(s, k - 1)
           next == Entry(s, k + 1)
<1>1. /\ r \in [All -> Relationship] /\ L \in [All -> Seq(All)]
      /\ \A q \in All : L[q] \in Seq(All) /\ Len(L[q]) \in Nat
      /\ \A q \in All : \A i \in 1..Len(L[q]) : L[q][i] \in All
      /\ c \in All /\ r[c].parent = p /\ r[c].prev = prev /\ r[c].next = next
      /\ r[p].children = Len(s) /\ IsInjective(s)
  BY LinkedType DEF Linked
<1>2. prev \in All \cup {Null} /\ next \in All \cup {Null}
  BY <1>1, EntryType
<1>3. r[p].children > 0
  BY <1>1
<1>4. /\ u \in [All -> Relationship]
      /\ \A x \in All :
           /\ u[x].parent = IF x = c THEN Null ELSE r[x].parent
           /\ u[x].prev = IF x = c THEN Null ELSE IF x = next THEN prev ELSE r[x].prev
           /\ u[x].next = IF x = c THEN Null ELSE IF x = prev THEN next ELSE r[x].next
           /\ u[x].first = IF x = p /\ prev = Null THEN next ELSE r[x].first
           /\ u[x].children = IF x = p THEN r[x].children - 1 ELSE r[x].children
  <2> HIDE DEF c, prev, next, u
  <2>1. r[c].prev \in All \cup {Null} /\ r[c].next \in All \cup {Null}
    BY <1>1, <1>2
  <2>2. Unlinked(u, r, p, c)
    <3>1. r \in [All -> Relationship] /\ c \in All
      BY <1>1
    <3> QED  BY <2>1, <3>1, <1>3, UnlinkFields DEF u
  <2> QED  BY <2>2, <1>1 DEF Unlinked
<1>5. /\ w \in Seq(All) /\ Len(w) = Len(s) - 1 /\ IsInjective(w)
      /\ \A i \in 0..Len(s) : Entry(w, i) = Entry(s, Skip(i, k))
      /\ \A i \in 1..(Len(s) - 1) : w[i] = s[Skip(i, k)]
  BY <1>1, WithoutIs
<1>6. M \in [All -> Seq(All)] /\ M[p] = w /\ \A q \in All : q # p => M[q] = L[q]
  BY <1>1, <1>5
<1>7. /\ prev # Null => k - 1 \in 1..Len(s) /\ prev = L[p][k - 1]
      /\ next # Null => k + 1 \in 1..Len(s) /\ next = L[p][k + 1]
      /\ prev = Null => k = 1
  <2>1. \A i \in 1..Len(s) : s[i] # Null
    BY <1>1, Names
  <2> QED  BY <2>1, <1>1 DEF Entry
<1> HIDE DEF u, w, M, prev, next
<1>8. ASSUME NEW q \in All
      PROVE  /\ IsInjective(M[q]) /\ u[q].children = Len(M[q])
             /\ u[q].first = Entry(M[q], 1)
  <2>1. CASE q # p
    <3>1. u[q].children = r[q].children /\ u[q].first = r[q].first
      BY <2>1, <1>4
    <3> QED  BY <2>1, <3>1, <1>6 DEF Linked
  <2>2. CASE q = p
    <3>1. u[p].children = Len(w)
      BY <1>1, <1>4, <1>5
    <3>2. r[p].first = Entry(s, 1)
      BY DEF Linked
    <3>3. Entry(w, 1) = Entry(s, IF 1 < k THEN 1 ELSE 2)
      <4>1. 1 \in 0..Len(s)
        BY <1>1
      <4>2. Entry(w, 1) = Entry(s, Skip(1, k))
        BY <4>1, <1>5
      <4> QED  BY <4>2 DEF Skip
    <3>4. CASE k = 1
      BY <2>2, <3>1, <3>3, <3>4, <1>4, <1>5, <1>6 DEF prev, next, Entry
    <3>5. CASE k # 1
      <4>1. prev # Null
        BY <3>5, <1>7
      <4> QED  BY <2>2, <3>1, <3>2, <3>3, <3>5, <4>1, <1>4, <1>5, <1>6
    <3> QED  BY <3>4, <3>5
  <2> QED  BY <2>1, <2>2
<1>9. ASSUME NEW q \in All, NEW i \in 1..Len(M[q])
      PROVE  /\ u[M[q][i]].parent = q /\ u[M[q][i]].prev = Entry(M[q], i - 1)
             /\ u[M[q][i]].next = Entry(M[q], i + 1)
  <2>1. CASE q # p
    <3> DEFINE d == L[q][i]
    <3>1. M[q] = L[q] /\ i \in 1..Len(L[q]) /\ d \in All
      BY <2>1, <1>1, <1>6
    <3>2. r[d].parent = q /\ r[d].prev = Entry(L[q], i - 1) /\ r[d].next = Entry(L[q], i + 1)
      BY <3>1 DEF Linked
    <3>3. d # c /\ d # prev /\ d # next
      BY <2>1, <3>1, <1>7, OnePlace, Names
    <3> HIDE DEF d
    <3>4. u[d].parent = q /\ u[d].prev = r[d].prev /\ u[d].next = r[d].next
      BY <3>1, <3>2, <3>3, <1>4
    <3> QED  BY <3>1, <3>2, <3>4 DEF d
  <2>2. CASE q = p
    <3> DEFINE j == Skip(i, k)
               d == s[j]
    <3>1. /\ M[q] = w /\ i \in 1..(Len(s) - 1) /\ j \in 1..Len(s) /\ j # k
          /\ j = IF i < k THEN i ELSE i + 1
      <4>1. M[q] = w /\ Len(w) = Len(s) - 1
        BY <2>2, <1>5, <1>6
      <4>2. i \in 1..(Len(s) - 1)
        BY <4>1
      <4> QED  BY <4>1, <4>2, <1>1 DEF Skip
    <3>2. w[i] = d /\ d \in All
      BY <3>1, <1>1, <1>5
    <3>3. r[d].parent = p /\ r[d].prev = Entry(s, j - 1) /\ r[d].next = Entry(s, j + 1)
      BY <3>1 DEF Linked
    <3>4. d # c
      BY <3>1, OnePlace
    <3>5. (d = prev <=> j = k - 1) /\ (d = next <=> j = k + 1)
      <4>1. d = prev => j = k - 1
        BY <3>1, <3>2, <1>7, OnePlace, Names
      <4>2. d = next => j = k + 1
        BY <3>1, <3>2, <1>7, OnePlace, Names
      <4>3. j = k - 1 => d = prev
        BY <3>1 DEF prev, Entry
      <4>4. j = k + 1 => d = next
        BY <3>1 DEF next, Entry
      <4> QED  BY <4>1, <4>2, <4>3, <4>4
    <3> HIDE DEF d
    <3>6. u[d].parent = p
      BY <3>2, <3>3, <3>4, <1>4
    <3>7. u[d].prev = Entry(w, i - 1)
      <4>1. Entry(w, i - 1) = Entry(s, IF i - 1 < k THEN i - 1 ELSE i)
        <5>1. i - 1 \in 0..Len(s)
          BY <3>1, <1>1
        <5>2. Entry(w, i - 1) = Entry(s, Skip(i - 1, k))
          BY <5>1, <1>5
        <5> QED  BY <5>1, <5>2, <3>1 DEF Skip
      <4>2. u[d].prev = IF d = next THEN prev ELSE Entry(s, j - 1)
        BY <3>2, <3>3, <3>4, <1>4
      <4>3. CASE i < k
        BY <4>1, <4>2, <4>3, <3>5, <3>1
      <4>4. CASE i = k
        BY <4>1, <4>2, <4>4, <3>5, <3>1 DEF prev
      <4>5. CASE i > k
        BY <4>1, <4>2, <4>5, <3>5, <3>1
      <4> QED  BY <4>3, <4>4, <4>5, <3>1
    <3>8. u[d].next = Entry(w, i + 1)
      <4>1. Entry(w, i + 1) = Entry(s, IF i + 1 < k THEN i + 1 ELSE i + 2)
        <5>1. i + 1 \in 0..Len(s)
          BY <3>1, <1>1
        <5>2. Entry(w, i + 1) = Entry(s, Skip(i + 1, k))
          BY <5>1, <1>5
        <5> QED  BY <5>1, <5>2, <3>1 DEF Skip
      <4>2. u[d].next = IF d = prev THEN next ELSE Entry(s, j + 1)
        BY <3>2, <3>3, <3>4, <1>4
      <4>3. CASE i + 1 < k
        BY <4>1, <4>2, <4>3, <3>5, <3>1
      <4>4. CASE i + 1 = k
        BY <4>1, <4>2, <4>4, <3>5, <3>1 DEF next
      <4>5. CASE i + 1 > k
        BY <4>1, <4>2, <4>5, <3>5, <3>1
      <4> QED  BY <4>3, <4>4, <4>5, <3>1
    <3> QED  BY <2>2, <3>1, <3>2, <3>6, <3>7, <3>8
  <2> QED  BY <2>1, <2>2
<1>10. ASSUME NEW x \in All
       PROVE  \/ u[x].parent = Null /\ u[x].prev = Null /\ u[x].next = Null
              \/ u[x].parent \in All /\ \E i \in 1..Len(M[u[x].parent]) : M[u[x].parent][i] = x
  <2>1. CASE x = c
    BY <2>1, <1>4
  <2>2. CASE x # c /\ r[x].parent = Null /\ r[x].prev = Null /\ r[x].next = Null
    <3>1. x # next /\ x # prev
      <4>1. r[x].parent # p
        BY <2>2, Names
      <4>2. \A i \in 1..Len(L[p]) : r[L[p][i]].parent = p
        BY DEF Linked
      <4>3. x # Null
        BY Names
      <4> QED  BY <4>1, <4>2, <4>3, <1>7
    <3> QED  BY <2>2, <3>1, <1>4
  <2>3. CASE x # c /\ r[x].parent \in All /\ \E i \in 1..Len(L[r[x].parent]) : L[r[x].parent][i] = x
    <3> DEFINE q == r[x].parent
    <3>1. u[x].parent = q /\ q \in All
      BY <2>3, <1>4
    <3>2. PICK i \in 1..Len(L[q]) : L[q][i] = x
      BY <2>3
    <3> HIDE DEF q
    <3>3. CASE q # p
      BY <3>1, <3>2, <3>3, <1>6
    <3>4. CASE q = p
      <4>1. i # k
        BY <2>3, <3>2, <3>4
      <4> DEFINE j == IF i < k THEN i ELSE i - 1
      <4>2. j \in 1..(Len(s) - 1) /\ Skip(j, k) = i
        BY <4>1, <3>2, <3>4, <1>1 DEF Skip
      <4>3. w[j] = x
        BY <4>2, <1>5, <3>2, <3>4
      <4>4. j \in 1..Len(M[q]) /\ M[q][j] = x
        BY <4>2, <4>3, <3>4, <1>5, <1>6
      <4> QED  BY <3>1, <4>4
    <3> QED  BY <3>3, <3>4
  <2> QED  BY <2>1, <2>2, <2>3 DEF Linked
<1>11. u[Scene].parent = Null
  BY <1>4, Names DEF Linked
<1>12. Linked(u, M)
  BY <1>4, <1>6, <1>8, <1>9, <1>10, <1>11 DEF Linked
<1> QED  BY <1>12, <1>4 DEF u, M, w

\* What the second half of set_parent makes of r, where s are the children of p.
Adopts(u, r, p, c, s) ==
  /\ u \in [All -> Relationship]
  /\ \A x \in All :
       /\ u[x].parent = IF x = c THEN p ELSE r[x].parent
       /\ u[x].prev = IF x = c THEN Entry(s, Len(s)) ELSE r[x].prev
       /\ u[x].next = IF x = c THEN Null ELSE IF x = Entry(s, Len(s)) THEN c ELSE r[x].next
       /\ u[x].first = IF x = p /\ s = <<>> THEN c ELSE r[x].first
       /\ u[x].children = IF x = p THEN r[x].children + 1 ELSE r[x].children

LEMMA AppendFields ==
  ASSUME NEW r, NEW L, Linked(r, L), NEW p \in All, NEW c \in All,
         r[c].parent = Null, r[c].prev = Null, Len(L[p]) < N
  PROVE  Adopts(Appended(r, p, c), r, p, c, L[p])
<1> DEFINE s == L[p]
           r1 == [r EXCEPT ![c].parent = p]
           r2 == IF r1[p].children = 0 THEN [r1 EXCEPT ![p].first = c]
                 ELSE [r1 EXCEPT ![LastChild(r1, p)].next = c, ![c].prev = LastChild(r1, p)]
           u == [r2 EXCEPT ![p].children = @ + 1, ![c].next = Null]
           last == Entry(s, Len(s))
<1>1. Appended(r, p, c) = u
  BY DEF Appended
<1>2. /\ r \in [All -> Relationship] /\ s \in Seq(All) /\ Len(s) \in Nat /\ Len(s) < N
      /\ IsInjective(s) /\ r[p].children = Len(s) /\ r[p].first = Entry(s, 1)
      /\ \A i \in 1..Len(s) : s[i] \in All /\ r[s[i]].next = Entry(s, i + 1)
                              /\ r[s[i]].parent = p
  BY LinkedType DEF Linked
<1> HIDE DEF s
<1>3. /\ r1 \in [All -> Relationship]
      /\ \A x \in All :
           /\ r1[x].parent = IF x = c THEN p ELSE r[x].parent
           /\ r1[x].prev = r[x].prev /\ r1[x].next = r[x].next
           /\ r1[x].first = r[x].first /\ r1[x].children = r[x].children
  BY <1>2 DEF Relationship
<1> HIDE DEF r1
<1>4. Chain(r1, Entry(s, 1)) = s
  <2>1. \A i \in 1..Len(s) : r1[s[i]].next = Entry(s, i + 1)
    BY <1>2, <1>3
  <2> QED  BY <2>1, <1>2, <1>3, ChainIs
<1>5. s # <<>> => LastChild(r1, p) = last /\ last \in All /\ last # c /\ r1[p].children # 0
  <2> SUFFICES ASSUME s # <<>>
               PROVE  LastChild(r1, p) = last /\ last \in All /\ last # c /\ r1[p].children # 0
    OBVIOUS
  <2>1. Len(s) \in 1..Len(s)
    BY <1>2, EmptySeq
  <2>2. last = s[Len(s)] /\ s[Len(s)] \in All /\ r[s[Len(s)]].parent = p
    BY <2>1, <1>2 DEF Entry
  <2>3. LastChild(r1, p) = s[Len(s)]
    BY <1>2, <1>3, <1>4 DEF LastChild
  <2>4. last # c
    BY <2>2, Names
  <2> QED  BY <2>1, <2>2, <2>3, <2>4, <1>2, <1>3
<1>6. s = <<>> => last = Null /\ r1[p].children = 0
  BY <1>2, <1>3 DEF Entry
<1> HIDE DEF last
<1>7. /\ r2 \in [All -> Relationship]
      /\ \A x \in All :
           /\ r2[x].parent = r1[x].parent /\ r2[x].children = r1[x].children
           /\ r2[x].first = IF x = p /\ s = <<>> THEN c ELSE r1[x].first
           /\ r2[x].prev = IF x = c THEN last ELSE r1[x].prev
           /\ r2[x].next = IF x = last THEN c ELSE r1[x].next
  <2>1. CASE s = <<>>
    <3>1. r2 = [r1 EXCEPT ![p].first = c] /\ last = Null /\ r1[c].prev = Null
      BY <2>1, <1>3, <1>6
    <3> HIDE DEF r2
    <3> QED  BY <2>1, <3>1, <1>3, Names DEF Relationship
  <2>2. CASE s # <<>>
    <3> DEFINE q == [r1 EXCEPT ![last].next = c]
    <3>1. last \in All /\ last # c
      BY <2>2, <1>5
    <3>2. /\ q \in [All -> Relationship]
          /\ \A x \in All :
               /\ q[x].parent = r1[x].parent /\ q[x].children = r1[x].children
               /\ q[x].first = r1[x].first /\ q[x].prev = r1[x].prev
               /\ q[x].next = IF x = last THEN c ELSE r1[x].next
      BY <3>1, <1>3 DEF Relationship
    <3>3. r2 = [q EXCEPT ![c].prev = last]
      BY <2>2, <1>5
    <3> HIDE DEF q, r2
    <3> QED  BY <2>2, <3>1, <3>2, <3>3 DEF Relationship
  <2> QED  BY <2>1, <2>2
<1> HIDE DEF r2
<1> DEFINE r3 == [r2 EXCEPT ![p].children = @ + 1]
<1>8. r2[p].children + 1 \in 0..N
  BY <1>2, <1>3, <1>7, Names
<1>9. /\ r3 \in [All -> Relationship]
      /\ \A x \in All :
           /\ r3[x].parent = r2[x].parent /\ r3[x].first = r2[x].first
           /\ r3[x].prev = r2[x].prev /\ r3[x].next = r2[x].next
           /\ r3[x].children = IF x = p THEN r2[x].children + 1 ELSE r2[x].children
  BY <1>7, <1>8 DEF Relationship, N
<1>10. u = [r3 EXCEPT ![c].next = Null]
  OBVIOUS
<1> HIDE DEF r3, u
<1>11. /\ u \in [All -> Relationship]
       /\ \A x \in All :
            /\ u[x].parent = r3[x].parent /\ u[x].first = r3[x].first
            /\ u[x].prev = r3[x].prev /\ u[x].children = r3[x].children
            /\ u[x].next = IF x = c THEN Null ELSE r3[x].next
  BY <1>9, <1>10 DEF Relationship
<1>12. \A x \in All :
         /\ u[x].parent = IF x = c THEN p ELSE r[x].parent
         /\ u[x].prev = IF x = c THEN last ELSE r[x].prev
         /\ u[x].next = IF x = c THEN Null ELSE IF x = last THEN c ELSE r[x].next
         /\ u[x].first = IF x = p /\ s = <<>> THEN c ELSE r[x].first
         /\ u[x].children = IF x = p THEN r[x].children + 1 ELSE r[x].children
  BY <1>3, <1>7, <1>9, <1>11
<1> QED  BY <1>1, <1>11, <1>12 DEF Adopts, s, last

LEMMA AppendIs ==
  ASSUME NEW s \in Seq(All), IsInjective(s), NEW c \in All, \A i \in 1..Len(s) : s[i] # c
  PROVE  /\ Append(s, c) \in Seq(All) /\ IsInjective(Append(s, c))
         /\ Len(Append(s, c)) = Len(s) + 1 /\ Len(s) < N
         /\ \A i \in 1..Len(s) : Append(s, c)[i] = s[i]
         /\ Append(s, c)[Len(s) + 1] = c
         /\ \A i \in 0..Len(s) : Entry(Append(s, c), i) = Entry(s, i)
<1> DEFINE a == Append(s, c)
<1>1. /\ a \in Seq(All) /\ Len(a) = Len(s) + 1 /\ Len(s) \in Nat
      /\ \A i \in 1..Len(s) : a[i] = s[i]
      /\ a[Len(s) + 1] = c
  OBVIOUS
<1> HIDE DEF a
<1>2. IsInjective(a)
  <2> SUFFICES ASSUME NEW i \in 1..(Len(s) + 1), NEW k \in 1..(Len(s) + 1), a[i] = a[k]
               PROVE  i = k
    BY <1>1 DEF IsInjective
  <2>1. CASE i # Len(s) + 1 /\ k # Len(s) + 1
    BY <2>1, <1>1 DEF IsInjective
  <2>2. CASE i = Len(s) + 1 \/ k = Len(s) + 1
    <3>1. i \in 1..Len(s) \/ i = Len(s) + 1
      BY <1>1
    <3>2. k \in 1..Len(s) \/ k = Len(s) + 1
      BY <1>1
    <3> QED  BY <3>1, <3>2, <2>2, <1>1
  <2> QED  BY <2>1, <2>2
<1>3. Len(a) <= N
  BY <1>1, <1>2, Names, DistinctLength DEF N
<1>4. \A i \in 0..Len(s) : Entry(a, i) = Entry(s, i)
  BY <1>1 DEF Entry
<1> QED  BY <1>1, <1>2, <1>3, <1>4, Names DEF a

LEMMA AppendKeeps ==
  ASSUME NEW r, NEW L, Linked(r, L), NEW p \in All, NEW c \in Entities, r[c].parent = Null,
         NEW M, M = [L EXCEPT ![p] = Append(L[p], c)]
  PROVE  /\ Linked(Appended(r, p, c), M)
         /\ \A x \in All : Appended(r, p, c)[x].parent = IF x = c THEN p ELSE r[x].parent
         /\ \A i \in 1..Len(L[p]) : L[p][i] # c
<1> DEFINE u == Appended(r, p, c)
           s == L[p]
           a == Append(s, c)
           last == Entry(s, Len(s))
<1>1. /\ r \in [All -> Relationship] /\ L \in [All -> Seq(All)]
      /\ \A q \in All : L[q] \in Seq(All) /\ Len(L[q]) \in Nat
      /\ \A q \in All : \A i \in 1..Len(L[q]) : L[q][i] \in All
      /\ r[p].children = Len(s) /\ r[p].first = Entry(s, 1) /\ IsInjective(s)
      /\ c \in All /\ c # Scene
  BY LinkedType, Names DEF Linked
<1>2. \A q \in All : \A i \in 1..Len(L[q]) : L[q][i] # c
  <2> SUFFICES ASSUME NEW q \in All, NEW i \in 1..Len(L[q]), L[q][i] = c PROVE FALSE
    OBVIOUS
  <2>1. r[c].parent = q
    BY DEF Linked
  <2> QED  BY <2>1, Names
<1>3. r[c].prev = Null
  BY <1>1, Names DEF Linked
<1>4. /\ a \in Seq(All) /\ IsInjective(a) /\ Len(a) = Len(s) + 1 /\ Len(s) < N
      /\ \A i \in 1..Len(s) : a[i] = s[i]
      /\ a[Len(s) + 1] = c
      /\ \A i \in 0..Len(s) : Entry(a, i) = Entry(s, i)
  BY <1>1, <1>2, AppendIs
<1>5. Adopts(u, r, p, c, s)
  BY <1>1, <1>3, <1>4, AppendFields
<1> HIDE DEF u, a, last
<1>6. M \in [All -> Seq(All)] /\ M[p] = a /\ \A q \in All : q # p => M[q] = L[q]
  BY <1>1, <1>4 DEF a
<1>7. ASSUME NEW q \in All
      PROVE  /\ IsInjective(M[q]) /\ u[q].children = Len(M[q])
             /\ u[q].first = Entry(M[q], 1)
  <2>1. CASE q # p
    BY <2>1, <1>5, <1>6 DEF Linked, Adopts
  <2>2. CASE q = p
    <3>1. u[p].children = Len(a)
      BY <1>1, <1>4, <1>5 DEF Adopts
    <3>2. u[p].first = Entry(a, 1)
      <4>1. CASE s = <<>>
        <5>1. u[p].first = c /\ Len(a) = 1 /\ a[1] = c
          BY <4>1, <1>4, <1>5 DEF Adopts
        <5> QED  BY <5>1 DEF Entry
      <4>2. CASE s # <<>>
        <5>1. 1 \in 0..Len(s)
          BY <4>2, <1>1, EmptySeq
        <5>2. u[p].first = Entry(s, 1)
          BY <4>2, <1>1, <1>5 DEF Adopts
        <5> QED  BY <5>1, <5>2, <1>4
      <4> QED  BY <4>1, <4>2
    <3> QED  BY <2>2, <3>1, <3>2, <1>4, <1>6
  <2> QED  BY <2>1, <2>2
<1>8. ASSUME NEW q \in All, NEW i \in 1..Len(L[q])
      PROVE  LET d == L[q][i] IN
             /\ u[d].parent = q /\ u[d].prev = Entry(L[q], i - 1)
             /\ u[d].next = IF q = p /\ i = Len(s) THEN c ELSE Entry(L[q], i + 1)
  <2> DEFINE d == L[q][i]
  <2>1. d \in All /\ d # c
    BY <1>1, <1>2
  <2>2. r[d].parent = q /\ r[d].prev = Entry(L[q], i - 1) /\ r[d].next = Entry(L[q], i + 1)
    BY DEF Linked
  <2>3. d = last <=> q = p /\ i = Len(s)
    <3>1. d = last => Len(s) \in 1..Len(s) /\ last = L[p][Len(s)]
      BY <2>1, Names DEF last, Entry
    <3>2. d = last => q = p /\ i = Len(s)
      BY <3>1, OnePlace
    <3>3. q = p /\ i = Len(s) => d = last
      BY DEF last, Entry
    <3> QED  BY <3>2, <3>3
  <2> HIDE DEF d
  <2>4. /\ u[d].parent = r[d].parent /\ u[d].prev = r[d].prev
        /\ u[d].next = IF d = last THEN c ELSE r[d].next
    BY <2>1, <1>5 DEF Adopts, last
  <2> QED  BY <2>2, <2>3, <2>4 DEF d
<1>9. ASSUME NEW q \in All, NEW i \in 1..Len(M[q])
      PROVE  /\ u[M[q][i]].parent = q /\ u[M[q][i]].prev = Entry(M[q], i - 1)
             /\ u[M[q][i]].next = Entry(M[q], i + 1)
  <2>1. CASE q # p
    <3>1. M[q] = L[q]
      BY <2>1, <1>6
    <3> QED  BY <2>1, <3>1, <1>8
  <2>2. CASE q = p /\ i # Len(s) + 1
    <3>1. i \in 1..Len(s) /\ M[q] = a /\ a[i] = s[i] /\ i - 1 \in 0..Len(s)
      <4>1. M[q] = a /\ Len(s) \in Nat /\ Len(a) = Len(s) + 1
        BY <2>2, <1>1, <1>4, <1>6
      <4>2. i \in 1..Len(a)
        BY <4>1
      <4>3. i \in 1..Len(s)
        BY <2>2, <4>1, <4>2
      <4> QED  BY <4>1, <4>3, <1>4
    <3>2. /\ u[s[i]].parent = p /\ u[s[i]].prev = Entry(s, i - 1)
          /\ u[s[i]].next = IF i = Len(s) THEN c ELSE Entry(s, i + 1)
      BY <3>1, <1>8
    <3>3. Entry(a, i - 1) = Entry(s, i - 1)
      BY <3>1, <1>4
    <3>4. CASE i = Len(s)
      <4>1. Entry(a, i + 1) = c
        BY <3>4, <1>1, <1>4 DEF Entry
      <4> QED  BY <2>2, <3>1, <3>2, <3>3, <3>4, <4>1
    <3>5. CASE i # Len(s)
      <4>1. i + 1 \in 0..Len(s)
        BY <3>1, <3>5
      <4>2. Entry(a, i + 1) = Entry(s, i + 1)
        BY <4>1, <1>4
      <4> QED  BY <2>2, <3>1, <3>2, <3>3, <3>5, <4>2
    <3> QED  BY <3>4, <3>5
  <2>3. CASE q = p /\ i = Len(s) + 1
    <3>1. M[q] = a /\ a[i] = c
      BY <2>3, <1>4, <1>6
    <3>2. u[c].parent = p /\ u[c].prev = Entry(s, Len(s)) /\ u[c].next = Null
      BY <1>1, <1>5 DEF Adopts
    <3>3. Len(s) \in 0..Len(s) /\ i - 1 = Len(s)
      BY <2>3, <1>1
    <3>4. Entry(a, i - 1) = Entry(s, Len(s))
      BY <3>3, <1>4
    <3>5. Entry(a, i + 1) = Null
      BY <2>3, <1>1, <1>4 DEF Entry
    <3> QED  BY <2>3, <3>1, <3>2, <3>4, <3>5
  <2> QED  BY <2>1, <2>2, <2>3
<1>10. ASSUME NEW x \in All
       PROVE  \/ u[x].parent = Null /\ u[x].prev = Null /\ u[x].next = Null
              \/ u[x].parent \in All /\ \E i \in 1..Len(M[u[x].parent]) : M[u[x].parent][i] = x
  <2>1. CASE x = c
    <3>1. u[x].parent = p
      BY <2>1, <1>1, <1>5 DEF Adopts
    <3>2. Len(s) + 1 \in 1..Len(M[p]) /\ M[p][Len(s) + 1] = c
      BY <1>1, <1>4, <1>6
    <3> QED  BY <2>1, <3>1, <3>2
  <2>2. CASE x # c /\ r[x].parent = Null /\ r[x].prev = Null /\ r[x].next = Null
    <3>1. x # last
      <4>1. last \in All => \E i \in 1..Len(L[p]) : last = L[p][i]
        BY Names DEF last, Entry
      <4>2. \A i \in 1..Len(L[p]) : r[L[p][i]].parent = p
        BY DEF Linked
      <4> QED  BY <4>1, <4>2, <2>2, Names
    <3>2. u[x].parent = r[x].parent /\ u[x].prev = r[x].prev /\ u[x].next = r[x].next
      BY <2>2, <3>1, <1>5 DEF Adopts, last
    <3> QED  BY <2>2, <3>2
  <2>3. CASE x # c /\ r[x].parent \in All /\ \E i \in 1..Len(L[r[x].parent]) : L[r[x].parent][i] = x
    <3> DEFINE q == r[x].parent
    <3>1. u[x].parent = q /\ q \in All
      BY <2>3, <1>5 DEF Adopts
    <3>2. PICK i \in 1..Len(L[q]) : L[q][i] = x
      BY <2>3
    <3> HIDE DEF q
    <3>3. i \in 1..Len(M[q]) /\ M[q][i] = x
      <4>1. CASE q # p
        BY <3>1, <3>2, <4>1, <1>6
      <4>2. CASE q = p
        <5>1. i \in 1..Len(s) /\ s[i] = x /\ M[q] = a /\ Len(s) \in Nat
          BY <3>2, <4>2, <1>1, <1>6
        <5>2. a[i] = x /\ i \in 1..Len(a)
          BY <5>1, <1>4
        <5> QED  BY <5>1, <5>2
      <4> QED  BY <4>1, <4>2
    <3> QED  BY <3>1, <3>3
  <2> QED  BY <2>1, <2>2, <2>3 DEF Linked
<1>11. u[Scene].parent = Null
  BY <1>1, <1>5, Names DEF Linked, Adopts
<1>12. Linked(u, M)
  BY <1>5, <1>6, <1>7, <1>9, <1>10, <1>11 DEF Linked, Adopts
<1> QED  BY <1>2, <1>5, <1>12 DEF u, Adopts

-----------------------------------------------------------------------------
(* set_parent and destroy_entity *)

Lists(r) == [p \in All |-> Kids(r, p)]
WellLinked(r) == Linked(r, Lists(r))

LEMMA ListsAre ==
  ASSUME NEW r, NEW L, Linked(r, L)
  PROVE  Lists(r) = L /\ WellLinked(r) /\ \A p \in All : Kids(r, p) = L[p]
<1>1. \A p \in All : Kids(r, p) = L[p]
  BY KidsAre
<1>2. L \in [All -> Seq(All)]
  BY DEF Linked
<1>3. Lists(r) = L
  BY <1>1, <1>2 DEF Lists
<1> QED  BY <1>1, <1>3 DEF WellLinked

LEMMA OrderKept ==
  ASSUME NEW s \in Seq(All)
  PROVE  /\ Forest!KeepsOrder(s, s)
         /\ \A k \in 1..Len(s) : IsInjective(s) => Forest!KeepsOrder(s, Without(s, k))
         /\ \A c \in All : IsInjective(s) /\ (\A i \in 1..Len(s) : s[i] # c)
                             => Forest!KeepsOrder(s, Append(s, c))
<1>1. Len(s) \in Nat /\ DOMAIN s = 1..Len(s)
  OBVIOUS
<1>2. Forest!KeepsOrder(s, s)
  BY <1>1 DEF Forest!KeepsOrder
<1>3. ASSUME NEW k \in 1..Len(s), IsInjective(s)
      PROVE  Forest!KeepsOrder(s, Without(s, k))
  <2> DEFINE w == Without(s, k)
  <2>1. /\ DOMAIN w = 1..(Len(s) - 1)
        /\ \A i \in 1..(Len(s) - 1) : w[i] = s[Skip(i, k)]
    BY DEF Without
  <2> HIDE DEF w
  <2> SUFFICES ASSUME NEW i \in 1..(Len(s) - 1), NEW j \in 1..(Len(s) - 1), i < j
               PROVE  \E a, b \in DOMAIN s : a < b /\ s[a] = w[i] /\ s[b] = w[j]
    BY <2>1 DEF Forest!KeepsOrder, w
  <2>2. /\ Skip(i, k) \in 1..Len(s) /\ Skip(j, k) \in 1..Len(s)
        /\ Skip(i, k) < Skip(j, k)
    BY <1>1 DEF Skip
  <2> QED  BY <2>1, <2>2, <1>1
<1>4. ASSUME NEW c \in All, IsInjective(s), \A i \in 1..Len(s) : s[i] # c
      PROVE  Forest!KeepsOrder(s, Append(s, c))
  <2> DEFINE a == Append(s, c)
  <2>1. /\ DOMAIN a = 1..(Len(s) + 1) /\ a[Len(s) + 1] = c
        /\ \A i \in 1..Len(s) : a[i] = s[i]
    BY <1>1
  <2> HIDE DEF a
  <2> SUFFICES Forest!KeepsOrder(s, a)
    BY DEF a
  <2> SUFFICES ASSUME NEW i \in 1..(Len(s) + 1), NEW j \in 1..(Len(s) + 1), i < j,
                      a[j] \in ToSet(s)
               PROVE  \E k, l \in DOMAIN s : k < l /\ s[k] = a[i] /\ s[l] = a[j]
    BY <2>1 DEF Forest!KeepsOrder, Forest!ToSet, ToSet
  <2>2. a[j] # c
    BY <1>1, <1>4 DEF ToSet
  <2>3. i \in 1..Len(s) /\ j \in 1..Len(s)
    BY <1>1, <2>1, <2>2
  <2> QED  BY <2>1, <2>3, <1>1
<1> QED  BY <1>2, <1>3, <1>4

\* remove_child takes an entity out of the list of its parent.
LEMMA LeaveKeeps ==
  ASSUME NEW r, WellLinked(r), NEW c \in Entities, r[c].parent \in All
  PROVE  LET u == Unlink(r, r[c].parent, c) IN
         /\ WellLinked(u)
         /\ \A x \in All : u[x].parent = IF x = c THEN Null ELSE r[x].parent
         /\ \A x \in All : r[x].children = 0 => u[x].children = 0
         /\ \A q \in All : q # r[c].parent => Kids(u, q) = Kids(r, q)
         /\ Forest!KeepsOrder(Kids(r, r[c].parent), Kids(u, r[c].parent))
<1> DEFINE L == Lists(r)
           p == r[c].parent
           u == Unlink(r, p, c)
<1>1. Linked(r, L) /\ c \in All /\ p \in All
  BY Names DEF WellLinked
<1> HIDE DEF L
<1>2. PICK k \in 1..Len(L[p]) : L[p][k] = c
  BY <1>1, Names DEF Linked
<1> HIDE DEF p
<1> DEFINE M == [L EXCEPT ![p] = Without(L[p], k)]
<1>3. Linked(u, M) /\ \A x \in All : u[x].parent = IF x = c THEN Null ELSE r[x].parent
  <2>1. /\ Linked(Unlink(r, p, L[p][k]), M)
        /\ \A x \in All : Unlink(r, p, L[p][k])[x].parent = IF x = L[p][k] THEN Null ELSE r[x].parent
    BY <1>1, UnlinkKeeps
  <2> QED  BY <2>1, <1>2
<1>4. /\ L \in [All -> Seq(All)] /\ L[p] \in Seq(All) /\ IsInjective(L[p])
  BY <1>1 DEF Linked
<1>5. M[p] = Without(L[p], k) /\ \A q \in All : q # p => M[q] = L[q]
  BY <1>1, <1>4
<1> HIDE DEF M, u
<1>6. \A q \in All : Kids(u, q) = M[q] /\ Kids(r, q) = L[q]
  BY <1>1, <1>3, ListsAre
<1>7. Forest!KeepsOrder(L[p], M[p])
  BY <1>4, <1>5, OrderKept
<1>8. ASSUME NEW x \in All, r[x].children = 0
      PROVE  u[x].children = 0
  <2>1. Len(L[x]) = 0
    BY <1>1, <1>8 DEF Linked
  <2>2. x # p
    BY <1>2, <2>1
  <2> QED  BY <2>1, <2>2, <1>3, <1>5 DEF Linked
<1> QED  BY <1>1, <1>3, <1>5, <1>6, <1>7, <1>8, ListsAre DEF u, p

\* The second half of set_parent puts it at the end of the list of its new parent.
LEMMA JoinKeeps ==
  ASSUME NEW r, WellLinked(r), NEW c \in Entities, NEW p \in All, r[c].parent = Null
  PROVE  LET u == Appended(r, p, c) IN
         /\ WellLinked(u)
         /\ \A x \in All : u[x].parent = IF x = c THEN p ELSE r[x].parent
         /\ \A q \in All : q # p => Kids(u, q) = Kids(r, q)
         /\ Forest!KeepsOrder(Kids(r, p), Kids(u, p))
<1> DEFINE L == Lists(r)
           u == Appended(r, p, c)
           M == [L EXCEPT ![p] = Append(L[p], c)]
<1>1. Linked(r, L) /\ c \in All
  BY Names DEF WellLinked
<1> HIDE DEF L
<1>2. /\ Linked(u, M) /\ \A x \in All : u[x].parent = IF x = c THEN p ELSE r[x].parent
      /\ \A i \in 1..Len(L[p]) : L[p][i] # c
  <2>1. M = [L EXCEPT ![p] = Append(L[p], c)]
    OBVIOUS
  <2> HIDE DEF M
  <2>2. Linked(Appended(r, p, c), M)
    BY <1>1, <2>1, AppendKeeps
  <2>3. \A x \in All : Appended(r, p, c)[x].parent = IF x = c THEN p ELSE r[x].parent
    BY <1>1, <2>1, AppendKeeps
  <2>4. \A i \in 1..Len(L[p]) : L[p][i] # c
    BY <1>1, <2>1, AppendKeeps
  <2> QED  BY <2>2, <2>3, <2>4
<1>3. L \in [All -> Seq(All)] /\ L[p] \in Seq(All) /\ IsInjective(L[p])
  BY <1>1 DEF Linked
<1>4. M[p] = Append(L[p], c) /\ \A q \in All : q # p => M[q] = L[q]
  BY <1>3
<1> HIDE DEF M, u
<1>5. \A q \in All : Kids(u, q) = M[q] /\ Kids(r, q) = L[q]
  BY <1>1, <1>2, ListsAre
<1>6. Forest!KeepsOrder(L[p], M[p])
  BY <1>1, <1>2, <1>3, <1>4, OrderKept
<1> QED  BY <1>2, <1>4, <1>5, <1>6, ListsAre DEF u

\* No call of set_parent reads what is gone.
LEMMA NeverDangling ==
  ASSUME NEW r, WellLinked(r), NEW c \in All, NEW p \in All \cup {Null}
  PROVE  ~Dangling(r, c, p)
<1> DEFINE L == Lists(r)
<1>1. Linked(r, L)
  BY DEF WellLinked
<1> HIDE DEF L
<1>2. r[c].prev # Dead /\ r[c].next # Dead
  BY <1>1, LinkedType, Names
<1>3. ASSUME p \in All
      PROVE  ~ (Len(Chain(r, r[p].first)) < r[p].children)
  <2>1. /\ r \in [All -> Relationship] /\ L[p] \in Seq(All) /\ IsInjective(L[p])
        /\ r[p].first = Entry(L[p], 1) /\ r[p].children = Len(L[p])
        /\ \A i \in 1..Len(L[p]) : r[L[p][i]].next = Entry(L[p], i + 1)
    BY <1>1, <1>3 DEF Linked
  <2>2. Chain(r, r[p].first) = L[p]
    BY <2>1, ChainIs
  <2> QED  BY <2>1, <2>2
<1> QED  BY <1>2, <1>3 DEF Dangling

\* The effect of set_parent: the parent of one entity, and every list in its order.
LEMMA ReparentKeeps ==
  ASSUME NEW r, WellLinked(r), NEW c \in Entities, NEW p \in All \cup {Null}
  PROVE  LET u == Reparented(r, c, p) IN
         /\ WellLinked(u)
         /\ \A x \in All : u[x].parent = IF x = c THEN p ELSE r[x].parent
         /\ \A q \in All : Forest!KeepsOrder(Kids(r, q), Kids(u, q))
<1> DEFINE u == Reparented(r, c, p)
           r1 == IF r[c].parent \in All THEN Unlink(r, r[c].parent, c) ELSE r
<1>1. /\ \A q \in All : Kids(r, q) \in Seq(All)
      /\ c \in All /\ r[c].parent \in All \cup {Null}
  <2>1. Linked(r, Lists(r)) /\ c \in All
    BY Names DEF WellLinked
  <2>2. \A q \in All : Lists(r)[q] \in Seq(All)
    BY <2>1 DEF Linked
  <2> QED  BY <2>1, <2>2, LinkedType DEF Lists
<1>2. CASE r[c].parent = p
  <2>1. u = r
    BY <1>2 DEF Reparented
  <2> QED  BY <2>1, <1>1, <1>2, OrderKept
<1>3. CASE r[c].parent # p
  <2>1. /\ WellLinked(r1)
        /\ \A x \in All : r1[x].parent = IF x = c THEN Null ELSE r[x].parent
        /\ \A q \in All : q # r[c].parent => Kids(r1, q) = Kids(r, q)
        /\ \A q \in All : Forest!KeepsOrder(Kids(r, q), Kids(r1, q))
    <3>1. CASE r[c].parent \in All
      <4>1. r1 = Unlink(r, r[c].parent, c)
        BY <3>1
      <4> HIDE DEF r1
      <4>2. /\ WellLinked(r1)
            /\ \A x \in All : r1[x].parent = IF x = c THEN Null ELSE r[x].parent
            /\ \A q \in All : q # r[c].parent => Kids(r1, q) = Kids(r, q)
            /\ Forest!KeepsOrder(Kids(r, r[c].parent), Kids(r1, r[c].parent))
        BY <3>1, <4>1, LeaveKeeps
      <4>3. \A q \in All : Forest!KeepsOrder(Kids(r, q), Kids(r, q))
        BY <1>1, OrderKept
      <4> QED  BY <4>2, <4>3
    <3>2. CASE r[c].parent \notin All
      BY <3>2, <1>1, OrderKept
    <3> QED  BY <3>1, <3>2
  <2>2. u = IF p # Null THEN Appended(r1, p, c)
            ELSE [r1 EXCEPT ![c].parent = Null, ![c].prev = Null, ![c].next = Null]
    BY <1>3 DEF Reparented
  <2> HIDE DEF r1
  <2>3. CASE p # Null
    <3>1. p \in All /\ u = Appended(r1, p, c) /\ r1[c].parent = Null
      BY <2>1, <2>2, <2>3, <1>1
    <3>2. /\ WellLinked(u)
          /\ \A x \in All : u[x].parent = IF x = c THEN p ELSE r1[x].parent
          /\ \A q \in All : q # p => Kids(u, q) = Kids(r1, q)
          /\ Forest!KeepsOrder(Kids(r1, p), Kids(u, p))
      BY <3>1, <2>1, JoinKeeps
    <3>3. Kids(r1, p) = Kids(r, p)
      BY <3>1, <2>1, <1>3
    <3> HIDE DEF u
    <3>4. \A q \in All : Forest!KeepsOrder(Kids(r, q), Kids(u, q))
      <4> SUFFICES ASSUME NEW q \in All
                   PROVE  Forest!KeepsOrder(Kids(r, q), Kids(u, q))
        OBVIOUS
      <4>1. CASE q = p
        BY <4>1, <3>2, <3>3
      <4>2. CASE q # p
        <5>1. Kids(u, q) = Kids(r1, q)
          BY <4>2, <3>2
        <5> QED  BY <5>1, <2>1
      <4> QED  BY <4>1, <4>2
    <3> QED  BY <3>2, <3>4, <2>1 DEF u
  <2>4. CASE p = Null
    <3>1. /\ r1 \in [All -> Relationship] /\ r1[c].parent = Null
          /\ r1[c].prev = Null /\ r1[c].next = Null
      <4>1. Linked(r1, Lists(r1)) /\ c \in All /\ r1[c].parent = Null /\ Null \notin All
        BY <2>1, <1>1, Names DEF WellLinked
      <4> QED  BY <4>1 DEF Linked
    <3>2. [r1 EXCEPT ![c].parent = Null, ![c].prev = Null, ![c].next = Null] = r1
      <4>1. [r1 EXCEPT ![c].parent = Null] = r1
        BY <3>1 DEF Relationship
      <4>2. [r1 EXCEPT ![c].prev = Null] = r1
        BY <3>1 DEF Relationship
      <4>3. [r1 EXCEPT ![c].next = Null] = r1
        BY <3>1 DEF Relationship
      <4>4. [r1 EXCEPT ![c].parent = Null, ![c].prev = Null, ![c].next = Null]
              = [[[r1 EXCEPT ![c].parent = Null] EXCEPT ![c].prev = Null] EXCEPT ![c].next = Null]
        OBVIOUS
      <4> QED  BY <4>1, <4>2, <4>3, <4>4
    <3>3. u = r1
      BY <2>2, <2>4, <3>2
    <3> QED  BY <2>1, <2>4, <3>3
  <2> QED  BY <2>3, <2>4
<1> QED  BY <1>2, <1>3

LEMMA FreshLinked ==
  LET r == [x \in All |-> Fresh] IN WellLinked(r)
<1> DEFINE r == [x \in All |-> Fresh]
           L == [x \in All |-> <<>>]
<1>1. Linked(r, L)
  <2>1. Fresh \in Relationship
    <3>1. 0 \in 0..N
      BY Names
    <3> QED  BY <3>1 DEF Fresh, Relationship, N
  <2>2. L \in [All -> Seq(All)] /\ r \in [All -> Relationship]
    BY <2>1
  <2>3. IsInjective(<<>>) /\ Len(<<>>) = 0 /\ Entry(<<>>, 1) = Null
    BY DEF IsInjective, Entry
  <2>4. \A x \in All : L[x] = <<>> /\ r[x] = Fresh
    OBVIOUS
  <2> HIDE DEF L, r
  <2>5. \A p \in All : 1..Len(L[p]) = {}
    BY <2>3, <2>4
  <2> QED  BY <2>2, <2>3, <2>4, <2>5, Names DEF Linked, Fresh
<1> QED  BY <1>1, ListsAre

\* Nobody points at an entity that has neither parent nor children.
LEMMA Unreferenced ==
  ASSUME NEW r, WellLinked(r), NEW e \in All, r[e].parent = Null, r[e].children = 0,
         NEW x \in All
  PROVE  r[x].parent # e /\ r[x].first # e /\ r[x].prev # e /\ r[x].next # e
<1> DEFINE L == Lists(r)
<1>1. Linked(r, L) /\ Null \notin All
  BY Names DEF WellLinked
<1> HIDE DEF L
<1>2. \A p \in All, i \in Int : L[p] \in Seq(All) /\ Entry(L[p], i) # e
  <2> SUFFICES ASSUME NEW p \in All, NEW i \in Int, Entry(L[p], i) = e
               PROVE  FALSE
    BY <1>1 DEF Linked
  <2>1. i \in 1..Len(L[p]) /\ L[p][i] = e
    BY <1>1 DEF Entry
  <2>2. r[e].parent = p
    BY <1>1, <2>1 DEF Linked
  <2> QED  BY <2>2, <1>1
<1>3. r[x].first # e
  BY <1>1, <1>2 DEF Linked
<1>4. r[x].parent # e
  <2> SUFFICES ASSUME r[x].parent = e PROVE FALSE
    OBVIOUS
  <2>1. \E i \in 1..Len(L[e]) : L[e][i] = x
    BY <1>1 DEF Linked
  <2>2. Len(L[e]) = 0
    BY <1>1 DEF Linked
  <2> QED  BY <2>1, <2>2
<1>5. r[x].prev # e /\ r[x].next # e
  <2>1. CASE r[x].parent = Null /\ r[x].prev = Null /\ r[x].next = Null
    BY <2>1, <1>1
  <2>2. CASE r[x].parent \in All /\ \E i \in 1..Len(L[r[x].parent]) : L[r[x].parent][i] = x
    <3> DEFINE p == r[x].parent
    <3>1. PICK i \in 1..Len(L[p]) : L[p][i] = x
      BY <2>2
    <3> HIDE DEF p
    <3>2. p \in All /\ i - 1 \in Int /\ i + 1 \in Int
      BY <2>2, <1>2 DEF p
    <3>3. r[x].prev = Entry(L[p], i - 1) /\ r[x].next = Entry(L[p], i + 1)
      BY <3>1, <3>2, <1>1 DEF Linked
    <3> QED  BY <3>2, <3>3, <1>2
  <2> QED  BY <2>1, <2>2, <1>1 DEF Linked
<1> QED  BY <1>3, <1>4, <1>5

\* An entity without children leaves the hierarchy as remove_child would leave it.
LEMMA DestroyKeeps ==
  ASSUME NEW r, WellLinked(r), NEW e \in Entities, r[e].children = 0
  PROVE  LET u == Destroyed(r, e) IN
         /\ WellLinked(u)
         /\ \A x \in All : u[x].parent = IF x = e THEN Null ELSE r[x].parent
         /\ \A q \in All : Forest!KeepsOrder(Kids(r, q), Kids(u, q))
<1> DEFINE r1 == IF r[e].parent \in All THEN Unlink(r, r[e].parent, e) ELSE r
           u == Destroyed(r, e)
           buried(h) == IF h = e THEN Dead ELSE h
<1>1. /\ \A q \in All : Kids(r, q) \in Seq(All)
      /\ e \in All /\ r[e].parent \in All \cup {Null}
  <2>1. Linked(r, Lists(r)) /\ e \in All
    BY Names DEF WellLinked
  <2>2. \A q \in All : Lists(r)[q] \in Seq(All)
    BY <2>1 DEF Linked
  <2> QED  BY <2>1, <2>2, LinkedType DEF Lists
<1>2. \A q \in All : Forest!KeepsOrder(Kids(r, q), Kids(r, q))
  BY <1>1, OrderKept
<1>3. /\ WellLinked(r1) /\ r1[e].children = 0
      /\ \A x \in All : r1[x].parent = IF x = e THEN Null ELSE r[x].parent
      /\ \A q \in All : Forest!KeepsOrder(Kids(r, q), Kids(r1, q))
  <2>1. CASE r[e].parent \in All
    <3>1. r1 = Unlink(r, r[e].parent, e)
      BY <2>1
    <3> HIDE DEF r1
    <3>2. /\ WellLinked(r1) /\ r1[e].children = 0
          /\ \A x \in All : r1[x].parent = IF x = e THEN Null ELSE r[x].parent
          /\ \A q \in All : q # r[e].parent => Kids(r1, q) = Kids(r, q)
          /\ Forest!KeepsOrder(Kids(r, r[e].parent), Kids(r1, r[e].parent))
      BY <2>1, <3>1, <1>1, LeaveKeeps
    <3> QED  BY <3>2, <1>2
  <2>2. CASE r[e].parent \notin All
    BY <2>2, <1>1, <1>2
  <2> QED  BY <2>1, <2>2
<1>4. u = [x \in All |-> IF x = e THEN Fresh
                         ELSE [parent |-> buried(r1[x].parent), first |-> buried(r1[x].first),
                               prev |-> buried(r1[x].prev), next |-> buried(r1[x].next),
                               children |-> r1[x].children]]
  BY DEF Destroyed
<1> HIDE DEF r1, u
<1>5. r1[e].parent = Null
  BY <1>1, <1>3
<1>6. r1 \in [All -> Relationship] /\ Linked(r1, Lists(r1))
  BY <1>3 DEF WellLinked, Linked
<1>7. r1[e] = Fresh
  <2>1. r1[e].prev = Null /\ r1[e].next = Null
    BY <1>1, <1>5, <1>6, Names DEF Linked
  <2>2. r1[e].first = Null
    <3>1. Lists(r1)[e] \in Seq(All) /\ Len(Lists(r1)[e]) = 0 /\ r1[e].first = Entry(Lists(r1)[e], 1)
      BY <1>1, <1>3, <1>6 DEF Linked
    <3> QED  BY <3>1 DEF Entry
  <2> QED  BY <2>1, <2>2, <1>1, <1>3, <1>5, <1>6 DEF Fresh, Relationship
<1>8. ASSUME NEW x \in All, x # e
      PROVE  [parent |-> buried(r1[x].parent), first |-> buried(r1[x].first),
              prev |-> buried(r1[x].prev), next |-> buried(r1[x].next),
              children |-> r1[x].children] = r1[x]
  <2>1. r1[x].parent # e /\ r1[x].first # e /\ r1[x].prev # e /\ r1[x].next # e
    BY <1>1, <1>3, <1>5, Unreferenced
  <2>2. r1[x] \in Relationship
    BY <1>6
  <2> QED  BY <2>1, <2>2 DEF Relationship
<1>9. u = r1
  BY <1>4, <1>6, <1>7, <1>8
<1> QED  BY <1>3, <1>9 DEF u

-----------------------------------------------------------------------------
(* Calls of set_parent, one after the other *)

AreCalls(s) ==
  /\ Len(s) \in Nat /\ DOMAIN s = 1..Len(s)
  /\ \A i \in 1..Len(s) : s[i].name \in Entities /\ s[i].parent \in All \cup {Null}
Distinct(s) == \A i, j \in 1..Len(s) : s[i].name = s[j].name => i = j
Relations == {r \in [All -> Relationship] : WellLinked(r)}

LEMMA MovedIs ==
  ASSUME NEW r, WellLinked(r), NEW s, AreCalls(s)
  PROVE  \E f \in [0..Len(s) -> Relations] :
           /\ f[0] = r
           /\ \A i \in 1..Len(s) : f[i] = Reparented(f[i - 1], s[i].name, s[i].parent)
           /\ Moved(r, s) = [rel |-> f[Len(s)], bad |-> FALSE]
<1> DEFINE n == Len(s)
           V == {[rel |-> x, bad |-> FALSE] : x \in Relations}
           Call(i, acc) ==
             IF acc.bad \/ Dangling(acc.rel, s[i].name, s[i].parent)
               THEN [acc EXCEPT !.bad = TRUE]
               ELSE [acc EXCEPT !.rel = Reparented(acc.rel, s[i].name, s[i].parent)]
           b == [rel |-> r, bad |-> FALSE]
           step == [i \in 1..n |-> [v \in V |-> Call(i, v)]]
           Is(g) == g = [i \in 0..n |-> IF i = 0 THEN b ELSE Call(i, g[i - 1])]
<1>1. n \in Nat /\ \A i \in 1..n : s[i].name \in Entities /\ s[i].parent \in All \cup {Null}
  BY DEF AreCalls
<1>2. b \in V
  <2>1. r \in Relations
    BY DEF Relations, WellLinked, Linked
  <2> QED  BY <2>1
<1>3. ASSUME NEW i \in 1..n, NEW x \in Relations
      PROVE  /\ Call(i, [rel |-> x, bad |-> FALSE])
                  = [rel |-> Reparented(x, s[i].name, s[i].parent), bad |-> FALSE]
             /\ Reparented(x, s[i].name, s[i].parent) \in Relations
  <2>1. WellLinked(x) /\ s[i].name \in Entities /\ s[i].name \in All /\ s[i].parent \in All \cup {Null}
    BY <1>1, Names DEF Relations
  <2>2. ~Dangling(x, s[i].name, s[i].parent)
    BY <2>1, NeverDangling
  <2>3. WellLinked(Reparented(x, s[i].name, s[i].parent))
    BY <2>1, ReparentKeeps
  <2>4. Reparented(x, s[i].name, s[i].parent) \in Relations
    BY <2>3 DEF Relations, WellLinked, Linked
  <2> QED  BY <2>2, <2>4
<1>4. StaysIn(V, step, n)
  <2> SUFFICES ASSUME NEW i \in 1..n, NEW v \in V PROVE Call(i, v) \in V
    BY DEF StaysIn
  <2>1. PICK x \in Relations : v = [rel |-> x, bad |-> FALSE]
    OBVIOUS
  <2> HIDE DEF Call
  <2> QED  BY <2>1, <1>3
<1> HIDE DEF V, b
<1>5. PICK g \in [0..n -> V] : Follows(g, b, step, n)
  <2> HIDE DEF step, n
  <2> QED  BY <1>1, <1>2, <1>4, Iteration
<1>6. g[0] = b /\ \A i \in 1..n : g[i] = Call(i, g[i - 1])
  <2>1. g[0] = b /\ \A i \in 1..n : g[i] = step[i][g[i - 1]] /\ g[i - 1] \in V
    BY <1>1, <1>5 DEF Follows
  <2> HIDE DEF Call
  <2> QED  BY <2>1
<1>7. Is(g)
  <2> HIDE DEF Call
  <2>1. \A i \in 0..n : g[i] = IF i = 0 THEN b ELSE Call(i, g[i - 1])
    BY <1>1, <1>6
  <2> QED  BY <2>1
<1> DEFINE h == CHOOSE k : Is(k)
<1>8. Is(h)
  BY <1>7, Zenon
<1>9. Moved(r, s) = h[n]
  BY DEF Moved, b
<1> HIDE DEF h
<1>10. DOMAIN h = 0..n /\ h[0] = b /\ \A i \in 1..n : h[i] = Call(i, h[i - 1])
  <2> HIDE DEF Call
  <2> QED  BY <1>1, <1>8
<1> HIDE DEF Is, step, Call
<1>11. \A i \in 0..n : h[i] \in V
  <2> DEFINE T == {i \in 0..n : h[i] \in V}
  <2>1. 0 \in T
    BY <1>1, <1>2, <1>10
  <2>2. ASSUME NEW i \in 1..n, i - 1 \in T
        PROVE  i \in T
    <3>1. PICK x \in Relations : h[i - 1] = [rel |-> x, bad |-> FALSE]
      BY <2>2 DEF V
    <3>2. h[i] = Call(i, [rel |-> x, bad |-> FALSE])
      BY <3>1, <1>10
    <3>3. /\ h[i] = [rel |-> Reparented(x, s[i].name, s[i].parent), bad |-> FALSE]
          /\ Reparented(x, s[i].name, s[i].parent) \in Relations
      BY <3>2, <1>3
    <3>4. h[i] \in V
      BY <3>3, Zenon DEF V
    <3>5. i \in 0..n
      BY <1>1
    <3> QED  BY <3>4, <3>5
  <2> HIDE DEF T
  <2>3. \A i \in 1..n : i - 1 \in T => i \in T
    BY <2>2
  <2>4. \A i \in 0..n : i \in T
    BY <2>1, <2>3, <1>1, Induction, Zenon
  <2> QED  BY <2>4 DEF T
<1> DEFINE f == [i \in 0..n |-> h[i].rel]
<1>12. \A i \in 0..n : f[i] \in Relations /\ h[i] = [rel |-> f[i], bad |-> FALSE]
  <2> SUFFICES ASSUME NEW i \in 0..n
               PROVE  f[i] \in Relations /\ h[i] = [rel |-> f[i], bad |-> FALSE]
    OBVIOUS
  <2>1. PICK x \in Relations : h[i] = [rel |-> x, bad |-> FALSE]
    BY <1>11 DEF V
  <2>2. f[i] = x
    BY <2>1
  <2> QED  BY <2>1, <2>2
<1>13. f \in [0..n -> Relations]
  BY <1>12
<1> HIDE DEF f
<1>14. f[0] = r
  BY <1>1, <1>10, <1>12 DEF b
<1>15. ASSUME NEW i \in 1..n
       PROVE  f[i] = Reparented(f[i - 1], s[i].name, s[i].parent)
  <2>1. i - 1 \in 0..n /\ i \in 0..n
    BY <1>1
  <2>2. h[i - 1] = [rel |-> f[i - 1], bad |-> FALSE] /\ h[i] = [rel |-> f[i], bad |-> FALSE]
        /\ f[i - 1] \in Relations
    BY <2>1, <1>12
  <2>3. h[i] = [rel |-> Reparented(f[i - 1], s[i].name, s[i].parent), bad |-> FALSE]
    BY <2>2, <1>3, <1>10
  <2> QED  BY <2>2, <2>3
<1>16. Moved(r, s) = [rel |-> f[n], bad |-> FALSE]
  BY <1>1, <1>9, <1>12
<1> QED  BY <1>13, <1>14, <1>15, <1>16

LEMMA KidsFacts ==
  ASSUME NEW r, WellLinked(r), NEW p \in All
  PROVE  /\ r \in [All -> Relationship] /\ r[Scene].parent = Null
         /\ Kids(r, p) \in Seq(All) /\ IsInjective(Kids(r, p))
         /\ ToSet(Kids(r, p)) = {c \in All : r[c].parent = p}
         /\ r[p].children = Len(Kids(r, p))
         /\ \A i \in 1..Len(Kids(r, p)) : r[Kids(r, p)[i]].prev = Entry(Kids(r, p), i - 1)
<1> DEFINE L == Lists(r)
<1>1. Linked(r, L) /\ L[p] = Kids(r, p)
  BY DEF WellLinked, Lists
<1> HIDE DEF L
<1>2. L[p] \in Seq(All) /\ DOMAIN L[p] = 1..Len(L[p])
  BY <1>1 DEF Linked
<1>3. ASSUME NEW c \in ToSet(L[p])
      PROVE  c \in All /\ r[c].parent = p
  <2>1. PICK i \in 1..Len(L[p]) : L[p][i] = c
    BY <1>2 DEF ToSet
  <2>2. L[p][i] \in All
    BY <1>2
  <2>3. r[L[p][i]].parent = p
    BY <1>1 DEF Linked
  <2> QED  BY <2>1, <2>2, <2>3
<1>4. ASSUME NEW c \in All, r[c].parent = p
      PROVE  c \in ToSet(L[p])
  <2>1. \E i \in 1..Len(L[p]) : L[p][i] = c
    BY <1>1, <1>4, Names DEF Linked
  <2> QED  BY <2>1, <1>2 DEF ToSet
<1>5. ToSet(L[p]) = {c \in All : r[c].parent = p}
  BY <1>3, <1>4
<1>6. /\ r \in [All -> Relationship] /\ r[Scene].parent = Null /\ IsInjective(L[p])
      /\ r[p].children = Len(L[p])
      /\ \A i \in 1..Len(L[p]) : r[L[p][i]].prev = Entry(L[p], i - 1)
  BY <1>1 DEF Linked
<1> QED  BY <1>1, <1>2, <1>5, <1>6

LEMMA OrderComposes ==
  ASSUME NEW a, NEW b, NEW c, Forest!KeepsOrder(a, b), Forest!KeepsOrder(b, c),
         \A x \in ToSet(a) : x \in ToSet(c) => x \in ToSet(b)
  PROVE  Forest!KeepsOrder(a, c)
<1> SUFFICES ASSUME NEW i \in DOMAIN c, NEW j \in DOMAIN c, i < j, c[j] \in ToSet(a)
             PROVE  \E k, l \in DOMAIN a : k < l /\ a[k] = c[i] /\ a[l] = c[j]
  BY DEF Forest!KeepsOrder, Forest!ToSet, ToSet
<1>1. c[j] \in ToSet(b)
  BY DEF ToSet
<1>2. PICK k, l \in DOMAIN b : k < l /\ b[k] = c[i] /\ b[l] = c[j]
  BY <1>1 DEF Forest!KeepsOrder, Forest!ToSet, ToSet
<1>3. b[l] \in ToSet(a)
  BY <1>2
<1> QED  BY <1>2, <1>3 DEF Forest!KeepsOrder, Forest!ToSet, ToSet

\* The calls leave whom they do not name where it was; one that they name once gets the
\* parent of that call; and if they name nobody twice, all lists keep their order.
LEMMA MoveKeeps ==
  ASSUME NEW r, WellLinked(r), NEW s, AreCalls(s)
  PROVE  LET u == Moved(r, s).rel IN
         /\ ~Moved(r, s).bad
         /\ WellLinked(u)
         /\ \A x \in All : \/ u[x].parent = r[x].parent
                           \/ \E i \in 1..Len(s) : s[i].name = x /\ s[i].parent = u[x].parent
         /\ \A x \in All : (\A i \in 1..Len(s) : s[i].name # x) => u[x].parent = r[x].parent
         /\ Distinct(s) => /\ \A i \in 1..Len(s) : u[s[i].name].parent = s[i].parent
                           /\ \A q \in All : Forest!KeepsOrder(Kids(r, q), Kids(u, q))
<1> DEFINE n == Len(s)
           u == Moved(r, s).rel
<1>1. n \in Nat /\ \A i \in 1..n : /\ s[i].name \in Entities /\ s[i].name \in All
                                   /\ s[i].parent \in All \cup {Null}
  BY Names DEF AreCalls
<1>2. PICK f \in [0..n -> Relations] :
           /\ f[0] = r
           /\ \A i \in 1..n : f[i] = Reparented(f[i - 1], s[i].name, s[i].parent)
           /\ Moved(r, s) = [rel |-> f[n], bad |-> FALSE]
  BY MovedIs
<1>3. u = f[n] /\ ~Moved(r, s).bad
  BY <1>2
<1> HIDE DEF u
<1>4. \A i \in 0..n : WellLinked(f[i])
  BY <1>2 DEF Relations
<1>5. ASSUME NEW i \in 1..n
      PROVE  /\ \A x \in All : f[i][x].parent
                                 = IF x = s[i].name THEN s[i].parent ELSE f[i - 1][x].parent
             /\ \A q \in All : Forest!KeepsOrder(Kids(f[i - 1], q), Kids(f[i], q))
  <2>1. WellLinked(f[i - 1])
    BY <1>1, <1>4
  <2> QED  BY <2>1, <1>1, <1>2, ReparentKeeps
<1>6. ASSUME NEW x \in All
      PROVE  \A i \in 0..n : (\A k \in 1..i : s[k].name # x) => f[i][x].parent = r[x].parent
  <2> DEFINE T == {i \in 0..n : (\A k \in 1..i : s[k].name # x) => f[i][x].parent = r[x].parent}
  <2>1. 0 \in T
    BY <1>1, <1>2
  <2>2. ASSUME NEW i \in 1..n, i - 1 \in T
        PROVE  i \in T
    <3> SUFFICES ASSUME \A k \in 1..i : s[k].name # x
                 PROVE  f[i][x].parent = r[x].parent
      BY <1>1
    <3>1. f[i - 1][x].parent = r[x].parent
      BY <2>2
    <3>2. s[i].name # x
      OBVIOUS
    <3> QED  BY <3>1, <3>2, <1>5
  <2> HIDE DEF T
  <2>3. \A i \in 1..n : i - 1 \in T => i \in T
    BY <2>2
  <2>4. \A i \in 0..n : i \in T
    BY <2>1, <2>3, <1>1, Induction, Zenon
  <2> QED  BY <2>4 DEF T
<1>7. ASSUME NEW x \in All
      PROVE  \A i \in 0..n : \/ f[i][x].parent = r[x].parent
                             \/ \E k \in 1..i : s[k].name = x /\ s[k].parent = f[i][x].parent
  <2> DEFINE T == {i \in 0..n : \/ f[i][x].parent = r[x].parent
                                \/ \E k \in 1..i : s[k].name = x /\ s[k].parent = f[i][x].parent}
  <2>1. 0 \in T
    BY <1>1, <1>2
  <2>2. ASSUME NEW i \in 1..n, i - 1 \in T
        PROVE  i \in T
    <3>1. i \in 0..n /\ i \in 1..i /\ \A k \in 1..(i - 1) : k \in 1..i
      BY <1>1
    <3>2. CASE s[i].name = x
      <4>1. f[i][x].parent = s[i].parent
        BY <3>2, <1>5
      <4> QED  BY <4>1, <3>1, <3>2
    <3>3. CASE s[i].name # x
      <4>1. f[i][x].parent = f[i - 1][x].parent
        BY <3>3, <1>5
      <4> QED  BY <4>1, <3>1, <2>2
    <3> QED  BY <3>2, <3>3
  <2> HIDE DEF T
  <2>3. \A i \in 1..n : i - 1 \in T => i \in T
    BY <2>2
  <2>4. \A i \in 0..n : i \in T
    BY <2>1, <2>3, <1>1, Induction, Zenon
  <2> QED  BY <2>4 DEF T
<1>8. ASSUME Distinct(s), NEW k \in 1..n
      PROVE  u[s[k].name].parent = s[k].parent
  <2> DEFINE x == s[k].name
             T == {i \in 0..n : i >= k => f[i][x].parent = s[k].parent}
  <2>0. x \in All
    BY <1>1
  <2>1. 0 \in T
    BY <1>1
  <2>2. ASSUME NEW i \in 1..n, i - 1 \in T
        PROVE  i \in T
    <3>1. i \in 0..n
      BY <1>1
    <3>2. CASE i = k
      <4>1. f[i][x].parent = s[k].parent
        BY <3>2, <1>5, <2>0
      <4> QED  BY <4>1, <3>1
    <3>3. CASE i > k
      <4>1. s[i].name # x
        BY <3>3, <1>8 DEF Distinct
      <4>2. f[i][x].parent = f[i - 1][x].parent
        BY <4>1, <1>5, <2>0
      <4>3. i - 1 >= k
        BY <3>3
      <4> QED  BY <4>2, <4>3, <2>2, <3>1
    <3>4. CASE i < k
      BY <3>1, <3>4
    <3> QED  BY <3>2, <3>3, <3>4
  <2> HIDE DEF T
  <2>3. \A i \in 1..n : i - 1 \in T => i \in T
    BY <2>2
  <2>4. \A i \in 0..n : i \in T
    BY <2>1, <2>3, <1>1, Induction, Zenon
  <2> QED  BY <2>4, <1>1, <1>3 DEF T
<1>9. ASSUME Distinct(s), NEW q \in All
      PROVE  Forest!KeepsOrder(Kids(r, q), Kids(u, q))
  <2> DEFINE T == {i \in 0..n : Forest!KeepsOrder(Kids(r, q), Kids(f[i], q))}
  <2>1. 0 \in T
    <3>1. Kids(r, q) \in Seq(All)
      BY KidsFacts
    <3> QED  BY <3>1, <1>1, <1>2, OrderKept
  <2>2. ASSUME NEW i \in 1..n, i - 1 \in T
        PROVE  i \in T
    <3> DEFINE a == Kids(r, q)
               b == Kids(f[i - 1], q)
               c == Kids(f[i], q)
    <3>1. i - 1 \in 0..n /\ i \in 0..n
      BY <1>1
    <3>2. WellLinked(f[i - 1]) /\ WellLinked(f[i])
      BY <3>1, <1>4
    <3>3. /\ \A x \in All : x \in ToSet(a) <=> r[x].parent = q
          /\ \A x \in All : x \in ToSet(b) <=> f[i - 1][x].parent = q
          /\ \A x \in All : x \in ToSet(c) <=> f[i][x].parent = q
          /\ ToSet(c) \subseteq All
      BY <3>2, KidsFacts
    <3>4. Forest!KeepsOrder(a, b)
      BY <2>2
    <3>5. Forest!KeepsOrder(b, c)
      BY <1>5
    <3>6. ASSUME NEW x \in ToSet(a), x \in ToSet(c), x \notin ToSet(b)
          PROVE  FALSE
      <4>1. x \in All /\ r[x].parent = q /\ f[i - 1][x].parent # q /\ f[i][x].parent = q
        BY <3>3, <3>6
      <4>2. s[i].name = x
        BY <4>1, <1>5
      <4>3. \A k \in 1..(i - 1) : s[k].name # x
        BY <4>2, <1>1, <1>9 DEF Distinct
      <4>4. f[i - 1][x].parent = r[x].parent
        BY <4>1, <4>3, <3>1, <1>6
      <4> QED  BY <4>1, <4>4
    <3> HIDE DEF a, b, c
    <3>7. Forest!KeepsOrder(a, c)
      BY <3>4, <3>5, <3>6, OrderComposes
    <3> QED  BY <3>1, <3>7 DEF a, c
  <2> HIDE DEF T
  <2>3. \A i \in 1..n : i - 1 \in T => i \in T
    BY <2>2
  <2>4. \A i \in 0..n : i \in T
    BY <2>1, <2>3, <1>1, Induction, Zenon
  <2> QED  BY <2>4, <1>1, <1>3 DEF T
<1>10. \A x \in All : \/ u[x].parent = r[x].parent
                      \/ \E i \in 1..n : s[i].name = x /\ s[i].parent = u[x].parent
  BY <1>1, <1>3, <1>7
<1>11. \A x \in All : (\A i \in 1..n : s[i].name # x) => u[x].parent = r[x].parent
  BY <1>1, <1>3, <1>6
<1>12. WellLinked(u)
  BY <1>1, <1>3, <1>4
<1> QED  BY <1>3, <1>8, <1>9, <1>10, <1>11, <1>12 DEF u

-----------------------------------------------------------------------------
(* The entities in the scene *)

LEMMA Elements ==
  ASSUME NEW S, NEW s \in Seq(S)
  PROVE  /\ ToSet(s) = {s[i] : i \in 1..Len(s)} /\ ToSet(s) \subseteq S
         /\ \A x : x \in ToSet(s) <=> \E i \in 1..Len(s) : s[i] = x
         /\ IsInjective(s) <=> \A i, j \in 1..Len(s) : s[i] = s[j] => i = j
<1>1. DOMAIN s = 1..Len(s) /\ \A i \in 1..Len(s) : s[i] \in S
  OBVIOUS
<1> QED  BY <1>1 DEF ToSet, IsInjective

LEMMA Joined ==
  ASSUME NEW S, NEW s \in Seq(S), NEW t \in Seq(S)
  PROVE  /\ s \o t \in Seq(S) /\ ToSet(s \o t) = ToSet(s) \cup ToSet(t)
         /\ IsInjective(s) /\ IsInjective(t) /\ ToSet(s) \cap ToSet(t) = {}
              => IsInjective(s \o t)
<1> DEFINE u == s \o t
<1>1. /\ u \in Seq(S) /\ Len(u) = Len(s) + Len(t) /\ Len(s) \in Nat /\ Len(t) \in Nat
      /\ \A i \in 1..Len(u) : u[i] = IF i <= Len(s) THEN s[i] ELSE t[i - Len(s)]
  OBVIOUS
<1> HIDE DEF u
<1>2. ASSUME NEW x \in ToSet(u)
      PROVE  x \in ToSet(s) \cup ToSet(t)
  <2>1. PICK i \in 1..Len(u) : u[i] = x
    BY <1>1, Elements
  <2>2. CASE i <= Len(s)
    <3>1. i \in 1..Len(s) /\ s[i] = x
      BY <2>1, <2>2, <1>1
    <3> QED  BY <3>1, Elements
  <2>3. CASE i > Len(s)
    <3>1. i - Len(s) \in 1..Len(t) /\ t[i - Len(s)] = x
      BY <2>1, <2>3, <1>1
    <3> QED  BY <3>1, Elements
  <2> QED  BY <2>2, <2>3, <1>1
<1>3. ASSUME NEW x \in ToSet(s)
      PROVE  x \in ToSet(u)
  <2>1. PICK i \in 1..Len(s) : s[i] = x
    BY Elements
  <2>2. i \in 1..Len(u) /\ u[i] = x
    BY <2>1, <1>1
  <2> QED  BY <2>2, <1>1, Elements
<1>4. ASSUME NEW x \in ToSet(t)
      PROVE  x \in ToSet(u)
  <2>1. PICK i \in 1..Len(t) : t[i] = x
    BY Elements
  <2>2. i + Len(s) \in 1..Len(u) /\ u[i + Len(s)] = x
    BY <2>1, <1>1
  <2> QED  BY <2>2, <1>1, Elements
<1>5. ASSUME IsInjective(s), IsInjective(t), ToSet(s) \cap ToSet(t) = {},
             NEW i \in 1..Len(u), NEW j \in 1..Len(u), u[i] = u[j]
      PROVE  i = j
  <2>1. ASSUME NEW a \in 1..Len(u), NEW b \in 1..Len(u), u[a] = u[b],
               a <= Len(s), b > Len(s)
        PROVE  FALSE
    <3>1. a \in 1..Len(s) /\ b - Len(s) \in 1..Len(t) /\ s[a] = t[b - Len(s)]
      BY <2>1, <1>1
    <3>2. s[a] \in ToSet(s) /\ t[b - Len(s)] \in ToSet(t)
      BY <3>1, Elements
    <3> QED  BY <3>1, <3>2, <1>5
  <2>2. CASE i <= Len(s) /\ j <= Len(s)
    <3>1. i \in 1..Len(s) /\ j \in 1..Len(s) /\ s[i] = s[j]
      BY <2>2, <1>1, <1>5
    <3> QED  BY <3>1, <1>5, Elements
  <2>3. CASE i > Len(s) /\ j > Len(s)
    <3>1. /\ i - Len(s) \in 1..Len(t) /\ j - Len(s) \in 1..Len(t)
          /\ t[i - Len(s)] = t[j - Len(s)]
      BY <2>3, <1>1, <1>5
    <3>2. i - Len(s) = j - Len(s)
      BY <3>1, <1>5, Elements
    <3> QED  BY <3>2, <1>1
  <2>4. /\ i <= Len(s) => ~(j > Len(s))
        /\ j <= Len(s) => ~(i > Len(s))
    BY <2>1, <1>5
  <2> QED  BY <2>2, <2>3, <2>4, <1>1
<1>6. IsInjective(s) /\ IsInjective(t) /\ ToSet(s) \cap ToSet(t) = {} => IsInjective(u)
  BY <1>1, <1>5, Elements
<1>7. ToSet(u) = ToSet(s) \cup ToSet(t)
  BY <1>2, <1>3, <1>4
<1> QED  BY <1>1, <1>6, <1>7 DEF u

LEMMA HeadAndTail ==
  ASSUME NEW S, NEW s \in Seq(S), s # <<>>
  PROVE  /\ Head(s) \in S /\ Tail(s) \in Seq(S)
         /\ ToSet(s) = {Head(s)} \cup ToSet(Tail(s))
         /\ IsInjective(s) => IsInjective(Tail(s)) /\ Head(s) \notin ToSet(Tail(s))
<1> DEFINE t == Tail(s)
<1>1. /\ t \in Seq(S) /\ Head(s) = s[1] /\ Len(s) \in Nat \ {0} /\ Len(t) = Len(s) - 1
      /\ \A i \in 1..Len(t) : t[i] = s[i + 1]
  OBVIOUS
<1>2. Head(s) \in S
  BY <1>1
<1> HIDE DEF t
<1>3. ASSUME NEW x \in ToSet(s), x # Head(s)
      PROVE  x \in ToSet(t)
  <2>1. PICK i \in 1..Len(s) : s[i] = x
    BY Elements
  <2>2. i # 1
    BY <2>1, <1>1, <1>3
  <2>3. i - 1 \in 1..Len(t) /\ t[i - 1] = x
    BY <2>1, <2>2, <1>1
  <2> QED  BY <2>3, <1>1, Elements
<1>4. ASSUME NEW x \in ToSet(t)
      PROVE  \E i \in 2..Len(s) : s[i] = x
  <2>1. PICK i \in 1..Len(t) : t[i] = x
    BY <1>1, Elements
  <2>2. i + 1 \in 2..Len(s) /\ s[i + 1] = x
    BY <2>1, <1>1
  <2> QED  BY <2>2
<1>5. ToSet(s) = {Head(s)} \cup ToSet(t)
  <2>1. Head(s) \in ToSet(s)
    BY <1>1, Elements
  <2>2. \A x \in ToSet(t) : x \in ToSet(s)
    BY <1>4, Elements
  <2> QED  BY <2>1, <2>2, <1>3
<1>6. ASSUME IsInjective(s)
      PROVE  IsInjective(t) /\ Head(s) \notin ToSet(t)
  <2>1. ASSUME NEW i \in 1..Len(t), NEW j \in 1..Len(t), t[i] = t[j]
        PROVE  i = j
    <3>1. i + 1 \in 1..Len(s) /\ j + 1 \in 1..Len(s) /\ s[i + 1] = s[j + 1]
      BY <1>1, <2>1
    <3>2. i + 1 = j + 1
      BY <3>1, <1>6, Elements
    <3> QED  BY <3>2
  <2>2. ASSUME Head(s) \in ToSet(t)
        PROVE  FALSE
    <3>1. PICK i \in 2..Len(s) : s[i] = Head(s)
      BY <1>4, <2>2
    <3>2. i \in 1..Len(s) /\ 1 \in 1..Len(s) /\ s[i] = s[1]
      BY <3>1, <1>1
    <3> QED  BY <3>1, <3>2, <1>6, Elements
  <2> QED  BY <2>1, <2>2, <1>1, Elements
<1> QED  BY <1>1, <1>2, <1>5, <1>6 DEF t

LEMMA AddedLast ==
  ASSUME NEW S, NEW s \in Seq(S), NEW x \in S
  PROVE  /\ Append(s, x) \in Seq(S) /\ ToSet(Append(s, x)) = ToSet(s) \cup {x}
         /\ IsInjective(s) /\ x \notin ToSet(s) => IsInjective(Append(s, x))
<1> DEFINE t == <<x>>
<1>1. t \in Seq(S) /\ Len(t) = 1 /\ t[1] = x /\ Append(s, x) = s \o t
  OBVIOUS
<1> HIDE DEF t
<1>2. ToSet(t) = {x} /\ IsInjective(t)
  BY <1>1, Elements
<1> QED  BY <1>1, <1>2, Joined

\* The parent of each entity of a list is the scene or comes before it.
Rooted(r, d) ==
  \A k \in 1..Len(d) : \/ r[d[k]].parent = Scene
                       \/ \E j \in 1..(k - 1) : d[j] = r[d[k]].parent

\* What RecursiveChildIterator has seen, and what is still on its stack.
Visiting(r, seen, stack) ==
  /\ seen \in Seq(Entities) /\ stack \in Seq(Entities)
  /\ IsInjective(seen) /\ IsInjective(stack) /\ ToSet(seen) \cap ToSet(stack) = {}
  /\ Rooted(r, seen)
  /\ \A x \in ToSet(stack) : r[x].parent \in {Scene} \cup ToSet(seen)
  /\ \A c \in All : r[c].parent \in {Scene} \cup ToSet(seen)
                      => c \in ToSet(seen) \cup ToSet(stack)

LEMMA KidsInScene ==
  ASSUME NEW r, WellLinked(r), NEW p \in All
  PROVE  Kids(r, p) \in Seq(Entities)
<1>1. /\ r[Scene].parent = Null /\ Kids(r, p) \in Seq(All)
      /\ ToSet(Kids(r, p)) = {c \in All : r[c].parent = p}
  BY KidsFacts
<1>2. ASSUME NEW i \in 1..Len(Kids(r, p))
      PROVE  Kids(r, p)[i] \in Entities
  <2> DEFINE c == Kids(r, p)[i]
  <2>1. c \in ToSet(Kids(r, p))
    BY <1>1, Elements
  <2>2. c \in All /\ r[c].parent = p
    BY <1>1, <2>1
  <2>3. c # Scene
    BY <1>1, <2>2, Names
  <2> QED  BY <2>2, <2>3 DEF All
<1>3. Kids(r, p) \in [1..Len(Kids(r, p)) -> Entities] /\ Len(Kids(r, p)) \in Nat
  BY <1>1, <1>2
<1> QED  BY <1>3, SeqDef

LEMMA VisitStarts ==
  ASSUME NEW r, WellLinked(r)
  PROVE  Visiting(r, <<>>, Kids(r, Scene))
<1>1. /\ IsInjective(Kids(r, Scene))
      /\ ToSet(Kids(r, Scene)) = {c \in All : r[c].parent = Scene}
  BY KidsFacts, Names
<1>2. Kids(r, Scene) \in Seq(Entities)
  BY KidsInScene, Names
<1>3. <<>> \in Seq(Entities) /\ Len(<<>>) = 0 /\ DOMAIN <<>> = {}
  OBVIOUS
<1>4. IsInjective(<<>>) /\ ToSet(<<>>) = {} /\ Rooted(r, <<>>)
  BY <1>3 DEF IsInjective, ToSet, Rooted
<1> QED  BY <1>1, <1>2, <1>3, <1>4 DEF Visiting

LEMMA VisitGoesOn ==
  ASSUME NEW r, WellLinked(r), NEW seen, NEW stack, Visiting(r, seen, stack), stack # <<>>
  PROVE  Visiting(r, Append(seen, Head(stack)), Kids(r, Head(stack)) \o Tail(stack))
<1> DEFINE h == Head(stack)
           rest == Tail(stack)
           kids == Kids(r, h)
           seen1 == Append(seen, h)
           stack1 == kids \o rest
<1>1. /\ h \in Entities /\ h \in All /\ h # Scene /\ rest \in Seq(Entities)
      /\ ToSet(stack) = {h} \cup ToSet(rest) /\ IsInjective(rest) /\ h \notin ToSet(rest)
  BY HeadAndTail, Names DEF Visiting
<1> HIDE DEF h, rest
<1>2. kids \in Seq(Entities)
  BY <1>1, KidsInScene
<1>3. IsInjective(kids) /\ ToSet(kids) = {c \in All : r[c].parent = h}
  BY <1>1, KidsFacts
<1>4. h \notin ToSet(seen)
  BY <1>1 DEF Visiting
<1>5. /\ seen1 \in Seq(Entities) /\ ToSet(seen1) = ToSet(seen) \cup {h} /\ IsInjective(seen1)
  BY <1>1, <1>4, AddedLast DEF Visiting
<1>6. \A x \in ToSet(seen) : r[x].parent \in {Scene} \cup ToSet(seen)
  <2> SUFFICES ASSUME NEW x \in ToSet(seen)
               PROVE  r[x].parent \in {Scene} \cup ToSet(seen)
    OBVIOUS
  <2>0. seen \in Seq(Entities) /\ Len(seen) \in Nat
    BY DEF Visiting
  <2>1. PICK k \in 1..Len(seen) : seen[k] = x
    BY <2>0, Elements
  <2>2. CASE \E j \in 1..(k - 1) : seen[j] = r[x].parent
    <3>1. PICK j \in 1..(k - 1) : seen[j] = r[x].parent
      BY <2>2
    <3>2. j \in 1..Len(seen)
      BY <2>0
    <3> QED  BY <2>0, <3>1, <3>2, Elements
  <2> QED  BY <2>1, <2>2 DEF Visiting, Rooted
<1>7. \A x \in ToSet(seen) \cup ToSet(stack) : r[x].parent # h
  BY <1>1, <1>4, <1>6 DEF Visiting
<1>8. ToSet(kids) \cap ToSet(rest) = {} /\ ToSet(kids) \cap ToSet(seen1) = {}
  BY <1>1, <1>3, <1>5, <1>7
<1>9. stack1 \in Seq(Entities) /\ ToSet(stack1) = ToSet(kids) \cup ToSet(rest)
      /\ IsInjective(stack1)
  BY <1>1, <1>2, <1>3, <1>8, Joined
<1>10. ToSet(seen1) \cap ToSet(stack1) = {}
  BY <1>1, <1>5, <1>8, <1>9 DEF Visiting
<1>11. Rooted(r, seen1)
  <2>0. /\ seen \in Seq(Entities) /\ Len(seen) \in Nat /\ Len(seen1) = Len(seen) + 1
        /\ \A k \in 1..Len(seen) : seen1[k] = seen[k]
        /\ seen1[Len(seen) + 1] = h
    BY DEF Visiting
  <2> HIDE DEF seen1
  <2> SUFFICES ASSUME NEW k \in 1..Len(seen1), r[seen1[k]].parent # Scene
               PROVE  \E j \in 1..(k - 1) : seen1[j] = r[seen1[k]].parent
    BY DEF Rooted
  <2>1. CASE k = Len(seen) + 1
    <3>1. r[h].parent \in ToSet(seen)
      BY <1>1, <2>0, <2>1 DEF Visiting
    <3>2. PICK j \in 1..Len(seen) : seen[j] = r[h].parent
      BY <2>0, <3>1, Elements
    <3> QED  BY <2>0, <2>1, <3>2
  <2>2. CASE k # Len(seen) + 1
    <3>1. k \in 1..Len(seen) /\ seen1[k] = seen[k]
      BY <2>0, <2>2
    <3>2. PICK j \in 1..(k - 1) : seen[j] = r[seen[k]].parent
      BY <3>1 DEF Visiting, Rooted
    <3>3. j \in 1..Len(seen)
      BY <2>0, <3>1
    <3> QED  BY <2>0, <3>1, <3>2, <3>3
  <2> QED  BY <2>1, <2>2
<1>12. \A x \in ToSet(stack1) : r[x].parent \in {Scene} \cup ToSet(seen1)
  BY <1>1, <1>3, <1>5, <1>9 DEF Visiting
<1>13. ASSUME NEW c \in All, r[c].parent \in {Scene} \cup ToSet(seen1)
       PROVE  c \in ToSet(seen1) \cup ToSet(stack1)
  <2>1. CASE r[c].parent = h
    BY <2>1, <1>3, <1>9
  <2>2. CASE r[c].parent # h
    BY <2>2, <1>1, <1>5, <1>9, <1>13 DEF Visiting
  <2> QED  BY <2>1, <2>2
<1> HIDE DEF seen1, stack1
<1>14. Visiting(r, seen1, stack1)
  BY <1>5, <1>9, <1>10, <1>11, <1>12, <1>13 DEF Visiting
<1> QED  BY <1>14 DEF seen1, stack1, kids, h, rest

\* What descendants() gives for the scene: every entity once, after its parent, and none
\* is left out.
LEMMA DescendantsAre ==
  ASSUME NEW r, WellLinked(r)
  PROVE  LET d == Descendants(r, Scene) IN
         /\ d \in Seq(Entities) /\ IsInjective(d) /\ Rooted(r, d)
         /\ \A c \in All : r[c].parent \in {Scene} \cup ToSet(d) => c \in ToSet(d)
<1> DEFINE V == [seen : Seq(Entities), stack : Seq(Entities)]
           Good == {v \in V : Visiting(r, v.seen, v.stack)}
           Visit(v) == IF v.stack = <<>> THEN v
                       ELSE [seen |-> Append(v.seen, Head(v.stack)),
                             stack |-> Kids(r, Head(v.stack)) \o Tail(v.stack)]
           b == [seen |-> <<>>, stack |-> Kids(r, Scene)]
           step == [i \in 1..N |-> [v \in Good |-> Visit(v)]]
           Is(g) == g = [i \in 0..N |-> IF i = 0 THEN b ELSE Visit(g[i - 1])]
<1>0. N \in Nat
  BY Names
<1>1. b \in Good
  <2>1. Visiting(r, <<>>, Kids(r, Scene))
    BY VisitStarts
  <2>2. b \in V /\ b.seen = <<>> /\ b.stack = Kids(r, Scene)
    BY <2>1 DEF Visiting
  <2> QED  BY <2>1, <2>2
<1>2. ASSUME NEW v \in Good
      PROVE  /\ Visit(v) \in Good
             /\ v.stack # <<>> => Len(Visit(v).seen) = Len(v.seen) + 1
  <2>1. CASE v.stack = <<>>
    BY <2>1
  <2>2. CASE v.stack # <<>>
    <3>1. Visiting(r, Append(v.seen, Head(v.stack)), Kids(r, Head(v.stack)) \o Tail(v.stack))
      BY <2>2, VisitGoesOn
    <3>2. /\ Visit(v) = [seen |-> Append(v.seen, Head(v.stack)),
                        stack |-> Kids(r, Head(v.stack)) \o Tail(v.stack)]
      BY <2>2
    <3>3. /\ Visit(v) \in V /\ Visit(v).seen = Append(v.seen, Head(v.stack))
          /\ Visit(v).stack = Kids(r, Head(v.stack)) \o Tail(v.stack)
      BY <3>1, <3>2 DEF Visiting
    <3>4. Len(Append(v.seen, Head(v.stack))) = Len(v.seen) + 1
      OBVIOUS
    <3> HIDE DEF Visit
    <3> QED  BY <3>1, <3>3, <3>4
  <2> QED  BY <2>1, <2>2
<1> HIDE DEF Visit, b
<1>3. StaysIn(Good, step, N)
  <2> HIDE DEF Good
  <2> QED  BY <1>2 DEF StaysIn
<1>4. PICK g \in [0..N -> Good] : Follows(g, b, step, N)
  <2> HIDE DEF step, Good
  <2> QED  BY <1>0, <1>1, <1>3, Iteration
<1> HIDE DEF Good
<1>5. g[0] = b /\ \A i \in 1..N : g[i] = Visit(g[i - 1])
  <2>1. g[0] = b /\ \A i \in 1..N : g[i] = step[i][g[i - 1]] /\ g[i - 1] \in Good
    BY <1>0, <1>4 DEF Follows
  <2> QED  BY <2>1
<1>6. Is(g)
  <2>1. \A i \in 0..N : g[i] = IF i = 0 THEN b ELSE Visit(g[i - 1])
    BY <1>0, <1>5
  <2> QED  BY <2>1
<1> DEFINE v == CHOOSE k : Is(k)
<1>7. Is(v)
  BY <1>6, Zenon
<1>8. Descendants(r, Scene) = v[N].seen
  BY DEF Descendants, N, b, Visit
<1> HIDE DEF v
<1>9. v[0] = b /\ \A i \in 1..N : v[i] = Visit(v[i - 1])
  BY <1>0, <1>7
<1> HIDE DEF Is, step
<1> DEFINE T == {i \in 0..N : /\ v[i] \in Good
                              /\ v[i].stack = <<>> \/ Len(v[i].seen) = i}
<1>10. 0 \in T
  <2>1. Len(b.seen) = 0
    BY DEF b
  <2> QED  BY <1>0, <1>1, <1>9, <2>1
<1>11. ASSUME NEW i \in 1..N, i - 1 \in T
       PROVE  i \in T
  <2> DEFINE w == v[i - 1]
  <2>1. w \in Good /\ (w.stack = <<>> \/ Len(w.seen) = i - 1) /\ v[i] = Visit(w) /\ i \in 0..N
    BY <1>0, <1>9, <1>11
  <2> HIDE DEF w
  <2>2. v[i] \in Good
    BY <2>1, <1>2
  <2>3. CASE w.stack = <<>>
    BY <2>1, <2>2, <2>3 DEF Visit
  <2>4. CASE w.stack # <<>>
    BY <2>1, <2>2, <2>4, <1>2
  <2> QED  BY <2>3, <2>4
<1> HIDE DEF T
<1>12. N \in T
  <2>1. \A i \in 1..N : i - 1 \in T => i \in T
    BY <1>11
  <2>2. \A i \in 0..N : i \in T
    BY <1>0, <1>10, <2>1, Induction, Zenon
  <2> QED  BY <1>0, <2>2
<1> DEFINE d == v[N].seen
<1>13. Visiting(r, d, v[N].stack) /\ (v[N].stack = <<>> \/ Len(d) = N)
  BY <1>12 DEF T, Good
<1>14. v[N].stack = <<>>
  <2>1. IsFiniteSet(Entities) /\ N = Cardinality(Entities) + 1 /\ Cardinality(Entities) \in Nat
    BY Names, HierarchyAssumption, FS_CardinalityType
  <2>2. Len(d) <= Cardinality(Entities)
    BY <1>13, <2>1, DistinctLength DEF Visiting
  <2> QED  BY <1>13, <2>1, <2>2
<1>15. ToSet(v[N].stack) = {}
  BY <1>14 DEF ToSet
<1> HIDE DEF d
<1> QED  BY <1>8, <1>13, <1>15 DEF Visiting, d

-----------------------------------------------------------------------------
(* The way up *)

\* The way from an entity is the entity and the way from the next one, unless the number
\* of all entities cuts it short.
LEMMA WalkAlong ==
  ASSUME NEW succ \in [All -> Handles], NEW p \in All
  PROVE  LET a == Walk(p, succ)
             b == Walk(succ[p], succ)
         IN  Len(a) < N \/ Len(b) < N => Len(a) = Len(b) + 1 /\ a = <<p>> \o b
<1> DEFINE a == Walk(p, succ)
           b == Walk(succ[p], succ)
<1>0. p \in Handles /\ succ[p] \in Handles /\ N \in Nat \ {0}
  BY Names DEF Handles
<1>1. /\ a \in Seq(All) /\ Len(a) \in Nat /\ Len(a) <= N /\ Len(a) > 0 /\ a[1] = p
      /\ \A i \in 1..(Len(a) - 1) : a[i + 1] = succ[a[i]]
      /\ \A i \in 1..Len(a) : i = Len(a) /\ i < N => succ[a[i]] \notin All
  BY <1>0, WalkIs
<1>2. /\ b \in Seq(All) /\ Len(b) \in Nat /\ Len(b) <= N
      /\ succ[p] \in All => Len(b) > 0 /\ b[1] = succ[p]
      /\ succ[p] \notin All => Len(b) = 0
      /\ \A i \in 1..(Len(b) - 1) : b[i + 1] = succ[b[i]]
      /\ \A i \in 1..Len(b) : i = Len(b) /\ i < N => succ[b[i]] \notin All
  BY <1>0, WalkIs
<1> HIDE DEF a, b
<1> DEFINE Same(i) == i >= 1 /\ i < Len(a) => a[i + 1] = b[i]
           T == {i \in 0..(N - 1) : (i < Len(a) <=> i <= Len(b)) /\ Same(i)}
<1>3. 0 \in T
  BY <1>0, <1>1, <1>2
<1>4. ASSUME NEW i \in 1..(N - 1), i - 1 \in T
      PROVE  i \in T
  <2>0. i \in 0..(N - 1) /\ i < N
    BY <1>0
  <2>1. CASE ~(i - 1 < Len(a))
    BY <2>0, <2>1, <1>1, <1>2, <1>4
  <2>2. CASE i - 1 < Len(a)
    <3>1. i \in 1..Len(a) /\ i - 1 <= Len(b)
      BY <1>1, <1>4, <2>0, <2>2
    <3>2. /\ i < Len(a) => a[i + 1] = succ[a[i]] /\ succ[a[i]] \in All
          /\ ~(i < Len(a)) => succ[a[i]] \notin All
      <4>1. i < Len(a) => i \in 1..(Len(a) - 1) /\ i + 1 \in 1..Len(a)
        BY <1>1, <2>0
      <4>2. \A k \in 1..Len(a) : a[k] \in All
        BY <1>1
      <4>3. ~(i < Len(a)) => i = Len(a)
        BY <1>1, <3>1
      <4> QED  BY <1>1, <2>0, <3>1, <4>1, <4>2, <4>3
    <3>3. CASE i = 1
      BY <1>1, <1>2, <2>0, <3>1, <3>2, <3>3
    <3>4. CASE i > 1
      <4>1. i - 1 \in 1..Len(b) /\ a[i] = b[i - 1] /\ i - 1 < N
        <5>1. i - 1 >= 1 /\ (i - 1) + 1 = i
          BY <2>0, <3>4
        <5>2. i - 1 >= 1 /\ i - 1 < Len(a) => a[(i - 1) + 1] = b[i - 1]
          <6> HIDE DEF Same
          <6>1. Same(i - 1)
            BY <1>4
          <6> QED  BY <6>1 DEF Same
        <5>3. i - 1 \in 1..Len(b) /\ i - 1 < N
          BY <1>0, <1>2, <2>0, <3>1, <5>1
        <5>4. a[i] = b[i - 1]
          BY <2>2, <5>1, <5>2
        <5> QED  BY <5>3, <5>4
      <4>2. /\ i <= Len(b) => b[i] = succ[b[i - 1]] /\ succ[b[i - 1]] \in All
            /\ ~(i <= Len(b)) => succ[b[i - 1]] \notin All
        <5>1. i <= Len(b) => i - 1 \in 1..(Len(b) - 1) /\ i \in 1..Len(b) /\ (i - 1) + 1 = i
          BY <1>2, <2>0, <4>1
        <5>2. \A k \in 1..Len(b) : b[k] \in All
          BY <1>2
        <5>3. ~(i <= Len(b)) => i - 1 = Len(b)
          BY <1>2, <4>1
        <5> QED  BY <1>2, <4>1, <5>1, <5>2, <5>3
      <4> QED  BY <2>0, <3>2, <4>1, <4>2
    <3> QED  BY <2>0, <3>3, <3>4
  <2> QED  BY <2>1, <2>2
<1> HIDE DEF T
<1>5. \A i \in 0..(N - 1) : i \in T
  <2>1. \A i \in 1..(N - 1) : i - 1 \in T => i \in T
    BY <1>4
  <2>2. N - 1 \in Nat
    BY <1>0
  <2> QED  BY <1>3, <2>1, <2>2, Induction, Zenon
<1>6. \A i \in 0..(N - 1) : /\ i < Len(a) <=> i <= Len(b)
                            /\ i >= 1 /\ i < Len(a) => a[i + 1] = b[i]
  BY <1>5 DEF T
<1>7. ASSUME Len(a) < N \/ Len(b) < N
      PROVE  Len(a) = Len(b) + 1 /\ a = <<p>> \o b
  <2>1. Len(b) < N
    <3>1. CASE Len(a) < N
      <4>1. Len(a) \in 0..(N - 1)
        BY <1>0, <1>1, <3>1
      <4>2. ~(Len(a) <= Len(b))
        BY <1>1, <1>6, <4>1
      <4> QED  BY <1>0, <1>1, <1>2, <3>1, <4>2
    <3> QED  BY <1>7, <3>1
  <2>2. Len(b) \in 0..(N - 1)
    BY <1>0, <1>2, <2>1
  <2>3. Len(b) < Len(a)
    BY <1>2, <1>6, <2>2
  <2>4. Len(a) = Len(b) + 1
    <3>1. CASE Len(b) + 1 \in 0..(N - 1)
      BY <1>1, <1>2, <1>6, <2>3, <3>1
    <3>2. CASE Len(b) + 1 \notin 0..(N - 1)
      BY <1>0, <1>1, <1>2, <2>2, <2>3, <3>2
    <3> QED  BY <3>1, <3>2
  <2>5. \A i \in 1..Len(b) : a[i + 1] = b[i]
    <3> SUFFICES ASSUME NEW i \in 1..Len(b) PROVE a[i + 1] = b[i]
      OBVIOUS
    <3>1. i \in 0..(N - 1) /\ i >= 1 /\ i < Len(a)
      BY <1>0, <1>2, <2>2, <2>4
    <3> QED  BY <1>6, <3>1
  <2> DEFINE c == <<p>> \o b
  <2>6. /\ c \in Seq(All) /\ Len(c) = Len(b) + 1 /\ c[1] = p
        /\ \A i \in 2..(Len(b) + 1) : c[i] = b[i - 1]
    BY <1>2
  <2> HIDE DEF c
  <2>7. ASSUME NEW i \in 1..Len(a)
        PROVE  a[i] = c[i]
    <3>1. CASE i = 1
      BY <1>1, <2>6, <3>1
    <3>2. CASE i # 1
      <4>1. i - 1 \in 1..Len(b) /\ i \in 2..(Len(b) + 1) /\ (i - 1) + 1 = i
        BY <1>2, <2>4, <3>2
      <4> QED  BY <2>5, <2>6, <4>1
    <3> QED  BY <3>1, <3>2
  <2>8. a = c
    BY <1>1, <2>4, <2>6, <2>7, SameSequence
  <2> QED  BY <2>4, <2>8 DEF c
<1> QED  BY <1>7 DEF a, b

LEMMA AncestorsAlong ==
  ASSUME NEW r, WellLinked(r), NEW e \in All
  PROVE  /\ Ancestors(r, e) \in Seq(All) /\ Len(Ancestors(r, e)) <= N
         /\ r[e].parent \notin All => Ancestors(r, e) = <<>>
         /\ r[e].parent \in All =>
              LET p == r[e].parent IN
              /\ Len(Ancestors(r, e)) > 0
              /\ Len(Ancestors(r, e)) < N \/ Len(Ancestors(r, p)) < N
                   => /\ Len(Ancestors(r, e)) = Len(Ancestors(r, p)) + 1
                      /\ Ancestors(r, e) = <<p>> \o Ancestors(r, p)
<1> DEFINE succ == [x \in All |-> r[x].parent]
<1>1. \A x \in All : r[x].parent \in All \cup {Null}
  BY LinkedType DEF WellLinked
<1>2. succ \in [All -> Handles] /\ \A x \in All : succ[x] = r[x].parent /\ succ[x] \in Handles
  BY <1>1 DEF Handles
<1>3. \A x \in All : Ancestors(r, x) = Walk(succ[x], succ)
  BY DEF Ancestors
<1> HIDE DEF succ
<1>4. Ancestors(r, e) \in Seq(All) /\ Len(Ancestors(r, e)) <= N
  BY <1>2, <1>3, WalkIs
<1>5. r[e].parent \notin All => Ancestors(r, e) = <<>>
  BY <1>2, <1>3, WalkIs
<1>6. ASSUME r[e].parent \in All
      PROVE  LET p == r[e].parent IN
             /\ Len(Ancestors(r, e)) > 0
             /\ Len(Ancestors(r, e)) < N \/ Len(Ancestors(r, p)) < N
                  => /\ Len(Ancestors(r, e)) = Len(Ancestors(r, p)) + 1
                     /\ Ancestors(r, e) = <<p>> \o Ancestors(r, p)
  <2> DEFINE p == r[e].parent
  <2>1. p \in All /\ Ancestors(r, e) = Walk(p, succ) /\ Ancestors(r, p) = Walk(succ[p], succ)
    BY <1>2, <1>3, <1>6
  <2> HIDE DEF p
  <2>2. Len(Walk(p, succ)) > 0
    BY <1>2, <2>1, WalkIs DEF Handles
  <2>3. Len(Walk(p, succ)) < N \/ Len(Walk(succ[p], succ)) < N
          => /\ Len(Walk(p, succ)) = Len(Walk(succ[p], succ)) + 1
             /\ Walk(p, succ) = <<p>> \o Walk(succ[p], succ)
    BY <1>2, <2>1, WalkAlong
  <2> QED  BY <2>1, <2>2, <2>3 DEF p
<1> QED  BY <1>4, <1>5, <1>6

-----------------------------------------------------------------------------
(* World matrices *)

\* The transform of e and of everything above it, up to the scene.
Matrix(r, l, e) ==
  LET up == Front(Ancestors(r, e))
  IN  [i \in 1..Len(up) |-> l[Reverse(up)[i]]] \o <<l[e]>>

\* Who is in the scene is at most as far from it as there are entities before it.
LEMMA WayToScene ==
  ASSUME NEW r, WellLinked(r), NEW d, d = Descendants(r, Scene)
  PROVE  \A k \in 1..Len(d) : Len(Ancestors(r, d[k])) <= k /\ Len(Ancestors(r, d[k])) < N
<1> DEFINE n == Len(d)
           T == {k \in 0..n : \A j \in 1..k : Len(Ancestors(r, d[j])) <= j}
<1>1. /\ d \in Seq(Entities) /\ IsInjective(d) /\ Rooted(r, d) /\ n \in Nat /\ n < N /\ N \in Nat
      /\ \A k \in 1..n : d[k] \in Entities /\ d[k] \in All
  <2>1. d \in Seq(Entities) /\ IsInjective(d) /\ Rooted(r, d)
    BY DescendantsAre
  <2>2. IsFiniteSet(Entities) /\ N = Cardinality(Entities) + 1 /\ Cardinality(Entities) \in Nat
    BY Names, HierarchyAssumption, FS_CardinalityType
  <2>3. n <= Cardinality(Entities) /\ n \in Nat
    BY <2>1, <2>2, DistinctLength
  <2>4. \A k \in 1..n : d[k] \in Entities /\ d[k] \in All
    BY <2>1, Names
  <2> QED  BY <2>1, <2>2, <2>3, <2>4
<1> HIDE DEF n
<1>2. 0 \in T
  BY <1>1
<1>3. ASSUME NEW k \in 1..n, k - 1 \in T
      PROVE  k \in T
  <2> DEFINE e == d[k]
             p == r[e].parent
  <2>1. e \in All /\ (p = Scene \/ \E j \in 1..(k - 1) : d[j] = p)
    BY <1>1 DEF Rooted, n
  <2>2. p \in All /\ Len(Ancestors(r, p)) <= k - 1 /\ Len(Ancestors(r, p)) \in Nat
    <3>1. CASE p = Scene
      <4>1. Scene \in All /\ r[Scene].parent = Null /\ Null \notin All
        BY <2>1, Names, KidsFacts
      <4>2. Ancestors(r, Scene) = <<>>
        BY <4>1, AncestorsAlong
      <4> QED  BY <1>1, <3>1, <4>1, <4>2
    <3>2. CASE \E j \in 1..(k - 1) : d[j] = p
      <4>1. PICK j \in 1..(k - 1) : d[j] = p
        BY <3>2
      <4>2. Len(Ancestors(r, p)) <= j /\ j <= k - 1 /\ j \in 1..n
        BY <1>1, <1>3, <4>1
      <4>3. p \in All
        BY <1>1, <4>1, <4>2
      <4>4. Len(Ancestors(r, p)) \in Nat
        BY <4>3, AncestorsAlong
      <4> QED  BY <4>2, <4>3, <4>4
    <3> QED  BY <2>1, <3>1, <3>2
  <2> HIDE DEF p, e
  <2>3. Len(Ancestors(r, p)) < N
    BY <1>1, <2>2
  <2>4. Len(Ancestors(r, e)) = Len(Ancestors(r, p)) + 1
    BY <2>1, <2>2, <2>3, AncestorsAlong DEF p
  <2>5. Len(Ancestors(r, d[k])) <= k
    BY <2>2, <2>4 DEF e
  <2>6. \A j \in 1..k : j = k \/ j \in 1..(k - 1)
    BY <1>1
  <2> QED  BY <1>1, <1>3, <2>5, <2>6
<1> HIDE DEF T
<1>4. \A k \in 1..n : k - 1 \in T => k \in T
  BY <1>3
<1>5. \A k \in 0..n : k \in T
  BY <1>1, <1>2, <1>4, Induction, Zenon
<1>6. \A k \in 1..n : Len(Ancestors(r, d[k])) <= k
  BY <1>1, <1>5 DEF T
<1>7. \A k \in 1..n : Len(Ancestors(r, d[k])) \in Nat
  BY <1>1, AncestorsAlong
<1> QED  BY <1>1, <1>6, <1>7 DEF n

\* The matrix of e is that of its parent and its own transform.
LEMMA MatrixAlong ==
  ASSUME NEW r, WellLinked(r), NEW l, NEW e \in All, r[e].parent \in All,
         Len(Ancestors(r, e)) < N
  PROVE  /\ r[r[e].parent].parent \notin All => Matrix(r, l, e) = <<l[e]>>
         /\ r[r[e].parent].parent \in All
              => Matrix(r, l, e) = Matrix(r, l, r[e].parent) \o <<l[e]>>
<1> DEFINE p == r[e].parent
           a == Ancestors(r, p)
           b == Ancestors(r, e)
<1>0. p \in All
  OBVIOUS
<1>1. b = <<p>> \o a /\ Len(b) = Len(a) + 1 /\ a \in Seq(All) /\ Len(a) \in Nat
  <2>1. a \in Seq(All)
    BY <1>0, AncestorsAlong
  <2>2. Len(a) \in Nat
    BY <2>1
  <2> QED  BY <2>1, <2>2, AncestorsAlong
<1>2. p \in All /\ (r[p].parent \in All => Len(a) > 0) /\ (r[p].parent \notin All => a = <<>>)
  BY AncestorsAlong
<1>3. Matrix(r, l, e) = [i \in 1..Len(Front(b)) |-> l[Reverse(Front(b))[i]]] \o <<l[e]>>
      /\ Matrix(r, l, p) = [i \in 1..Len(Front(a)) |-> l[Reverse(Front(a))[i]]] \o <<l[p]>>
  BY DEF Matrix
<1> HIDE DEF a, b, p
<1>4. CASE r[p].parent \notin All
  <2>1. a = <<>> /\ b = <<p>>
    <3>1. a = <<>> /\ b = <<p>> \o <<>>
      BY <1>1, <1>2, <1>4
    <3>2. <<p>> \o <<>> = <<p>>
      OBVIOUS
    <3> QED  BY <3>1, <3>2
  <2>2. Len(Front(b)) = 0
    <3>1. b \in Seq(All) /\ b # <<>> /\ Len(b) = 1
      BY <1>2, <2>1
    <3> QED  BY <3>1, FrontIs
  <2> DEFINE f == [i \in 1..Len(Front(b)) |-> l[Reverse(Front(b))[i]]]
  <2>3. f \in Seq(All) /\ Len(f) = 0
    <3>1. f \in [1..0 -> All] /\ DOMAIN f = 1..0
      BY <2>2
    <3> HIDE DEF f
    <3> QED  BY <3>1, SeqDef
  <2>4. f = <<>>
    <3> HIDE DEF f
    <3> QED  BY <2>3, EmptySeq
  <2>5. <<>> \o <<l[e]>> = <<l[e]>>
    OBVIOUS
  <2> QED  BY <1>3, <1>4, <2>4, <2>5 DEF p
<1>5. CASE r[p].parent \in All
  <2> DEFINE m == Len(a) - 1
             fa == Front(a)
             fb == Front(b)
  <2>1. m \in Nat /\ Len(b) = m + 2 /\ Len(a) = m + 1 /\ a # <<>> /\ b # <<>> /\ b \in Seq(All)
    BY <1>1, <1>2, <1>5
  <2>2. /\ fa \in Seq(All) /\ Len(fa) = m /\ \A k \in 1..m : fa[k] = a[k]
        /\ fb \in Seq(All) /\ Len(fb) = m + 1 /\ \A k \in 1..(m + 1) : fb[k] = b[k]
    <3>1. fa \in Seq(All) /\ Len(fa) = Len(a) - 1 /\ \A k \in 1..(Len(a) - 1) : fa[k] = a[k]
      BY <1>1, <2>1, FrontIs
    <3>2. fb \in Seq(All) /\ Len(fb) = Len(b) - 1 /\ \A k \in 1..(Len(b) - 1) : fb[k] = b[k]
      BY <2>1, FrontIs
    <3>3. Len(b) - 1 = m + 1 /\ Len(a) - 1 = m
      BY <2>1
    <3> HIDE DEF m, fa, fb
    <3> QED  BY <3>1, <3>2, <3>3
  <2>3. b[1] = p /\ \A k \in 1..(m + 1) : b[k + 1] = a[k]
    BY <1>1, <1>2, <2>1
  <2> HIDE DEF m, fa, fb
  <2>4. /\ \A i \in 1..m : Reverse(fa)[i] = fa[(m - i) + 1]
        /\ \A i \in 1..(m + 1) : Reverse(fb)[i] = fb[((m + 1) - i) + 1]
    BY <2>1, <2>2 DEF Reverse
  <2> DEFINE S == {l[x] : x \in All}
             x == [i \in 1..Len(fa) |-> l[Reverse(fa)[i]]]
             y == [i \in 1..Len(fb) |-> l[Reverse(fb)[i]]]
  <2>5. /\ Len(x) = m /\ DOMAIN x = 1..m /\ \A i \in 1..m : x[i] = l[fa[(m - i) + 1]] /\ x[i] \in S
    <3>1. \A i \in 1..m : (m - i) + 1 \in 1..m
      BY <2>1
    <3>2. \A i \in 1..m : x[i] = l[fa[(m - i) + 1]]
      BY <2>2, <2>4
    <3>3. \A i \in 1..m : fa[(m - i) + 1] \in All
      BY <2>2, <3>1
    <3> QED  BY <2>1, <2>2, <3>2, <3>3
  <2>6. /\ Len(y) = m + 1 /\ DOMAIN y = 1..(m + 1)
        /\ \A i \in 1..(m + 1) : y[i] = l[fb[((m + 1) - i) + 1]] /\ y[i] \in S
    <3>1. \A i \in 1..(m + 1) : ((m + 1) - i) + 1 \in 1..(m + 1)
      BY <2>1
    <3>2. \A i \in 1..(m + 1) : y[i] = l[fb[((m + 1) - i) + 1]]
      BY <2>2, <2>4
    <3>3. \A i \in 1..(m + 1) : fb[((m + 1) - i) + 1] \in All
      BY <2>1, <2>2, <3>1
    <3> QED  BY <2>1, <2>2, <3>2, <3>3
  <2> HIDE DEF x, y
  <2>7. \A i \in 1..m : y[i] = x[i]
    <3> SUFFICES ASSUME NEW i \in 1..m PROVE y[i] = x[i]
      OBVIOUS
    <3> DEFINE k == (m - i) + 1
    <3>1. /\ k \in 1..m /\ k \in 1..(m + 1) /\ ((m + 1) - i) + 1 = k + 1
          /\ k + 1 \in 1..(m + 1) /\ i \in 1..(m + 1)
      BY <2>1
    <3>2. y[i] = l[fb[k + 1]]
      BY <2>6, <3>1
    <3>3. fb[k + 1] = b[k + 1] /\ b[k + 1] = a[k] /\ fa[k] = a[k]
      BY <2>2, <2>3, <3>1
    <3> QED  BY <2>5, <3>2, <3>3
  <2>8. y[m + 1] = l[p]
    <3>1. m + 1 \in 1..(m + 1) /\ ((m + 1) - (m + 1)) + 1 = 1 /\ 1 \in 1..(m + 1)
      BY <2>1
    <3>2. y[m + 1] = l[fb[1]]
      BY <2>6, <3>1
    <3> QED  BY <2>2, <2>3, <3>1, <3>2
  <2>9. Matrix(r, l, e) = y \o <<l[e]>> /\ Matrix(r, l, p) = x \o <<l[p]>>
    BY <1>3 DEF fa, fb, x, y
  <2>10. x \in Seq(S) /\ y \in Seq(S) /\ l[p] \in S
    <3>1. x \in [1..m -> S] /\ y \in [1..(m + 1) -> S]
      <4>1. x = [i \in 1..m |-> x[i]] /\ y = [i \in 1..(m + 1) |-> y[i]]
        BY <2>2 DEF x, y
      <4> QED  BY <2>5, <2>6, <4>1
    <3>2. m + 1 \in Nat /\ m \in Nat
      BY <2>1
    <3> QED  BY <1>2, <3>1, <3>2, SeqDef
  <2> DEFINE z == x \o <<l[p]>>
  <2> HIDE DEF S
  <2>11. /\ z \in Seq(S) /\ Len(z) = m + 1 /\ z[m + 1] = l[p]
         /\ \A i \in 1..m : z[i] = x[i]
    BY <2>1, <2>5, <2>10
  <2>12. \A i \in 1..Len(y) : y[i] = z[i]
    <3>1. \A i \in 1..(m + 1) : i \in 1..m \/ i = m + 1
      BY <2>1
    <3> QED  BY <2>6, <2>7, <2>8, <2>11, <3>1
  <2>13. y = z
    <3> HIDE DEF z
    <3> QED  BY <2>6, <2>10, <2>11, <2>12, SameSequence
  <2> QED  BY <1>5, <2>9, <2>13 DEF p
<1> QED  BY <1>4, <1>5 DEF p

\* What the system computes for e, when the others have the matrices f.
NextMatrix(f, e) ==
  IF e \notin dirty THEN world[e]
  ELSE IF rel[e].parent \notin Entities THEN <<local[e]>>
  ELSE IF InCycle(rel, e) THEN world[rel[e].parent] \o <<local[e]>>
  ELSE f[rel[e].parent] \o <<local[e]>>

\* Whether that takes the matrix of the parent.
TakesParent(e) == e \in dirty /\ rel[e].parent \in Entities /\ ~InCycle(rel, e)

LEMMA NextMatrixIs ==
  ASSUME world \in [Entities -> Seq(Locals)], local \in [Entities -> Locals],
         NEW f, NEW e \in Entities
  PROVE  /\ TakesParent(e) => NextMatrix(f, e) = f[rel[e].parent] \o <<local[e]>>
         /\ ~TakesParent(e) => \A g : NextMatrix(f, e) = NextMatrix(g, e)
         /\ (TakesParent(e) => f[rel[e].parent] \in Seq(Locals)) => NextMatrix(f, e) \in Seq(Locals)
<1>1. TakesParent(e) => NextMatrix(f, e) = f[rel[e].parent] \o <<local[e]>>
  BY DEF TakesParent, NextMatrix
<1>2. ~TakesParent(e) => \A g : NextMatrix(f, e) = NextMatrix(g, e)
  BY DEF TakesParent, NextMatrix
<1>3. local[e] \in Locals /\ world[e] \in Seq(Locals) /\ <<local[e]>> \in Seq(Locals)
  OBVIOUS
<1>4. \A s \in Seq(Locals) : s \o <<local[e]>> \in Seq(Locals)
  BY <1>3
<1>5. CASE TakesParent(e)
  BY <1>1, <1>2, <1>4, <1>5
<1>6. CASE ~TakesParent(e)
  <2>1. CASE e \notin dirty
    BY <1>2, <1>3, <1>6, <2>1 DEF NextMatrix
  <2>2. CASE e \in dirty /\ rel[e].parent \notin Entities
    BY <1>2, <1>3, <1>6, <2>2 DEF NextMatrix
  <2>3. CASE e \in dirty /\ rel[e].parent \in Entities /\ InCycle(rel, e)
    <3>1. NextMatrix(f, e) = world[rel[e].parent] \o <<local[e]>>
      BY <2>3 DEF NextMatrix
    <3>2. world[rel[e].parent] \in Seq(Locals)
      BY <2>3
    <3> QED  BY <1>2, <1>4, <1>6, <3>1, <3>2
  <2> QED  BY <1>6, <2>1, <2>2, <2>3 DEF TakesParent
<1> QED  BY <1>5, <1>6

\* Who takes the matrix of its parent has one more above it than the parent.
LEMMA ParentIsHigher ==
  ASSUME WellLinked(rel), NEW e \in Entities, TakesParent(e)
  PROVE  /\ rel[e].parent \in Entities /\ Len(Ancestors(rel, e)) \in 1..(N - 1)
         /\ Len(Ancestors(rel, rel[e].parent)) = Len(Ancestors(rel, e)) - 1
<1> DEFINE p == rel[e].parent
<1>1. e \in All /\ p \in Entities /\ p \in All /\ N \in Nat
  BY Names DEF TakesParent
<1>2. /\ Ancestors(rel, e) \in Seq(All) /\ Len(Ancestors(rel, e)) <= N
      /\ Len(Ancestors(rel, e)) > 0 /\ Ancestors(rel, p) \in Seq(All)
  BY <1>1, AncestorsAlong
<1>3. Len(Ancestors(rel, e)) \in Nat /\ Len(Ancestors(rel, p)) \in Nat
  BY <1>2
<1>4. Len(Ancestors(rel, e)) # N
  BY DEF TakesParent, InCycle, N
<1>5. Len(Ancestors(rel, e)) \in 1..(N - 1)
  BY <1>1, <1>2, <1>3, <1>4
<1>6. Len(Ancestors(rel, e)) = Len(Ancestors(rel, p)) + 1
  <2>1. Len(Ancestors(rel, e)) < N
    BY <1>1, <1>5
  <2> QED  BY <1>1, <2>1, AncestorsAlong
<1> QED  BY <1>1, <1>3, <1>5, <1>6

\* The order by depth has every entity computed after its parent.
LEMMA ComputedIs ==
  ASSUME WellLinked(rel), world \in [Entities -> Seq(Locals)], local \in [Entities -> Locals]
  PROVE  /\ Computed \in [Entities -> Seq(Locals)]
         /\ \A e \in Entities : Computed[e] = NextMatrix(Computed, e)
<1> DEFINE V == [Entities -> Seq(Locals)]
           All1(f) == [e \in Entities |-> NextMatrix(f, e)]
           step == [i \in 1..N |-> [f \in V |-> All1(f)]]
           Depth(e) == Len(Ancestors(rel, e))
           Is(w) == w = All1(w)
<1>0. N \in Nat \ {0} /\ N - 1 \in Nat /\ \A e \in Entities : Depth(e) \in 0..N
  <2>1. \A e \in Entities : Ancestors(rel, e) \in Seq(All) /\ Depth(e) <= N
    BY Names, AncestorsAlong
  <2>2. \A e \in Entities : Depth(e) \in Nat
    BY <2>1
  <2> QED  BY <2>1, <2>2, Names
<1>1. ASSUME NEW f \in V
      PROVE  All1(f) \in V
  <2>1. \A e \in Entities : TakesParent(e) => f[rel[e].parent] \in Seq(Locals)
    BY DEF TakesParent
  <2>2. \A e \in Entities : NextMatrix(f, e) \in Seq(Locals)
    BY <2>1, NextMatrixIs
  <2> QED  BY <2>2
<1>2. PICK f \in [0..N -> V] : f[0] = world /\ \A i \in 1..N : f[i] = All1(f[i - 1])
  <2> HIDE DEF All1
  <2>1. StaysIn(V, step, N)
    <3> HIDE DEF V
    <3> QED  BY <1>1 DEF StaysIn
  <2>2. world \in V
    OBVIOUS
  <2> HIDE DEF V
  <2>3. \A i \in 1..N : \A g \in V : step[i][g] = All1(g)
    OBVIOUS
  <2> HIDE DEF step
  <2>4. PICK f \in [0..N -> V] : Follows(f, world, step, N)
    BY <1>0, <2>1, <2>2, Iteration
  <2>5. \A i \in 1..N : f[i] = step[i][f[i - 1]] /\ f[i - 1] \in V
    BY <1>0, <2>4 DEF Follows
  <2>6. \A i \in 1..N : f[i] = All1(f[i - 1])
    BY <2>3, <2>5
  <2> QED  BY <2>4, <2>6 DEF Follows
<1>3. \A i \in 1..N, e \in Entities : f[i][e] = NextMatrix(f[i - 1], e)
  BY <1>2
<1> HIDE DEF V, All1, Depth, step
<1> DEFINE Settled(i) == \A e \in Entities : ~TakesParent(e) \/ Depth(e) <= i
                                             => f[i + 1][e] = NextMatrix(f[i + 1], e)
           T == {i \in 0..(N - 1) : Settled(i)}
<1>4. ASSUME NEW i \in 0..(N - 1), NEW e \in Entities, ~TakesParent(e)
      PROVE  f[i + 1][e] = NextMatrix(f[i + 1], e)
  <2>1. i + 1 \in 1..N /\ (i + 1) - 1 = i
    BY <1>0
  <2>2. f[i + 1][e] = NextMatrix(f[i], e)
    BY <1>3, <2>1
  <2>3. NextMatrix(f[i], e) = NextMatrix(f[i + 1], e)
    BY <1>4, NextMatrixIs
  <2> QED  BY <2>2, <2>3
<1>5. 0 \in T
  <2>1. Settled(0)
    <3> SUFFICES ASSUME NEW e \in Entities, ~TakesParent(e) \/ Depth(e) <= 0
                 PROVE  f[0 + 1][e] = NextMatrix(f[0 + 1], e)
      OBVIOUS
    <3>1. ~TakesParent(e)
      <4>1. TakesParent(e) => Depth(e) \in 1..(N - 1)
        BY ParentIsHigher DEF Depth
      <4> QED  BY <1>0, <4>1
    <3>2. 0 \in 0..(N - 1)
      BY <1>0
    <3> QED  BY <1>4, <3>1, <3>2
  <2> HIDE DEF Settled
  <2> QED  BY <1>0, <2>1
<1>6. ASSUME NEW i \in 1..(N - 1), i - 1 \in T
      PROVE  i \in T
  <2>1. i \in 0..(N - 1) /\ i + 1 \in 1..N /\ (i + 1) - 1 = i /\ i \in 1..N /\ (i - 1) + 1 = i
    BY <1>0
  <2>2. Settled(i - 1)
    BY <1>6
  <2>3. ASSUME NEW e \in Entities, TakesParent(e), Depth(e) <= i
        PROVE  f[i + 1][e] = NextMatrix(f[i + 1], e)
    <3> DEFINE p == rel[e].parent
    <3>1. p \in Entities /\ Depth(p) = Depth(e) - 1 /\ Depth(e) \in 1..(N - 1)
      BY <2>3, ParentIsHigher DEF Depth
    <3> HIDE DEF p
    <3>2. Depth(p) <= i - 1
      BY <2>1, <2>3, <3>1
    <3>3. f[i][p] = NextMatrix(f[i], p)
      <4>1. f[(i - 1) + 1][p] = NextMatrix(f[(i - 1) + 1], p)
        BY <2>2, <3>1, <3>2
      <4> QED  BY <2>1, <4>1
    <3>4. f[i + 1][p] = NextMatrix(f[i], p) /\ f[i + 1][e] = NextMatrix(f[i], e)
      BY <1>3, <2>1, <3>1
    <3>5. /\ NextMatrix(f[i], e) = f[i][p] \o <<local[e]>>
          /\ NextMatrix(f[i + 1], e) = f[i + 1][p] \o <<local[e]>>
      BY <2>3, NextMatrixIs DEF p
    <3> QED  BY <3>3, <3>4, <3>5
  <2>4. Settled(i)
    BY <1>4, <2>1, <2>3
  <2> HIDE DEF Settled
  <2> QED  BY <2>1, <2>4
<1> HIDE DEF T
<1>7. Settled(N - 1)
  <2>1. \A i \in 1..(N - 1) : i - 1 \in T => i \in T
    BY <1>6
  <2>2. \A i \in 0..(N - 1) : i \in T
    BY <1>0, <1>5, <2>1, Induction, Zenon
  <2>3. N - 1 \in T
    BY <1>0, <2>2
  <2> QED  BY <2>3 DEF T
<1>8. \A e \in Entities : f[N][e] = NextMatrix(f[N], e)
  <2> SUFFICES ASSUME NEW e \in Entities PROVE f[N][e] = NextMatrix(f[N], e)
    OBVIOUS
  <2>1. TakesParent(e) => Depth(e) <= N - 1
    <3>1. TakesParent(e) => Depth(e) \in 1..(N - 1)
      BY ParentIsHigher DEF Depth
    <3> QED  BY <1>0, <3>1
  <2>2. (N - 1) + 1 = N
    BY <1>0
  <2>3. f[(N - 1) + 1][e] = NextMatrix(f[(N - 1) + 1], e)
    BY <1>7, <2>1
  <2> QED  BY <2>2, <2>3
<1>9. Is(f[N])
  <2>1. f[N] \in V
    BY <1>0, <1>2
  <2>2. f[N] = [e \in Entities |-> f[N][e]]
    BY <2>1 DEF V
  <2> QED  BY <1>8, <2>2 DEF All1
<1> DEFINE h == CHOOSE w : Is(w)
<1>10. Is(h)
  BY <1>9, Zenon
<1>11. Computed = [e \in Entities |-> h[e]]
  BY DEF Computed, All1, NextMatrix
<1> HIDE DEF h
<1>12. Computed = h /\ \A e \in Entities : h[e] = NextMatrix(h, e)
  BY <1>10, <1>11 DEF All1
<1> HIDE DEF Is
<1> DEFINE U == {i \in 0..N : \A e \in Entities : Depth(e) <= i => h[e] \in Seq(Locals)}
<1>13. ASSUME NEW e \in Entities, TakesParent(e) => h[rel[e].parent] \in Seq(Locals)
       PROVE  h[e] \in Seq(Locals)
  BY <1>12, <1>13, NextMatrixIs
<1>14. 0 \in U
  <2>1. \A e \in Entities : TakesParent(e) => Depth(e) \in 1..(N - 1)
    BY ParentIsHigher DEF Depth
  <2>2. \A e \in Entities : Depth(e) <= 0 => ~TakesParent(e)
    BY <1>0, <2>1
  <2> QED  BY <1>0, <1>13, <2>2
<1>15. ASSUME NEW i \in 1..N, i - 1 \in U
       PROVE  i \in U
  <2> SUFFICES ASSUME NEW e \in Entities, Depth(e) <= i
               PROVE  h[e] \in Seq(Locals)
    BY <1>0
  <2>1. ASSUME TakesParent(e)
        PROVE  h[rel[e].parent] \in Seq(Locals)
    <3>1. /\ rel[e].parent \in Entities /\ Depth(rel[e].parent) = Depth(e) - 1
          /\ Depth(e) \in 1..(N - 1)
      BY <2>1, ParentIsHigher DEF Depth
    <3>2. Depth(rel[e].parent) <= i - 1
      BY <1>0, <3>1
    <3> QED  BY <1>15, <3>1, <3>2
  <2> QED  BY <1>13, <2>1
<1> HIDE DEF U
<1>16. \A e \in Entities : h[e] \in Seq(Locals)
  <2>1. \A i \in 1..N : i - 1 \in U => i \in U
    BY <1>15
  <2>2. \A i \in 0..N : i \in U
    BY <1>0, <1>14, <2>1, Induction, Zenon
  <2>3. N \in U
    BY <1>0, <2>2
  <2> QED  BY <1>0, <2>3 DEF U
<1>17. Computed \in [Entities -> Seq(Locals)]
  BY <1>11, <1>16
<1> QED  BY <1>12, <1>17

\* A frame that computes everything in the scene draws it.
LEMMA ComputedDraws ==
  ASSUME WellLinked(rel), world \in [Entities -> Seq(Locals)], local \in [Entities -> Locals],
         InScene \subseteq dirty
  PROVE  \A e \in InScene : Computed[e] = Matrix(rel, local, e)
<1> DEFINE d == Descendants(rel, Scene)
           n == Len(d)
<1>1. d \in Seq(Entities) /\ Rooted(rel, d)
  BY DescendantsAre
<1>2. \A k \in 1..n : Len(Ancestors(rel, d[k])) < N
  BY WayToScene
<1>3. InScene = ToSet(d)
  BY DEF InScene
<1> HIDE DEF d
<1>4. n \in Nat /\ \A k \in 1..n : d[k] \in Entities /\ d[k] \in All /\ d[k] \in dirty
  <2>1. n \in Nat /\ \A k \in 1..n : d[k] \in Entities
    BY <1>1
  <2>2. \A k \in 1..n : d[k] \in ToSet(d)
    BY <1>1, Elements
  <2> QED  BY <1>3, <2>1, <2>2, Names
<1>5. \A e \in Entities : Computed[e] = NextMatrix(Computed, e)
  BY ComputedIs
<1>6. rel[Scene].parent \notin All /\ Scene \in All /\ Scene \notin Entities
  BY KidsFacts, Names
<1> HIDE DEF n
<1> DEFINE T == {k \in 0..n : \A j \in 1..k : Computed[d[j]] = Matrix(rel, local, d[j])}
<1>7. 0 \in T
  BY <1>4
<1>8. ASSUME NEW k \in 1..n, k - 1 \in T
      PROVE  k \in T
  <2> DEFINE e == d[k]
             p == rel[e].parent
  <2>1. e \in Entities /\ e \in All /\ e \in dirty /\ Len(Ancestors(rel, e)) < N
    BY <1>2, <1>4
  <2>2. p = Scene \/ \E j \in 1..(k - 1) : d[j] = p
    BY <1>1 DEF Rooted, n
  <2>3. Computed[e] = NextMatrix(Computed, e)
    BY <1>5, <2>1
  <2>9. Computed[d[k]] = Matrix(rel, local, d[k]) => k \in T
    <3>1. \A j \in 1..k : j = k \/ j \in 1..(k - 1)
      BY <1>4
    <3>2. k \in 0..n
      BY <1>4
    <3> QED  BY <1>8, <3>1, <3>2
  <2> HIDE DEF e, T
  <2>4. CASE p = Scene
    <3>1. Computed[e] = <<local[e]>>
      BY <1>6, <2>1, <2>3, <2>4 DEF NextMatrix
    <3>2. Matrix(rel, local, e) = <<local[e]>>
      BY <1>6, <2>1, <2>4, MatrixAlong
    <3> QED  BY <2>9, <3>1, <3>2 DEF e
  <2>5. CASE \E j \in 1..(k - 1) : d[j] = p
    <3>1. PICK j \in 1..(k - 1) : d[j] = p
      BY <2>5
    <3>2. j \in 1..n /\ p \in Entities /\ p \in All
      BY <1>4, <3>1
    <3>3. Computed[p] = Matrix(rel, local, p)
      BY <1>8, <3>1 DEF T
    <3>4. rel[p].parent \in All
      <4>1. rel[p].parent = Scene \/ \E i \in 1..(j - 1) : d[i] = rel[p].parent
        BY <1>1, <3>1, <3>2 DEF Rooted, n
      <4>2. \A i \in 1..(j - 1) : d[i] \in All
        BY <1>4, <3>2
      <4> QED  BY <1>6, <4>1, <4>2
    <3>5. TakesParent(e)
      <4>1. ~InCycle(rel, e)
        <5>1. Len(Ancestors(rel, e)) # N
          <6>1. Len(Ancestors(rel, e)) \in Nat /\ N \in Nat
            BY <2>1, AncestorsAlong, Names
          <6> QED  BY <2>1, <6>1
        <5> QED  BY <5>1 DEF InCycle, N
      <4> QED  BY <2>1, <3>2, <4>1 DEF TakesParent
    <3>6. Computed[e] = Computed[p] \o <<local[e]>>
      BY <2>1, <2>3, <3>5, NextMatrixIs
    <3>7. Matrix(rel, local, e) = Matrix(rel, local, p) \o <<local[e]>>
      BY <2>1, <3>2, <3>4, MatrixAlong
    <3> QED  BY <2>9, <3>3, <3>6, <3>7 DEF e
  <2> QED  BY <2>2, <2>4, <2>5
<1> HIDE DEF T
<1>9. \A k \in 1..n : Computed[d[k]] = Matrix(rel, local, d[k])
  <2>1. \A k \in 1..n : k - 1 \in T => k \in T
    BY <1>8
  <2>2. \A k \in 0..n : k \in T
    BY <1>4, <1>7, <2>1, Induction, Zenon
  <2>3. n \in T
    BY <1>4, <2>2
  <2> QED  BY <2>3 DEF T
<1> QED  BY <1>1, <1>3, <1>9, Elements DEF n

-----------------------------------------------------------------------------
(* The inductive invariant *)

Entries == [name : Entities, parent : All, local : Locals]

\* A serialized scene: every entity once, after its parent.
IsSnapshot(s) ==
  /\ s \in Seq(Entries) /\ Distinct(s)
  /\ \A k \in 1..Len(s) : \/ s[k].parent = Scene
                          \/ \E j \in 1..(k - 1) : s[j].name = s[k].parent

\* No list of children is torn or tied to another, and only entities that exist are in one.
HierarchyInv ==
  /\ WellLinked(rel)
  /\ \A c \in All : rel[c].parent \in All => c \in alive /\ rel[c].parent \in alive

ValuesInv ==
  /\ alive \subseteq All /\ Scene \in alive
  /\ local \in [Entities -> Locals] /\ world \in [Entities -> Seq(Locals)]
  /\ dirty \subseteq alive \ {Scene}
  /\ fate \in {"ok", "hung"}
  /\ editing \in (alive \ {Scene}) \cup {Null}
  /\ since \in {"edit", "revert", "frame"} /\ ops \in 0..MaxOps

SnapshotsInv ==
  /\ DOMAIN snapshots = 0..(MaxSnapshots - 1)
  /\ \A i \in 0..(MaxSnapshots - 1) : IsSnapshot(snapshots[i])
  /\ IsSnapshot(in_flight)

\* The slot that was filled k commits before slot c was the next one.
Slot(c, k) == IF k <= c THEN c - k ELSE c + MaxSnapshots - k

\* The scenes before the last edits are in the slots before the current one, newest last.
RingInv ==
  /\ current \in 0..(MaxSnapshots - 1)
  /\ past \in Seq(Seq(Entries)) /\ Len(past) <= MaxSnapshots
  /\ \A k \in 1..Len(past) :
       past[k] # <<>> /\ past[k] = snapshots[Slot(current, Len(past) + 1 - k)]
  /\ editing # Null => in_flight # <<>>

\* After a revert all transforms in the scene are tagged, so that the next frame draws it.
DrawnInv ==
  /\ since = "revert" => InScene \subseteq dirty
  /\ since = "frame" => dirty = {} /\ \A e \in InScene : world[e] = Matrix(rel, local, e)

IInv == HierarchyInv /\ ValuesInv /\ SnapshotsInv /\ RingInv /\ DrawnInv

LEMMA SnapshotCalls ==
  ASSUME NEW s, IsSnapshot(s)
  PROVE  /\ AreCalls(s) /\ DOMAIN s = 1..Len(s) /\ Len(s) \in Nat
         /\ \A i \in 1..Len(s) : /\ s[i] \in Entries
                                 /\ s[i].name \in Entities /\ s[i].parent \in All
                                 /\ s[i].local \in Locals
         /\ NamesIn(s) = {s[i].name : i \in 1..Len(s)} /\ NamesIn(s) \subseteq Entities
<1>1. Len(s) \in Nat /\ DOMAIN s = 1..Len(s) /\ \A i \in 1..Len(s) : s[i] \in Entries
  BY DEF IsSnapshot
<1>2. \A i \in 1..Len(s) : /\ s[i].name \in Entities /\ s[i].parent \in All
                           /\ s[i].local \in Locals
  BY <1>1 DEF Entries
<1> QED  BY <1>1, <1>2 DEF AreCalls, NamesIn

\* What the scene of a hierarchy is, whatever hierarchy that is.
LEMMA SceneOf ==
  ASSUME NEW r, WellLinked(r), NEW A, Scene \in A,
         \A c \in All : r[c].parent \in All => c \in A /\ r[c].parent \in A
  PROVE  LET d == ToSet(Descendants(r, Scene)) IN
         /\ d \subseteq A /\ d \subseteq Entities
         /\ \A c \in All : r[c].parent \in {Scene} \cup d => c \in d
<1> DEFINE d == Descendants(r, Scene)
<1>1. /\ d \in Seq(Entities) /\ IsInjective(d) /\ Rooted(r, d)
      /\ \A c \in All : r[c].parent \in {Scene} \cup ToSet(d) => c \in ToSet(d)
  BY DescendantsAre
<1> HIDE DEF d
<1>2. ASSUME NEW x \in ToSet(d)
      PROVE  x \in Entities /\ x \in A
  <2>1. PICK k \in 1..Len(d) : d[k] = x
    BY <1>1, Elements
  <2>2. Len(d) \in Nat /\ \A j \in 1..Len(d) : d[j] \in Entities /\ d[j] \in All
    BY <1>1, Names
  <2>3. r[x].parent = Scene \/ \E j \in 1..(k - 1) : d[j] = r[x].parent
    BY <1>1, <2>1 DEF Rooted
  <2>4. r[x].parent \in All
    BY <2>2, <2>3, Names
  <2> QED  BY <2>1, <2>2, <2>4
<1> QED  BY <1>1, <1>2 DEF d

LEMMA SceneExists ==
  ASSUME HierarchyInv, Scene \in alive
  PROVE  /\ InScene \subseteq alive /\ InScene \subseteq Entities
         /\ \A c \in All : rel[c].parent \in {Scene} \cup InScene => c \in InScene
BY SceneOf DEF HierarchyInv, InScene

LEMMA SceneExistsThen ==
  ASSUME HierarchyInv', Scene \in alive'
  PROVE  /\ InScene' \subseteq alive' /\ InScene' \subseteq Entities
         /\ \A c \in All : rel'[c].parent \in {Scene} \cup InScene' => c \in InScene'
BY SceneOf DEF HierarchyInv, InScene

LEMMA SnapshotTaken ==
  ASSUME HierarchyInv, local \in [Entities -> Locals]
  PROVE  /\ IsSnapshot(Snapshot)
         /\ InScene # {} => Snapshot # <<>>
         /\ NamesIn(Snapshot) = InScene
<1> DEFINE d == Descendants(rel, Scene)
           s == Snapshot
<1>1. /\ d \in Seq(Entities) /\ IsInjective(d) /\ Rooted(rel, d)
  BY DescendantsAre DEF HierarchyInv
<1>2. rel \in [All -> Relationship]
  BY DEF HierarchyInv, WellLinked, Linked
<1>3. s = [i \in DOMAIN d |-> [name |-> d[i], parent |-> rel[d[i]].parent, local |-> local[d[i]]]]
  BY DEF Snapshot
<1> HIDE DEF d, s
<1>4. /\ Len(d) \in Nat /\ DOMAIN d = 1..Len(d)
      /\ \A k \in 1..Len(d) : d[k] \in Entities /\ d[k] \in All
  BY <1>1, Names
<1>5. /\ DOMAIN s = 1..Len(d)
      /\ \A k \in 1..Len(d) : s[k] = [name |-> d[k], parent |-> rel[d[k]].parent, local |-> local[d[k]]]
  BY <1>3, <1>4
<1>6. ASSUME NEW k \in 1..Len(d)
      PROVE  s[k] \in Entries
  <2>1. rel[d[k]].parent = Scene \/ \E j \in 1..(k - 1) : d[j] = rel[d[k]].parent
    BY <1>1 DEF Rooted
  <2>2. rel[d[k]].parent \in All
    BY <2>1, <1>4, Names
  <2> QED  BY <2>2, <1>4, <1>5 DEF Entries
<1>7. s \in Seq(Entries) /\ Len(s) = Len(d)
  <2>1. s \in [1..Len(d) -> Entries]
    BY <1>3, <1>4, <1>5, <1>6
  <2> QED  BY <2>1, <1>4, SeqDef
<1>8. \A k \in 1..Len(s) : s[k].name = d[k] /\ s[k].parent = rel[d[k]].parent
  BY <1>5, <1>7
<1>9. Distinct(s)
  BY <1>1, <1>7, <1>8, Elements DEF Distinct
<1>10. ASSUME NEW k \in 1..Len(s)
       PROVE  \/ s[k].parent = Scene
              \/ \E j \in 1..(k - 1) : s[j].name = s[k].parent
  <2>1. rel[d[k]].parent = Scene \/ \E j \in 1..(k - 1) : d[j] = rel[d[k]].parent
    BY <1>1, <1>7 DEF Rooted
  <2>2. \A j \in 1..(k - 1) : j \in 1..Len(s)
    BY <1>4, <1>7
  <2> QED  BY <2>1, <2>2, <1>8
<1>11. IsSnapshot(s)
  BY <1>7, <1>9, <1>10 DEF IsSnapshot
<1>12. ToSet(d) # {} => s # <<>>
  <2>1. ToSet(d) # {} => Len(d) # 0
    BY <1>1, <1>4, Elements
  <2> QED  BY <2>1, <1>7
<1>13. NamesIn(s) = ToSet(d)
  <2>1. NamesIn(s) = {s[k].name : k \in 1..Len(s)}
    BY <1>11, SnapshotCalls
  <2>2. {s[k].name : k \in 1..Len(s)} = {d[k] : k \in 1..Len(s)}
    BY <1>8
  <2>3. ToSet(d) = {d[k] : k \in 1..Len(d)}
    BY <1>1, Elements
  <2> QED  BY <2>1, <2>2, <2>3, <1>7
<1> QED  BY <1>11, <1>12, <1>13 DEF InScene, d, s

\* Calls of set_parent between entities that exist.
LEMMA MoveKeepsHierarchy ==
  ASSUME HierarchyInv, NEW s, AreCalls(s), Move(s), alive \subseteq alive',
         \A i \in 1..Len(s) : s[i].name \in alive' /\ s[i].parent \in alive' \cup {Null}
  PROVE  HierarchyInv' /\ fate' = fate
<1>1. /\ ~Moved(rel, s).bad /\ WellLinked(Moved(rel, s).rel)
      /\ \A x \in All : \/ Moved(rel, s).rel[x].parent = rel[x].parent
                        \/ \E i \in 1..Len(s) :
                             s[i].name = x /\ s[i].parent = Moved(rel, s).rel[x].parent
  BY MoveKeeps DEF HierarchyInv
<1>2. rel' = Moved(rel, s).rel /\ fate' = fate
  BY <1>1 DEF Move
<1>3. WellLinked(rel')
  BY <1>1, <1>2
<1>4. ASSUME NEW c \in All, rel'[c].parent \in All
      PROVE  c \in alive' /\ rel'[c].parent \in alive'
  <2>1. CASE rel'[c].parent = rel[c].parent
    BY <2>1, <1>4 DEF HierarchyInv
  <2>2. CASE rel'[c].parent # rel[c].parent
    <3>1. PICK i \in 1..Len(s) : s[i].name = c /\ s[i].parent = rel'[c].parent
      BY <2>2, <1>1, <1>2
    <3> QED  BY <3>1, <1>4, Names
  <2> QED  BY <2>1, <2>2
<1> QED  BY <1>2, <1>3, <1>4 DEF HierarchyInv

\* Revert always goes through.
LEMMA RevertIs ==
  ASSUME HierarchyInv, NEW i, IsSnapshot(snapshots[i]), Revert(i)
  PROVE  \/ snapshots[i] = <<>> /\ UNCHANGED <<scene, current, since>>
         \/ /\ snapshots[i] # <<>> /\ current' = i
            /\ alive' = alive \cup NamesIn(snapshots[i])
            /\ rel' = Moved(rel, snapshots[i]).rel
            /\ local' = [e \in Entities |-> IF e \in NamesIn(snapshots[i])
                                            THEN LocalIn(snapshots[i], e) ELSE local[e]]
            /\ world' = [e \in Entities |-> IF e \in alive THEN world[e] ELSE <<>>]
            /\ dirty' = dirty \cup ToSet(Descendants(rel', Scene))
            /\ since' = "revert" /\ fate' = fate
<1>1. ~Moved(rel, snapshots[i]).bad
  BY SnapshotCalls, MoveKeeps DEF HierarchyInv
<1> QED  BY <1>1 DEF Revert, Adopted

LEMMA LocalInIs ==
  ASSUME NEW s, IsSnapshot(s), NEW k \in 1..Len(s)
  PROVE  LocalIn(s, s[k].name) = s[k].local
<1> DEFINE e == s[k].name
           Named(r) == r \in ToSet(s) /\ r.name = e
<1>1. s \in Seq(Entries) /\ Distinct(s)
  BY DEF IsSnapshot
<1>2. Named(s[k])
  BY <1>1, Elements
<1>3. \A r : Named(r) => r = s[k]
  <2> SUFFICES ASSUME NEW r, Named(r) PROVE r = s[k]
    OBVIOUS
  <2>1. PICK j \in 1..Len(s) : s[j] = r
    BY <1>1, Elements
  <2> QED  BY <2>1, <1>1 DEF Distinct
<1>4. LocalIn(s, e) = (CHOOSE r \in ToSet(s) : r.name = e).local
  BY DEF LocalIn
<1>5. (CHOOSE r \in ToSet(s) : r.name = e) = s[k]
  BY <1>2, <1>3
<1> QED  BY <1>4, <1>5

LEMMA LocalsStay ==
  ASSUME NEW s, IsSnapshot(s), local \in [Entities -> Locals]
  PROVE  [e \in Entities |-> IF e \in NamesIn(s) THEN LocalIn(s, e) ELSE local[e]]
           \in [Entities -> Locals]
<1> SUFFICES ASSUME NEW e \in Entities, e \in NamesIn(s)
             PROVE  LocalIn(s, e) \in Locals
  OBVIOUS
<1>1. PICK k \in 1..Len(s) : s[k].name = e
  BY SnapshotCalls
<1>2. s[k].local \in Locals
  BY SnapshotCalls
<1> QED  BY <1>1, <1>2, LocalInIs

\* The slots around the ring.
LEMMA BeforeMultiple ==
  ASSUME NEW m \in Nat \ {0}, NEW n \in Nat \ {0}, n % m = 0
  PROVE  (n - 1) % m = m - 1 /\ n >= m
<1> DEFINE q == n \div m
           p == (n - 1) \div m
           e == (n - 1) % m
<1>1. n = m * q /\ q \in Int
  OBVIOUS
<1>2. n - 1 = m * p + e /\ e \in 0..(m - 1) /\ p \in Int
  OBVIOUS
<1> HIDE DEF q, p, e
<1> DEFINE d == q - p
<1>3. m * d = 1 + e /\ d \in Int
  <2>1. m * (q - p) = m * q - m * p
    BY <1>1, <1>2
  <2> QED  BY <2>1, <1>1, <1>2
<1> HIDE DEF d
<1>4. CASE d <= 0
  <2>1. m * d <= 0
    BY <1>3, <1>4
  <2> QED  BY <2>1, <1>2, <1>3
<1>5. CASE d >= 2
  <2>1. m * d >= 2 * m
    BY <1>3, <1>5
  <2> QED  BY <2>1, <1>2, <1>3
<1>6. CASE d = 1
  <2>1. e = m - 1
    BY <1>2, <1>3, <1>6
  <2> QED  BY <2>1 DEF e
<1>7. n >= m
  OBVIOUS
<1> QED  BY <1>3, <1>4, <1>5, <1>6, <1>7

LEMMA Indices ==
  ASSUME current \in 0..(MaxSnapshots - 1)
  PROVE  /\ NextIndex = IF current = MaxSnapshots - 1 THEN 0 ELSE current + 1
         /\ PreviousIndex = IF current = 0 THEN MaxSnapshots - 1 ELSE current - 1
         /\ NextIndex \in 0..(MaxSnapshots - 1) /\ PreviousIndex \in 0..(MaxSnapshots - 1)
<1>1. /\ MaxSnapshots \in Nat \ {0} /\ SizeT \in Nat \ {0} /\ SizeT % MaxSnapshots = 0
      /\ (SizeT - 1) % MaxSnapshots = MaxSnapshots - 1 /\ SizeT >= MaxSnapshots
  BY EditorAssumption, BeforeMultiple
<1>2. NextIndex = IF current = MaxSnapshots - 1 THEN 0 ELSE current + 1
  BY <1>1 DEF NextIndex
<1>3. CASE current = 0
  <2>1. (current + SizeT - 1) % SizeT = SizeT - 1
    BY <1>1, <1>3
  <2> QED  BY <2>1, <1>1, <1>2, <1>3 DEF PreviousIndex
<1>4. CASE current # 0
  <2>1. (current + SizeT - 1) % SizeT = current - 1
    BY <1>1, <1>4
  <2>2. (current - 1) % MaxSnapshots = current - 1
    BY <1>1, <1>4
  <2> QED  BY <2>1, <2>2, <1>1, <1>2, <1>4 DEF PreviousIndex
<1> QED  BY <1>3, <1>4

LEMMA InitInv == Init => IInv
<1> SUFFICES ASSUME Init PROVE IInv
  OBVIOUS
<1> DEFINE r == [x \in All |-> Fresh]
<1>1. /\ Len(Loaded) \in Nat /\ DOMAIN Loaded = 1..Len(Loaded)
      /\ \A i \in 1..Len(Loaded) :
           /\ Loaded[i].name \in Entities /\ Loaded[i].parent \in All
           /\ Loaded[i].parent \in {Scene} \cup NamesIn(Loaded)
      /\ NamesIn(Loaded) = {Loaded[i].name : i \in 1..Len(Loaded)}
  <2>1. /\ Len(Loaded) \in Nat /\ DOMAIN Loaded = 1..Len(Loaded)
        /\ \A i \in 1..Len(Loaded) : Loaded[i] \in [name : Entities, parent : All]
    <3> DEFINE S == [name : Entities, parent : All]
    <3>1. Loaded \in Seq(S)
      BY EditorAssumption
    <3> HIDE DEF S
    <3>2. Len(Loaded) \in Nat /\ DOMAIN Loaded = 1..Len(Loaded)
      BY <3>1
    <3>3. \A i \in 1..Len(Loaded) : Loaded[i] \in S
      BY <3>1
    <3> QED  BY <3>2, <3>3 DEF S
  <2>2. \A i \in 1..Len(Loaded) : Loaded[i].name \in Entities /\ Loaded[i].parent \in All
    BY <2>1
  <2>3. \A i \in 1..Len(Loaded) : Loaded[i].parent \in {Scene} \cup NamesIn(Loaded)
    BY <2>1, EditorAssumption DEF NamesIn
  <2> QED  BY <2>1, <2>2, <2>3 DEF NamesIn
<1>2. WellLinked(r) /\ AreCalls(Loaded)
  BY <1>1, FreshLinked DEF AreCalls
<1>3. /\ WellLinked(rel)
      /\ \A x \in All : \/ rel[x].parent = r[x].parent
                        \/ \E i \in 1..Len(Loaded) :
                             Loaded[i].name = x /\ Loaded[i].parent = rel[x].parent
  <2> HIDE DEF r
  <2>1. rel = Moved(r, Loaded).rel
    BY DEF Init, r
  <2> QED  BY <2>1, <1>2, MoveKeeps
<1>4. ASSUME NEW c \in All, rel[c].parent \in All
      PROVE  c \in alive /\ rel[c].parent \in alive
  <2>1. r[c].parent = Null
    BY DEF Fresh
  <2>2. PICK i \in 1..Len(Loaded) : Loaded[i].name = c /\ Loaded[i].parent = rel[c].parent
    BY <1>3, <1>4, <2>1, Names
  <2> QED  BY <2>2, <1>1 DEF Init
<1>5. HierarchyInv
  BY <1>3, <1>4 DEF HierarchyInv
<1>6. ValuesInv
  <2>1. alive \subseteq All /\ Scene \in alive /\ local \in [Entities -> Locals]
    BY <1>1, EditorAssumption, Names DEF Init
  <2>2. ops \in 0..MaxOps
    BY EditorAssumption DEF Init
  <2> QED  BY <2>1, <2>2 DEF Init, ValuesInv
<1>7. IsSnapshot(<<>>)
  <2>1. Len(<<>>) = 0 /\ <<>> \in Seq(Entries)
    OBVIOUS
  <2> QED  BY <2>1 DEF IsSnapshot, Distinct
<1>8. SnapshotsInv
  BY <1>7 DEF Init, SnapshotsInv
<1>9. RingInv
  BY EditorAssumption DEF Init, RingInv
<1>10. DrawnInv
  BY DEF Init, DrawnInv
<1> QED  BY <1>5, <1>6, <1>8, <1>9, <1>10 DEF IInv

-----------------------------------------------------------------------------
(* The hierarchy *)

\* One call of set_parent.
LEMMA OneCall ==
  ASSUME NEW c \in Entities, NEW p \in All \cup {Null}
  PROVE  LET s == <<[name |-> c, parent |-> p]>> IN
         /\ AreCalls(s) /\ Distinct(s) /\ Len(s) = 1 /\ s[1].name = c /\ s[1].parent = p
BY DEF AreCalls, Distinct

\* The calls of a drop.
LEMMA DropCalls ==
  ASSUME NEW l \in Payloads, NEW p \in All
  PROVE  LET s == [i \in DOMAIN l |-> [name |-> l[i], parent |-> p]] IN
         /\ AreCalls(s) /\ Distinct(s) /\ DOMAIN l = 1..Len(s)
         /\ \A i \in 1..Len(s) : s[i].name = l[i] /\ s[i].parent = p /\ s[i].name \in ToSet(l)
<1> DEFINE s == [i \in DOMAIN l |-> [name |-> l[i], parent |-> p]]
<1>1. /\ DOMAIN l = 1..Len(l) /\ Len(l) \in Nat
      /\ \A i \in 1..Len(l) : l[i] \in Entities
      /\ \A i, j \in 1..Len(l) : l[i] = l[j] => i = j
  <2>1. CASE l \in {<<c>> : c \in Entities}
    BY <2>1
  <2>2. CASE l \in {q \in Entities \X Entities : q[1] # q[2]}
    <3>1. PICK c \in Entities, d \in Entities : l = <<c, d>> /\ c # d
      BY <2>2
    <3>2. Len(<<c, d>>) = 2 /\ DOMAIN <<c, d>> = 1..2 /\ <<c, d>>[1] = c /\ <<c, d>>[2] = d
      OBVIOUS
    <3> QED  BY <3>1, <3>2
  <2> QED  BY <2>1, <2>2 DEF Payloads
<1>2. s = [i \in 1..Len(l) |-> [name |-> l[i], parent |-> p]]
  BY <1>1
<1> HIDE DEF s
<1>3. DOMAIN s = 1..Len(l) /\ Len(s) = Len(l)
  BY <1>1, <1>2
<1>4. \A i \in 1..Len(s) : s[i].name = l[i] /\ s[i].parent = p
  BY <1>2, <1>3
<1> QED  BY <1>1, <1>3, <1>4 DEF AreCalls, Distinct, ToSet, s

\* Nobody's parent is gone.
LEMMA NotOrphaned ==
  ASSUME HierarchyInv, NEW e \in Entities
  PROVE  ~Orphaned(rel, e)
<1> DEFINE succ == [x \in All |-> rel[x].parent]
           a == Ancestors(rel, e)
<1>1. \A x \in All : rel[x].parent \in All \cup {Null}
  BY LinkedType DEF HierarchyInv, WellLinked
<1>2. succ \in [All -> Handles] /\ rel[e].parent \in Handles
  BY <1>1, Names DEF Handles
<1>3. a = Walk(rel[e].parent, succ)
  BY DEF Ancestors
<1> HIDE DEF succ, a
<1>4. a \in Seq(All)
  BY <1>2, <1>3, WalkIs
<1>5. \A x \in {e} \cup ToSet(a) : x \in All
  BY <1>4, Elements, Names
<1> QED  BY <1>1, <1>5, Names DEF Orphaned, a

LEMMA DestroyIs ==
  ASSUME HierarchyInv, ~DestroyParents, NEW e \in Entities, NEW b \in BOOLEAN, Destroy(e, b)
  PROVE  /\ rel[e].children = 0 /\ e \in alive \ {Scene, editing}
         /\ alive' = alive \ {e} /\ rel' = Destroyed(rel, e) /\ dirty' = dirty \ {e}
         /\ fate' = fate
<1>1. rel[e].children = 0 /\ e \in alive \ {Scene, editing} /\ ~(rel[e].children > 0)
  BY DEF Destroy
<1>2. ~Dangling(rel, e, Null)
  BY Names, NeverDangling DEF HierarchyInv
<1> QED  BY <1>1, <1>2 DEF Destroy

LEMMA RevertKeepsHierarchy ==
  ASSUME HierarchyInv, Scene \in alive, NEW i, IsSnapshot(snapshots[i]), Revert(i)
  PROVE  HierarchyInv' /\ fate' = fate
<1> DEFINE s == snapshots[i]
<1>1. CASE s = <<>>
  BY <1>1, RevertIs DEF scene, HierarchyInv
<1>2. CASE s # <<>>
  <2>1. /\ alive' = alive \cup NamesIn(s) /\ Moved(rel, s).rel = rel' /\ fate' = fate
    BY <1>2, RevertIs
  <2>2. AreCalls(s) /\ NamesIn(s) = {s[k].name : k \in 1..Len(s)}
    BY SnapshotCalls
  <2>3. ~Moved(rel, s).bad
    BY <2>2, MoveKeeps DEF HierarchyInv
  <2>4. Move(s)
    BY <2>1, <2>3 DEF Move
  <2>5. \A k \in 1..Len(s) : s[k].name \in alive' /\ s[k].parent \in alive'
    <3> SUFFICES ASSUME NEW k \in 1..Len(s)
                 PROVE  s[k].name \in alive' /\ s[k].parent \in alive'
      OBVIOUS
    <3>1. s[k].parent = Scene \/ \E j \in 1..(k - 1) : s[j].name = s[k].parent
      BY DEF IsSnapshot
    <3>2. Len(s) \in Nat
      BY SnapshotCalls
    <3>3. \A j \in 1..(k - 1) : j \in 1..Len(s)
      BY <3>2
    <3> QED  BY <3>1, <3>3, <2>1, <2>2
  <2> HIDE DEF s
  <2> QED  BY <2>1, <2>2, <2>4, <2>5, MoveKeepsHierarchy
<1> QED  BY <1>1, <1>2

LEMMA HierarchyStep ==
  ASSUME ~DestroyParents, IInv, [Next]_vars
  PROVE  HierarchyInv' /\ fate' \in {"ok", "hung"}
<1>0. /\ HierarchyInv /\ Scene \in alive /\ alive \subseteq All /\ fate \in {"ok", "hung"}
      /\ WellLinked(rel)
  BY DEF IInv, ValuesInv, HierarchyInv
<1>1. ASSUME UNCHANGED <<alive, rel, fate>>
      PROVE  HierarchyInv' /\ fate' \in {"ok", "hung"}
  BY <1>0, <1>1 DEF HierarchyInv
<1>2. ASSUME NEW e \in Entities, NEW p \in All, Create(e, p)
      PROVE  HierarchyInv' /\ fate' \in {"ok", "hung"}
  <2> DEFINE s == <<[name |-> e, parent |-> p]>>
  <2>1. Move(s) /\ alive' = alive \cup {e} /\ p \in alive
    BY <1>2 DEF Create
  <2>2. AreCalls(s) /\ Len(s) = 1 /\ s[1].name = e /\ s[1].parent = p
    BY OneCall
  <2> HIDE DEF s
  <2>3. \A i \in 1..Len(s) : s[i].name \in alive' /\ s[i].parent \in alive' \cup {Null}
    BY <2>1, <2>2
  <2> QED  BY <1>0, <2>1, <2>2, <2>3, MoveKeepsHierarchy
<1>3. ASSUME NEW c \in Entities, NEW p \in All \cup {Null}, SetParent(c, p)
      PROVE  HierarchyInv' /\ fate' \in {"ok", "hung"}
  <2> DEFINE s == <<[name |-> c, parent |-> p]>>
  <2>1. Move(s) /\ alive' = alive /\ c \in alive /\ p \in alive \cup {Null}
    BY <1>3 DEF SetParent
  <2>2. AreCalls(s) /\ Len(s) = 1 /\ s[1].name = c /\ s[1].parent = p
    BY OneCall
  <2> HIDE DEF s
  <2>3. \A i \in 1..Len(s) : s[i].name \in alive' /\ s[i].parent \in alive' \cup {Null}
    BY <2>1, <2>2
  <2> QED  BY <1>0, <2>1, <2>2, <2>3, MoveKeepsHierarchy
<1>4. ASSUME NEW l \in Payloads, NEW p \in All, Drop(l, p)
      PROVE  HierarchyInv' /\ fate' \in {"ok", "hung"}
  <2> DEFINE s == [i \in DOMAIN l |-> [name |-> l[i], parent |-> p]]
  <2>1. Move(s) /\ alive' = alive /\ ToSet(l) \cup {p} \subseteq InScene \cup {Scene}
    BY <1>4 DEF Drop
  <2>2. AreCalls(s) /\ \A i \in 1..Len(s) : s[i].name \in ToSet(l) /\ s[i].parent = p
    BY DropCalls
  <2>3. ToSet(l) \cup {p} \subseteq alive
    BY <2>1, <1>0, SceneExists
  <2> HIDE DEF s
  <2>4. \A i \in 1..Len(s) : s[i].name \in alive' /\ s[i].parent \in alive' \cup {Null}
    BY <2>1, <2>2, <2>3
  <2> QED  BY <1>0, <2>1, <2>2, <2>4, MoveKeepsHierarchy
<1>5. ASSUME NEW e \in Entities, NEW b \in BOOLEAN, Destroy(e, b)
      PROVE  HierarchyInv' /\ fate' \in {"ok", "hung"}
  <2>1. /\ rel[e].children = 0 /\ alive' = alive \ {e} /\ rel' = Destroyed(rel, e) /\ fate' = fate
    BY <1>0, <1>5, DestroyIs
  <2>2. /\ WellLinked(rel')
        /\ \A x \in All : rel'[x].parent = IF x = e THEN Null ELSE rel[x].parent
    BY <1>0, <2>1, DestroyKeeps
  <2>3. \A x \in All : rel[x].parent # e
    <3>1. e \in All
      BY Names
    <3>2. /\ Kids(rel, e) \in Seq(All) /\ Len(Kids(rel, e)) = 0
          /\ ToSet(Kids(rel, e)) = {c \in All : rel[c].parent = e}
      BY <1>0, <2>1, <3>1, KidsFacts
    <3>3. ToSet(Kids(rel, e)) = {}
      <4>1. \A x : x \in ToSet(Kids(rel, e))
                     => \E i \in 1..Len(Kids(rel, e)) : Kids(rel, e)[i] = x
        BY <3>2, Elements
      <4>2. 1..Len(Kids(rel, e)) = {}
        BY <3>2
      <4> QED  BY <4>1, <4>2
    <3> QED  BY <3>2, <3>3
  <2>4. ASSUME NEW c \in All, rel'[c].parent \in All
        PROVE  c \in alive' /\ rel'[c].parent \in alive'
    <3>1. c # e /\ rel'[c].parent = rel[c].parent
      BY <2>2, <2>4, Names
    <3> QED  BY <3>1, <1>0, <2>1, <2>3, <2>4 DEF HierarchyInv
  <2> QED  BY <1>0, <2>1, <2>2, <2>4 DEF HierarchyInv
<1>6. ASSUME NEW i \in 0..(MaxSnapshots - 1), Revert(i)
      PROVE  HierarchyInv' /\ fate' \in {"ok", "hung"}
  <2>1. IsSnapshot(snapshots[i])
    BY DEF IInv, SnapshotsInv
  <2> QED  BY <2>1, <1>0, <1>6, RevertKeepsHierarchy
<1>7. NextIndex \in 0..(MaxSnapshots - 1) /\ PreviousIndex \in 0..(MaxSnapshots - 1)
  BY Indices DEF IInv, RingInv
<1>8. CASE Frame
  <2>1. alive' = alive /\ rel' = rel
    BY <1>8 DEF Frame
  <2>2. \A e \in dirty : ~Orphaned(rel, e)
    <3>1. dirty \subseteq Entities
      BY DEF IInv, ValuesInv, All
    <3> QED  BY <3>1, <1>0, NotOrphaned
  <2>3. fate' \in {"ok", "hung"}
    BY <1>8, <1>0, <2>2 DEF Frame
  <2> QED  BY <1>0, <2>1, <2>3 DEF HierarchyInv
<1>9. CASE \/ \E e \in Entities, l \in Locals : BeginEdit(e, l)
           \/ \E l \in Locals : ContinueEdit(l)
           \/ EndEdit
           \/ \E e \in Entities : Reset(e)
           \/ UNCHANGED vars
  <2>1. UNCHANGED <<alive, rel, fate>>
    BY <1>9 DEF BeginEdit, ContinueEdit, EndEdit, Reset, Patched, scene, vars
  <2> QED  BY <2>1, <1>1
<1>10. CASE Undo
  BY <1>6, <1>7, <1>10 DEF Undo
<1>11. CASE Redo
  BY <1>6, <1>7, <1>11 DEF Redo
<1>12. CASE \E i \in 0..MaxSnapshots - 1 : RevertTo(i)
  BY <1>6, <1>12 DEF RevertTo
<1> QED  BY <1>2, <1>3, <1>4, <1>5, <1>8, <1>9, <1>10, <1>11, <1>12 DEF Next

-----------------------------------------------------------------------------
(* The other parts of the invariant *)

LEMMA ValuesStep ==
  ASSUME ~DestroyParents, IInv, [Next]_vars
  PROVE  ValuesInv'
<1>0. /\ HierarchyInv /\ ValuesInv /\ Scene \in alive
      /\ HierarchyInv' /\ fate' \in {"ok", "hung"}
      /\ Scene \notin Entities /\ Entities \subseteq All
      /\ InScene \subseteq alive /\ InScene \subseteq Entities
  BY HierarchyStep, SceneExists, Names DEF IInv, ValuesInv
<1>1. /\ MaxOps \in Nat /\ Default \in Locals /\ \A n \in 0..MaxOps : n < MaxOps => n + 1 \in 0..MaxOps
  BY EditorAssumption
<1>2. ASSUME NEW e \in Entities, NEW p \in All, Create(e, p)
      PROVE  ValuesInv'
  <2>1. alive' = alive \cup {e} /\ dirty' = dirty \cup {e} /\ editing' = editing
        /\ since' = "edit" /\ ops' = ops + 1 /\ ops < MaxOps
    BY <1>2 DEF Create, Do
  <2>2. local' \in [Entities -> Locals] /\ world' \in [Entities -> Seq(Locals)]
    BY <1>0, <1>1, <1>2 DEF Create, ValuesInv
  <2> QED  BY <1>0, <1>1, <2>1, <2>2 DEF ValuesInv
<1>3. CASE \/ \E c \in Entities, p \in All \cup {Null} : SetParent(c, p)
           \/ \E l \in Payloads, p \in All : Drop(l, p)
  <2>1. /\ UNCHANGED <<alive, local, world, dirty, editing>>
        /\ since' = "edit" /\ ops' = ops + 1 /\ ops < MaxOps
    BY <1>3 DEF SetParent, Drop, Do
  <2> QED  BY <1>0, <1>1, <2>1 DEF ValuesInv
<1>4. ASSUME NEW e \in Entities, NEW b \in BOOLEAN, Destroy(e, b)
      PROVE  ValuesInv'
  <2>1. /\ e \in alive \ {Scene, editing} /\ alive' = alive \ {e} /\ dirty' = dirty \ {e}
    BY <1>0, <1>4, DestroyIs
  <2>2. /\ UNCHANGED <<local, world, editing>>
        /\ since' = "edit" /\ ops' = ops + 1 /\ ops < MaxOps
    BY <1>4 DEF Destroy, Do
  <2> QED  BY <1>0, <1>1, <2>1, <2>2 DEF ValuesInv
<1>5. ASSUME NEW e \in Entities, NEW l \in Locals, BeginEdit(e, l)
      PROVE  ValuesInv'
  <2>1. /\ UNCHANGED <<alive, world>> /\ editing' = e /\ dirty' = dirty \cup {e}
        /\ e \in alive /\ e # Scene
        /\ since' = "edit" /\ ops' = ops + 1 /\ ops < MaxOps
    BY <1>0, <1>5 DEF BeginEdit, Patched, Do
  <2>2. local' \in [Entities -> Locals]
    BY <1>5 DEF BeginEdit, Patched, IInv, ValuesInv
  <2> QED  BY <1>0, <1>1, <2>1, <2>2 DEF ValuesInv
<1>6. ASSUME NEW l \in Locals, ContinueEdit(l)
      PROVE  ValuesInv'
  <2>1. /\ UNCHANGED <<alive, world, editing>> /\ dirty' = dirty \cup {editing}
        /\ editing \in alive \ {Scene}
        /\ since' = "edit" /\ ops' = ops + 1 /\ ops < MaxOps
    BY <1>0, <1>6 DEF ContinueEdit, Patched, Do, ValuesInv
  <2>2. local' \in [Entities -> Locals]
    BY <1>6 DEF ContinueEdit, Patched, IInv, ValuesInv
  <2> QED  BY <1>0, <1>1, <2>1, <2>2 DEF ValuesInv
<1>7. CASE EndEdit
  <2>1. UNCHANGED <<alive, local, world, dirty, since, ops>> /\ editing' = Null
    BY <1>7 DEF EndEdit, scene
  <2> QED  BY <1>0, <2>1 DEF ValuesInv
<1>8. ASSUME NEW e \in Entities, Reset(e)
      PROVE  ValuesInv'
  <2>1. /\ UNCHANGED <<alive, editing>> /\ dirty' = dirty \cup {e} /\ e \in alive /\ e # Scene
        /\ since' = "edit" /\ ops' = ops + 1 /\ ops < MaxOps
    BY <1>0, <1>8 DEF Reset, Patched, Do
  <2>2. local' \in [Entities -> Locals] /\ world' \in [Entities -> Seq(Locals)]
    BY <1>1, <1>8 DEF Reset, Patched, IInv, ValuesInv
  <2> QED  BY <1>0, <1>1, <2>1, <2>2 DEF ValuesInv
<1>9. ASSUME NEW i \in 0..(MaxSnapshots - 1), Revert(i), Do, editing' = editing
      PROVE  ValuesInv'
  <2> DEFINE s == snapshots[i]
  <2>0. IsSnapshot(s) /\ ops' = ops + 1 /\ ops < MaxOps
    BY <1>9 DEF IInv, SnapshotsInv, Do
  <2>1. CASE s = <<>>
    <3>1. UNCHANGED <<alive, local, world, dirty, since>>
      BY <2>0, <2>1, <1>0, <1>9, RevertIs DEF scene
    <3> QED  BY <3>1, <2>0, <1>0, <1>1, <1>9 DEF ValuesInv
  <2>2. CASE s # <<>>
    <3>1. /\ alive' = alive \cup NamesIn(s) /\ since' = "revert"
          /\ local' = [e \in Entities |-> IF e \in NamesIn(s) THEN LocalIn(s, e) ELSE local[e]]
          /\ world' = [e \in Entities |-> IF e \in alive THEN world[e] ELSE <<>>]
          /\ dirty' = dirty \cup InScene'
      BY <2>0, <2>2, <1>0, <1>9, RevertIs DEF InScene
    <3> HIDE DEF s
    <3>2. local' \in [Entities -> Locals] /\ world' \in [Entities -> Seq(Locals)]
      BY <3>1, <2>0, <1>0, LocalsStay DEF ValuesInv
    <3>3. NamesIn(s) \subseteq Entities
      BY <2>0, SnapshotCalls
    <3>4. Scene \in alive'
      BY <1>0, <3>1
    <3>5. InScene' \subseteq alive' /\ InScene' \subseteq Entities
      <4>1. HierarchyInv' /\ Scene \in alive'
        BY <1>0, <3>4
      <4>3. HierarchyInv' /\ Scene \in alive' => InScene' \subseteq alive' /\ InScene' \subseteq Entities
        BY SceneExistsThen
      <4> QED  BY <4>1, <4>3
    <3> QED  BY <1>0, <1>1, <1>9, <2>0, <3>1, <3>2, <3>3, <3>5 DEF ValuesInv
  <2> QED  BY <2>1, <2>2
<1>10. NextIndex \in 0..(MaxSnapshots - 1) /\ PreviousIndex \in 0..(MaxSnapshots - 1)
  BY Indices DEF IInv, RingInv
<1>11. CASE Undo \/ Redo \/ \E i \in 0..MaxSnapshots - 1 : RevertTo(i)
  <2>1. CASE Undo
    BY <2>1, <1>9, <1>10 DEF Undo
  <2>2. CASE Redo
    BY <2>2, <1>9, <1>10 DEF Redo
  <2>3. CASE \E i \in 0..MaxSnapshots - 1 : RevertTo(i)
    BY <2>3, <1>9 DEF RevertTo
  <2> QED  BY <1>11, <2>1, <2>2, <2>3
<1>12. CASE Frame
  <2>1. /\ UNCHANGED <<alive, local, editing, ops>> /\ dirty' \subseteq dirty
        /\ since' \in {"edit", "revert", "frame"}
    BY <1>0, <1>12 DEF Frame, ValuesInv, manager
  <2>2. world' \in [Entities -> Seq(Locals)]
    <3>1. Computed \in [Entities -> Seq(Locals)]
      BY <1>0, ComputedIs DEF HierarchyInv, ValuesInv
    <3> QED  BY <1>0, <1>12, <3>1 DEF Frame, ValuesInv
  <2> QED  BY <1>0, <2>1, <2>2 DEF ValuesInv
<1>13. CASE UNCHANGED vars
  BY <1>0, <1>13 DEF ValuesInv, vars, scene
<1> QED  BY <1>2, <1>3, <1>4, <1>5, <1>6, <1>7, <1>8, <1>11, <1>12, <1>13 DEF Next

LEMMA SnapshotsStep ==
  ASSUME IInv, [Next]_vars
  PROVE  SnapshotsInv'
<1>0. SnapshotsInv /\ IsSnapshot(Snapshot) /\ current \in 0..(MaxSnapshots - 1)
  BY SnapshotTaken DEF IInv, ValuesInv, RingInv
<1>1. IsSnapshot(<<>>)
  <2>1. Len(<<>>) = 0 /\ <<>> \in Seq(Entries)
    OBVIOUS
  <2> QED  BY <2>1 DEF IsSnapshot, Distinct
<1>2. CASE EndEdit
  <2>1. snapshots' = [snapshots EXCEPT ![current] = in_flight] /\ in_flight' = <<>>
    BY <1>2 DEF EndEdit
  <2> QED  BY <2>1, <1>0, <1>1 DEF SnapshotsInv
<1>3. CASE \/ \E e \in Entities, l \in Locals : BeginEdit(e, l)
           \/ \E e \in Entities : Reset(e)
  <2>1. snapshots' = snapshots /\ in_flight' = Snapshot
    BY <1>3 DEF BeginEdit, Reset
  <2> QED  BY <2>1, <1>0 DEF SnapshotsInv
<1>4. CASE \/ \E e \in Entities, p \in All : Create(e, p)
           \/ \E c \in Entities, p \in All \cup {Null} : SetParent(c, p)
           \/ \E l \in Payloads, p \in All : Drop(l, p)
           \/ \E e \in Entities, b \in BOOLEAN : Destroy(e, b)
           \/ \E l \in Locals : ContinueEdit(l)
           \/ Undo \/ Redo \/ Frame
           \/ \E i \in 0..MaxSnapshots - 1 : RevertTo(i)
           \/ UNCHANGED vars
  <2>1. UNCHANGED <<snapshots, in_flight>>
    BY <1>4 DEF Create, SetParent, Drop, Destroy, ContinueEdit, Undo, Redo, Frame, RevertTo,
                manager, vars
  <2> QED  BY <2>1, <1>0 DEF SnapshotsInv
<1> QED  BY <1>2, <1>3, <1>4 DEF Next

After(c) == IF c = MaxSnapshots - 1 THEN 0 ELSE c + 1
Before(c) == IF c = 0 THEN MaxSnapshots - 1 ELSE c - 1

LEMMA Slots ==
  ASSUME NEW c \in 0..(MaxSnapshots - 1)
  PROVE  /\ Slot(c, 1) = Before(c) /\ Slot(After(c), 1) = c
         /\ After(c) \in 0..(MaxSnapshots - 1) /\ Before(c) \in 0..(MaxSnapshots - 1)
         /\ \A j \in 2..MaxSnapshots : /\ Slot(After(c), j) = Slot(c, j - 1)
                                       /\ Slot(c, j - 1) \in 0..(MaxSnapshots - 1)
                                       /\ Slot(c, j - 1) # c
         /\ \A j \in 1..(MaxSnapshots - 1) : Slot(Before(c), j) = Slot(c, j + 1)
<1>1. MaxSnapshots \in Nat \ {0}
  BY EditorAssumption
<1> QED  BY <1>1 DEF Slot, After, Before

\* What the last commit put into the ring, if there was no undo since.
LEMMA PreviousIsPast ==
  ASSUME RingInv, past # <<>>
  PROVE  snapshots[PreviousIndex] = past[Len(past)] /\ past[Len(past)] # <<>>
<1> DEFINE n == Len(past)
<1>1. n \in Nat /\ n >= 1
  <2>1. past \in Seq(Seq(Entries))
    BY DEF RingInv
  <2> HIDE DEF RingInv
  <2> QED  BY <2>1
<1>2. PreviousIndex = Slot(current, 1)
  BY Indices, Slots DEF RingInv, Before
<1>3. n \in 1..n /\ n + 1 - n = 1
  BY <1>1
<1>4. past[n] # <<>> /\ past[n] = snapshots[Slot(current, n + 1 - n)]
  BY <1>3 DEF RingInv
<1> QED  BY <1>2, <1>3, <1>4

\* A list of the last m, after one more.
LastOf(p, x, m) == IF Len(Append(p, x)) > m THEN Tail(Append(p, x)) ELSE Append(p, x)
Dropped(p, m) == IF Len(p) = m THEN 1 ELSE 0

LEMMA AppendTail ==
  ASSUME NEW S, NEW p \in Seq(S), NEW x \in S, NEW m \in Nat \ {0}, Len(p) <= m
  PROVE  /\ LastOf(p, x, m) \in Seq(S) /\ Len(LastOf(p, x, m)) = Len(p) + 1 - Dropped(p, m)
         /\ \A k \in 1..(Len(p) + 1 - Dropped(p, m)) :
              LastOf(p, x, m)[k]
                = IF k + Dropped(p, m) = Len(p) + 1 THEN x ELSE p[k + Dropped(p, m)]
<1> DEFINE q == LastOf(p, x, m)
           d == Dropped(p, m)
           a == Append(p, x)
           t == Tail(a)
<1>0. /\ Len(p) \in Nat /\ a \in Seq(S) /\ Len(a) = Len(p) + 1
      /\ \A k \in 1..(Len(p) + 1) : a[k] = IF k = Len(p) + 1 THEN x ELSE p[k]
  OBVIOUS
<1> HIDE DEF a
<1>1. t \in Seq(S) /\ Len(t) = Len(p) /\ \A k \in 1..Len(p) : t[k] = a[k + 1]
  <2>1. a # <<>>
    BY <1>0
  <2> QED  BY <1>0, <2>1
<1> HIDE DEF t
<1>2. CASE Len(p) = m
  <2>1. q = t /\ d = 1
    BY <1>0, <1>2 DEF t, a, LastOf, Dropped
  <2> HIDE DEF q, d
  <2>2. Len(p) + 1 - d = Len(p)
    BY <1>0, <2>1
  <2>3. ASSUME NEW k \in 1..Len(p)
        PROVE  q[k] = IF k + d = Len(p) + 1 THEN x ELSE p[k + d]
    <3>1. k + d = k + 1 /\ k + 1 \in 1..(Len(p) + 1) /\ t[k] = a[k + 1]
      BY <1>0, <1>1, <2>1
    <3> QED  BY <1>0, <2>1, <3>1
  <2> QED  BY <1>1, <2>1, <2>2, <2>3 DEF q, d
<1>3. CASE Len(p) # m
  <2>1. q = a /\ d = 0
    BY <1>0, <1>3 DEF a, LastOf, Dropped
  <2> HIDE DEF q, d
  <2>2. Len(p) + 1 - d = Len(p) + 1
    BY <1>0, <2>1
  <2>3. ASSUME NEW k \in 1..(Len(p) + 1)
        PROVE  q[k] = IF k + d = Len(p) + 1 THEN x ELSE p[k + d]
    <3>1. k + d = k
      BY <2>1
    <3> QED  BY <1>0, <2>1, <3>1
  <2> QED  BY <1>0, <2>1, <2>2, <2>3 DEF q, d
<1> QED  BY <1>2, <1>3

LEMMA RingStep ==
  ASSUME IInv, [Next]_vars
  PROVE  RingInv'
<1>0. /\ HierarchyInv /\ SnapshotsInv /\ RingInv
      /\ current \in 0..(MaxSnapshots - 1) /\ MaxSnapshots \in Nat \ {0}
      /\ past \in Seq(Seq(Entries)) /\ Len(past) <= MaxSnapshots
      /\ DOMAIN snapshots = 0..(MaxSnapshots - 1)
      /\ editing # Null => in_flight # <<>>
  BY EditorAssumption DEF IInv, SnapshotsInv, RingInv
<1>1. /\ NextIndex = After(current) /\ PreviousIndex = Before(current)
      /\ NextIndex \in 0..(MaxSnapshots - 1) /\ PreviousIndex \in 0..(MaxSnapshots - 1)
  BY <1>0, Indices DEF After, Before
<1>2. CASE EndEdit
  <2> DEFINE n == Len(past)
             d == IF n = MaxSnapshots THEN 1 ELSE 0
  <2>1. /\ snapshots' = [snapshots EXCEPT ![current] = in_flight] /\ current' = NextIndex
        /\ editing' = Null /\ in_flight # <<>> /\ in_flight \in Seq(Entries)
        /\ past' = IF Len(Append(past, in_flight)) > MaxSnapshots
                   THEN Tail(Append(past, in_flight)) ELSE Append(past, in_flight)
    BY <1>0, <1>2 DEF EndEdit, SnapshotsInv, IsSnapshot
  <2>2. /\ past' \in Seq(Seq(Entries)) /\ Len(past') = n + 1 - d
        /\ \A k \in 1..(n + 1 - d) :
             past'[k] = IF k + d = n + 1 THEN in_flight ELSE past[k + d]
    <3> DEFINE S == Seq(Entries)
    <3>1. /\ past \in Seq(S) /\ Len(past) <= MaxSnapshots /\ MaxSnapshots \in Nat \ {0}
          /\ in_flight \in S
      BY <1>0, <2>1
    <3> HIDE DEF S
    <3>2. past' = LastOf(past, in_flight, MaxSnapshots) /\ d = Dropped(past, MaxSnapshots)
      BY <2>1 DEF LastOf, Dropped
    <3> HIDE DEF d, n
    <3> DEFINE q == LastOf(past, in_flight, MaxSnapshots)
               o == Dropped(past, MaxSnapshots)
    <3>3. /\ q \in Seq(S) /\ Len(q) = Len(past) + 1 - o
          /\ \A k \in 1..(Len(past) + 1 - o) :
               q[k] = IF k + o = Len(past) + 1 THEN in_flight ELSE past[k + o]
      BY <3>1, AppendTail, Zenon
    <3> HIDE DEF q, o
    <3>4. past' = q /\ d = o
      BY <3>2 DEF q, o
    <3> QED  BY <3>3, <3>4 DEF S, n
  <2>3. n \in 0..MaxSnapshots /\ d \in {0, 1} /\ n + 1 - d \in 1..MaxSnapshots
    BY <1>0
  <2> HIDE DEF d, n
  <2>4. ASSUME NEW k \in 1..(n + 1 - d)
        PROVE  past'[k] # <<>> /\ past'[k] = snapshots'[Slot(current', n + 2 - d - k)]
    <3> DEFINE j == n + 2 - d - k
    <3>1. CASE k + d = n + 1
      <4>1. j = 1 /\ past'[k] = in_flight
        BY <2>2, <2>3, <3>1
      <4>2. Slot(current', 1) = current
        BY <1>0, <1>1, <2>1, Slots
      <4>3. snapshots'[current] = in_flight
        BY <1>0, <2>1
      <4> QED  BY <2>1, <4>1, <4>2, <4>3
    <3>2. CASE k + d # n + 1
      <4>1. k + d \in 1..n /\ n + 1 - (k + d) = j - 1 /\ j \in 2..MaxSnapshots
        BY <1>0, <2>3, <3>2
      <4>2. past'[k] = past[k + d]
        BY <2>2, <3>2
      <4>3. past[k + d] # <<>> /\ past[k + d] = snapshots[Slot(current, j - 1)]
        BY <1>0, <4>1 DEF RingInv, n
      <4>4. /\ Slot(current', j) = Slot(current, j - 1)
            /\ Slot(current, j - 1) \in 0..(MaxSnapshots - 1) /\ Slot(current, j - 1) # current
        BY <1>0, <1>1, <2>1, <4>1, Slots
      <4>5. snapshots'[Slot(current, j - 1)] = snapshots[Slot(current, j - 1)]
        BY <1>0, <2>1, <4>4
      <4> QED  BY <4>2, <4>3, <4>4, <4>5
    <3> QED  BY <3>1, <3>2
  <2>5. \A k \in 1..Len(past') :
          past'[k] # <<>> /\ past'[k] = snapshots'[Slot(current', Len(past') + 1 - k)]
    <3> SUFFICES ASSUME NEW k \in 1..Len(past')
                 PROVE  past'[k] # <<>> /\ past'[k] = snapshots'[Slot(current', Len(past') + 1 - k)]
      OBVIOUS
    <3>1. k \in 1..(n + 1 - d) /\ Len(past') + 1 - k = n + 2 - d - k
      BY <2>2, <2>3
    <3> QED  BY <2>4, <3>1
  <2>6. current' \in 0..(MaxSnapshots - 1) /\ Len(past') <= MaxSnapshots /\ editing' = Null
    BY <1>1, <2>1, <2>2, <2>3
  <2> QED  BY <2>2, <2>5, <2>6 DEF RingInv
<1>3. CASE \E e \in Entities, l \in Locals : BeginEdit(e, l)
  <2>1. UNCHANGED <<snapshots, current, past>> /\ in_flight' = Snapshot /\ InScene # {}
    BY <1>3 DEF BeginEdit
  <2>2. Snapshot # <<>>
    BY <2>1, SnapshotTaken DEF IInv, ValuesInv
  <2> QED  BY <1>0, <2>1, <2>2 DEF RingInv
<1>4. CASE \E e \in Entities : Reset(e)
  <2>1. UNCHANGED <<snapshots, current, past, editing>> /\ editing = Null
    BY <1>4 DEF Reset
  <2> QED  BY <1>0, <2>1 DEF RingInv
<1>5. CASE Undo
  <2> DEFINE s == snapshots[PreviousIndex]
             n == Len(past)
  <2>1. /\ Revert(PreviousIndex) /\ IsSnapshot(s) /\ UNCHANGED <<snapshots, in_flight, editing>>
        /\ past' = IF past = <<>> THEN past ELSE Front(past)
    BY <1>0, <1>1, <1>5 DEF Undo, SnapshotsInv
  <2>2. current' \in {current, PreviousIndex}
    BY <1>0, <2>1, RevertIs
  <2>3. CASE past = <<>>
    <3>1. past' \in Seq(Seq(Entries)) /\ Len(past') = 0 /\ 1..Len(past') = {}
      BY <2>1, <2>3
    <3> QED  BY <1>0, <1>1, <2>1, <2>2, <3>1 DEF RingInv
  <2>4. CASE past # <<>>
    <3>1. s # <<>>
      BY <1>0, <2>4, PreviousIsPast
    <3>2. current' = PreviousIndex
      BY <1>0, <2>1, <3>1, RevertIs
    <3>3. /\ past' \in Seq(Seq(Entries)) /\ Len(past') = n - 1 /\ n # 0
          /\ \A k \in 1..(n - 1) : past'[k] = past[k]
      BY <1>0, <2>1, <2>4, FrontIs
    <3>4. n \in 1..MaxSnapshots
      BY <1>0, <3>3
    <3> HIDE DEF n
    <3>5. ASSUME NEW k \in 1..Len(past')
          PROVE  past'[k] # <<>> /\ past'[k] = snapshots'[Slot(current', Len(past') + 1 - k)]
      <4> DEFINE j == n - k
      <4>1. /\ j \in 1..(MaxSnapshots - 1) /\ Len(past') + 1 - k = j /\ n + 1 - k = j + 1
            /\ k \in 1..n /\ k \in 1..(n - 1)
        BY <1>0, <3>3, <3>4
      <4>2. past[k] # <<>> /\ past[k] = snapshots[Slot(current, j + 1)]
        BY <1>0, <4>1 DEF RingInv, n
      <4>3. Slot(current', j) = Slot(current, j + 1)
        BY <1>0, <1>1, <3>2, <4>1, Slots
      <4> HIDE DEF j
      <4> QED  BY <2>1, <3>3, <4>1, <4>2, <4>3
    <3>6. Len(past') <= MaxSnapshots
      BY <1>0, <3>3, <3>4
    <3> QED  BY <1>0, <1>1, <2>1, <3>2, <3>3, <3>5, <3>6 DEF RingInv
  <2> QED  BY <2>3, <2>4
<1>6. ASSUME NEW i \in 0..(MaxSnapshots - 1), Revert(i), past' = <<>>,
             UNCHANGED <<snapshots, in_flight, editing>>
      PROVE  RingInv'
  <2>1. current' \in {current, i}
    BY <1>0, <1>6, RevertIs DEF SnapshotsInv
  <2>2. past' \in Seq(Seq(Entries)) /\ Len(past') = 0 /\ 1..Len(past') = {}
    BY <1>6
  <2> QED  BY <1>0, <1>6, <2>1, <2>2 DEF RingInv
<1>7. CASE Redo
  BY <1>1, <1>6, <1>7 DEF Redo
<1>8. CASE \E i \in 0..MaxSnapshots - 1 : RevertTo(i)
  BY <1>6, <1>8 DEF RevertTo
<1>9. CASE \/ \E e \in Entities, p \in All : Create(e, p)
           \/ \E c \in Entities, p \in All \cup {Null} : SetParent(c, p)
           \/ \E l \in Payloads, p \in All : Drop(l, p)
           \/ \E e \in Entities, b \in BOOLEAN : Destroy(e, b)
           \/ \E l \in Locals : ContinueEdit(l)
           \/ Frame
           \/ UNCHANGED vars
  <2>1. UNCHANGED <<snapshots, current, in_flight, past, editing>>
    BY <1>9 DEF Create, SetParent, Drop, Destroy, ContinueEdit, Frame, manager, vars
  <2> QED  BY <1>0, <2>1 DEF RingInv
<1> QED  BY <1>2, <1>3, <1>4, <1>5, <1>7, <1>8, <1>9 DEF Next

LEMMA DrawnStep ==
  ASSUME IInv, [Next]_vars
  PROVE  DrawnInv'
<1>0. /\ HierarchyInv /\ WellLinked(rel) /\ DrawnInv /\ InScene \subseteq Entities
      /\ local \in [Entities -> Locals] /\ world \in [Entities -> Seq(Locals)]
  BY SceneExists DEF IInv, ValuesInv, HierarchyInv
<1>1. ASSUME UNCHANGED <<rel, local, world, dirty, since>>
      PROVE  DrawnInv'
  BY <1>0, <1>1 DEF DrawnInv, InScene
<1>2. ASSUME since' = "edit"
      PROVE  DrawnInv'
  BY <1>2 DEF DrawnInv
<1>3. ASSUME NEW i \in 0..(MaxSnapshots - 1), Revert(i)
      PROVE  DrawnInv'
  <2> DEFINE s == snapshots[i]
  <2>1. IsSnapshot(s)
    BY DEF IInv, SnapshotsInv
  <2>2. CASE s = <<>>
    <3>1. UNCHANGED <<rel, local, world, dirty, since>>
      BY <1>0, <1>3, <2>1, <2>2, RevertIs DEF scene
    <3> QED  BY <1>1, <3>1
  <2>3. CASE s # <<>>
    <3>1. since' = "revert" /\ dirty' = dirty \cup InScene'
      BY <1>0, <1>3, <2>1, <2>3, RevertIs DEF InScene
    <3> QED  BY <3>1 DEF DrawnInv
  <2> QED  BY <2>2, <2>3
<1>4. NextIndex \in 0..(MaxSnapshots - 1) /\ PreviousIndex \in 0..(MaxSnapshots - 1)
  BY Indices DEF IInv, RingInv
<1>5. CASE Frame
  <2>1. UNCHANGED <<rel, local>>
    BY <1>5 DEF Frame
  <2>2. CASE UNCHANGED <<world, dirty, since>>
    BY <1>1, <2>1, <2>2
  <2>3. CASE /\ world' = Computed /\ dirty' = {}
             /\ since' = (IF since = "edit" THEN "edit" ELSE "frame")
    <3>1. CASE since = "edit"
      BY <1>2, <2>3, <3>1
    <3>2. CASE since # "edit"
      <4>1. since' = "frame" /\ InScene' = InScene
        BY <2>1, <2>3, <3>2 DEF InScene
      <4>2. \A e \in InScene : Computed[e] = Matrix(rel, local, e)
        <5>1. CASE since = "revert"
          <6>1. InScene \subseteq dirty
            BY <1>0, <5>1 DEF DrawnInv
          <6> QED  BY <1>0, <6>1, ComputedDraws
        <5>2. CASE since = "frame"
          <6>1. dirty = {} /\ \A e \in InScene : world[e] = Matrix(rel, local, e)
            BY <1>0, <5>2 DEF DrawnInv
          <6>2. \A e \in Entities : Computed[e] = NextMatrix(Computed, e)
            BY <1>0, ComputedIs
          <6>3. \A e \in Entities : Computed[e] = world[e]
            BY <6>1, <6>2 DEF NextMatrix
          <6> QED  BY <1>0, <6>1, <6>3
        <5> QED  BY <3>2, <5>1, <5>2 DEF IInv, ValuesInv
      <4>3. \A e \in InScene' : world'[e] = Matrix(rel', local', e)
        BY <2>1, <2>3, <4>1, <4>2
      <4> QED  BY <2>3, <4>1, <4>3 DEF DrawnInv
    <3> QED  BY <3>1, <3>2
  <2> QED  BY <1>5, <2>2, <2>3 DEF Frame
<1>6. CASE \/ \E e \in Entities, p \in All : Create(e, p)
           \/ \E c \in Entities, p \in All \cup {Null} : SetParent(c, p)
           \/ \E l \in Payloads, p \in All : Drop(l, p)
           \/ \E e \in Entities, b \in BOOLEAN : Destroy(e, b)
           \/ \E e \in Entities, l \in Locals : BeginEdit(e, l)
           \/ \E l \in Locals : ContinueEdit(l)
           \/ \E e \in Entities : Reset(e)
  <2>1. since' = "edit"
    BY <1>6 DEF Create, SetParent, Drop, Destroy, BeginEdit, ContinueEdit, Reset, Patched
  <2> QED  BY <1>2, <2>1
<1>7. CASE EndEdit \/ UNCHANGED vars
  <2>1. UNCHANGED <<rel, local, world, dirty, since>>
    BY <1>7 DEF EndEdit, scene, vars
  <2> QED  BY <1>1, <2>1
<1>8. CASE Undo
  BY <1>3, <1>4, <1>8 DEF Undo
<1>9. CASE Redo
  BY <1>3, <1>4, <1>9 DEF Redo
<1>10. CASE \E i \in 0..MaxSnapshots - 1 : RevertTo(i)
  BY <1>3, <1>10 DEF RevertTo
<1> QED  BY <1>5, <1>6, <1>7, <1>8, <1>9, <1>10 DEF Next

-----------------------------------------------------------------------------
(* Theorems *)

\* The invariant from which the properties follow.
THEOREM InductiveInvariant ==
  ASSUME ~DestroyParents
  PROVE  Spec => []IInv
<1>1. Init => IInv
  BY InitInv
<1>2. IInv /\ [Next]_vars => IInv'
  <2> SUFFICES ASSUME IInv, [Next]_vars PROVE IInv'
    OBVIOUS
  <2>1. HierarchyInv'
    BY HierarchyStep
  <2>2. ValuesInv'
    BY ValuesStep
  <2>3. SnapshotsInv'
    BY SnapshotsStep
  <2>4. RingInv'
    BY RingStep
  <2>5. DrawnInv'
    BY DrawnStep
  <2> QED  BY <2>1, <2>2, <2>3, <2>4, <2>5 DEF IInv
<1> QED  BY <1>1, <1>2, PTL DEF Spec

LEMMA IInvTypeOK == IInv => TypeOK
<1> SUFFICES ASSUME IInv PROVE TypeOK
  OBVIOUS
<1>1. rel \in [All -> Relationship]
  BY DEF IInv, HierarchyInv, WellLinked, Linked
<1>2. \A s : IsSnapshot(s) => \A i \in DOMAIN s : s[i] \in [name : Entities, parent : All, local : Locals]
  BY SnapshotCalls DEF Entries
<1>3. \A s \in {snapshots[i] : i \in DOMAIN snapshots} \cup {in_flight} : IsSnapshot(s)
  BY DEF IInv, SnapshotsInv
<1>4. \A s \in {snapshots[i] : i \in DOMAIN snapshots} \cup {in_flight} :
        \A i \in DOMAIN s : s[i] \in [name : Entities, parent : All, local : Locals]
  BY <1>2, <1>3
<1>5. DOMAIN snapshots = 0..MaxSnapshots - 1 /\ current \in 0..MaxSnapshots - 1
      /\ Len(past) <= MaxSnapshots
  BY DEF IInv, SnapshotsInv, RingInv
<1>6. /\ alive \subseteq All /\ Scene \in alive
      /\ local \in [Entities -> Locals] /\ DOMAIN world = Entities
      /\ dirty \subseteq alive \ {Scene} /\ fate \in {"ok", "hung", "undefined"}
      /\ editing \in alive \cup {Null}
      /\ since \in {"edit", "revert", "frame"} /\ ops \in 0..MaxOps
  BY DEF IInv, ValuesInv
<1> QED  BY <1>1, <1>4, <1>5, <1>6 DEF TypeOK

\* All variables keep their types.
THEOREM TypeCorrect ==
  ASSUME ~DestroyParents
  PROVE  Spec => []TypeOK
BY InductiveInvariant, IInvTypeOK, PTL

LEMMA IInvSiblingLists == IInv => SiblingLists
<1> SUFFICES ASSUME IInv, NEW p \in alive
             PROVE  LET kids == Kids(rel, p) IN
                    /\ IsInjective(kids) /\ Len(kids) = rel[p].children
                    /\ ToSet(kids) = {c \in alive : rel[c].parent = p}
                    /\ \A i \in DOMAIN kids : rel[kids[i]].prev = IF i = 1 THEN Null ELSE kids[i - 1]
  BY DEF SiblingLists
<1> DEFINE kids == Kids(rel, p)
<1>1. p \in All /\ WellLinked(rel) /\ alive \subseteq All
      /\ \A c \in All : rel[c].parent \in All => c \in alive
  BY DEF IInv, HierarchyInv, ValuesInv
<1>2. /\ kids \in Seq(All) /\ IsInjective(kids) /\ ToSet(kids) = {c \in All : rel[c].parent = p}
      /\ rel[p].children = Len(kids)
      /\ \A i \in 1..Len(kids) : rel[kids[i]].prev = Entry(kids, i - 1)
  BY <1>1, KidsFacts
<1> HIDE DEF kids
<1>3. ToSet(kids) = {c \in alive : rel[c].parent = p}
  BY <1>1, <1>2
<1>4. DOMAIN kids = 1..Len(kids) /\ Len(kids) \in Nat
  BY <1>2
<1>5. \A i \in 1..Len(kids) : Entry(kids, i - 1) = IF i = 1 THEN Null ELSE kids[i - 1]
  BY <1>4 DEF Entry
<1>6. \A i \in DOMAIN kids : rel[kids[i]].prev = IF i = 1 THEN Null ELSE kids[i - 1]
  BY <1>2, <1>4, <1>5
<1> QED  BY <1>2, <1>3, <1>6 DEF kids

\* The list of children of every entity, walked either way, holds exactly the entities
\* whose parent it is, through every sequence of set_parent, drop, destroy and undo.
THEOREM SiblingListsHold ==
  ASSUME ~DestroyParents
  PROVE  Spec => []SiblingLists
BY InductiveInvariant, IInvSiblingLists, PTL

\* As long as the game destroys only entities without children, no sequence of calls
\* reads the component of an entity that is gone.  (An entity with children, destroyed
\* with them or with exclude_children, is what the assumption leaves out: the loop of
\* destroy_entity reads a destroyed child, later calls on the orphans a destroyed parent.)
THEOREM LeafDestroysAreDefined ==
  ASSUME ~DestroyParents
  PROVE  Spec => []DestroyIsDefined
<1>1. IInv => DestroyIsDefined
  BY DEF IInv, ValuesInv, DestroyIsDefined
<1> QED  BY <1>1, InductiveInvariant, PTL

-----------------------------------------------------------------------------
(* The hierarchy implements a forest *)

LEMMA StepKeepsOrder ==
  ASSUME ~DestroyParents, IInv, [Next]_vars
  PROVE  \A q \in All : Forest!KeepsOrder(Kids(rel, q), Kids(rel', q))
<1>0. WellLinked(rel) /\ HierarchyInv /\ Scene \in alive
  BY DEF IInv, HierarchyInv, ValuesInv
<1>1. ASSUME rel' = rel
      PROVE  \A q \in All : Forest!KeepsOrder(Kids(rel, q), Kids(rel', q))
  <2>1. \A q \in All : Kids(rel, q) \in Seq(All)
    BY <1>0, KidsFacts
  <2> QED  BY <1>1, <2>1, OrderKept
<1>2. ASSUME NEW s, AreCalls(s), Distinct(s), rel' = Moved(rel, s).rel
      PROVE  \A q \in All : Forest!KeepsOrder(Kids(rel, q), Kids(rel', q))
  BY <1>0, <1>2, MoveKeeps
<1>3. CASE \E e \in Entities, p \in All : Create(e, p)
  BY <1>2, <1>3, OneCall DEF Create, Move
<1>4. CASE \E c \in Entities, p \in All \cup {Null} : SetParent(c, p)
  BY <1>2, <1>4, OneCall DEF SetParent, Move
<1>5. ASSUME NEW l \in Payloads, NEW p \in All, Drop(l, p)
      PROVE  \A q \in All : Forest!KeepsOrder(Kids(rel, q), Kids(rel', q))
  <2> DEFINE s == [i \in DOMAIN l |-> [name |-> l[i], parent |-> p]]
  <2>1. AreCalls(s) /\ Distinct(s)
    BY DropCalls
  <2>2. rel' = Moved(rel, s).rel
    BY <1>5 DEF Drop, Move
  <2> HIDE DEF s
  <2> QED  BY <1>2, <2>1, <2>2
<1>6. ASSUME NEW e \in Entities, NEW b \in BOOLEAN, Destroy(e, b)
      PROVE  \A q \in All : Forest!KeepsOrder(Kids(rel, q), Kids(rel', q))
  <2>1. rel[e].children = 0 /\ rel' = Destroyed(rel, e)
    BY <1>0, <1>6, DestroyIs
  <2> QED  BY <1>0, <2>1, DestroyKeeps
<1>7. ASSUME NEW i \in 0..(MaxSnapshots - 1), Revert(i)
      PROVE  \A q \in All : Forest!KeepsOrder(Kids(rel, q), Kids(rel', q))
  <2> DEFINE s == snapshots[i]
  <2>1. IsSnapshot(s)
    BY DEF IInv, SnapshotsInv
  <2>2. rel' = rel \/ rel' = Moved(rel, s).rel
    BY <1>0, <1>7, <2>1, RevertIs DEF scene
  <2>3. AreCalls(s) /\ Distinct(s)
    BY <2>1, SnapshotCalls DEF IsSnapshot
  <2> HIDE DEF s
  <2> QED  BY <1>1, <1>2, <2>2, <2>3
<1>8. NextIndex \in 0..(MaxSnapshots - 1) /\ PreviousIndex \in 0..(MaxSnapshots - 1)
  BY Indices DEF IInv, RingInv
<1>9. CASE Undo \/ Redo \/ \E i \in 0..MaxSnapshots - 1 : RevertTo(i)
  BY <1>7, <1>8, <1>9 DEF Undo, Redo, RevertTo
<1>10. CASE \/ \E e \in Entities, l \in Locals : BeginEdit(e, l)
            \/ \E l \in Locals : ContinueEdit(l)
            \/ EndEdit \/ Frame
            \/ \E e \in Entities : Reset(e)
            \/ UNCHANGED vars
  <2>1. rel' = rel
    BY <1>10 DEF BeginEdit, ContinueEdit, EndEdit, Frame, Reset, Patched, scene, vars
  <2> QED  BY <1>1, <2>1
<1> QED  BY <1>3, <1>4, <1>5, <1>6, <1>9, <1>10 DEF Next

\* Parents and lists of children agree.
Up(r) == [x \in All |-> r[x].parent]
Down(r) == [x \in All |-> Kids(r, x)]

LEMMA Agreed ==
  ASSUME NEW r, WellLinked(r)
  PROVE  Forest!Agree(Up(r), Down(r)) /\ Up(r)[Scene] = Null
<1>1. ASSUME NEW p \in All
      PROVE  /\ IsInjective(Kids(r, p)) /\ ToSet(Kids(r, p)) = {c \in All : r[c].parent = p}
             /\ r[Scene].parent = Null
  BY KidsFacts
<1>2. \A p \in All : {c \in All : Up(r)[c] = p} = {c \in All : r[c].parent = p}
  BY DEF Up
<1>3. \A p \in All : IsInjective(Down(r)[p]) /\ ToSet(Down(r)[p]) = {c \in All : Up(r)[c] = p}
  BY <1>1, <1>2 DEF Down
<1>4. Up(r)[Scene] = Null
  BY <1>1, Names DEF Up
<1> QED  BY <1>3, <1>4 DEF Forest!Agree, Forest!ToSet, Forest!IsInjective, ToSet, IsInjective

\* The linked lists implement the abstract forest: parent and children agree after every
\* step, whoever stays below its parent keeps its place, and whoever comes joins at the end.
THEOREM HierarchyImplementsForest ==
  ASSUME ~DestroyParents
  PROVE  Spec => ImplementsForest
<1>1. Init => Forest!Init
  <2> SUFFICES ASSUME Init PROVE Forest!Init
    OBVIOUS
  <2>1. WellLinked(rel)
    BY InitInv DEF IInv, HierarchyInv
  <2> QED  BY <2>1, Agreed DEF Forest!Init, Up, Down
<1>2. IInv /\ IInv' /\ [Next]_vars
        => [Forest!Next]_<<[x \in All |-> rel[x].parent], [x \in All |-> Kids(rel, x)]>>
  <2> SUFFICES ASSUME IInv, IInv', [Next]_vars
               PROVE  Forest!Next
    OBVIOUS
  <2>1. WellLinked(rel) /\ WellLinked(rel')
    BY DEF IInv, HierarchyInv
  <2>2. Forest!Agree(Up(rel'), Down(rel')) /\ Up(rel')[Scene] = Up(rel)[Scene]
    BY <2>1, Agreed
  <2>3. \A q \in All : Forest!KeepsOrder(Down(rel)[q], Down(rel')[q])
    BY StepKeepsOrder DEF Down
  <2> QED  BY <2>2, <2>3 DEF Forest!Next, Up, Down
<1>3. Spec => []IInv
  BY InductiveInvariant
<1> QED  BY <1>1, <1>2, <1>3, PTL DEF Spec, ImplementsForest, Forest!Spec

-----------------------------------------------------------------------------
(* Undo and redo *)

\* Whoever is in the scene before a revert or in the snapshot is in the scene after it.
LEMMA RevertConnects ==
  ASSUME NEW r, WellLinked(r), NEW s, IsSnapshot(s), NEW u, u = Moved(r, s).rel
  PROVE  ToSet(Descendants(r, Scene)) \cup NamesIn(s) \subseteq ToSet(Descendants(u, Scene))
<1> DEFINE d == Descendants(r, Scene)
           D == ToSet(Descendants(u, Scene))
           n == Len(s)
<1>1. /\ AreCalls(s) /\ Distinct(s) /\ n \in Nat
      /\ \A k \in 1..n : s[k].name \in Entities /\ s[k].name \in All
      /\ \A k \in 1..n : s[k].parent = Scene \/ \E j \in 1..(k - 1) : s[j].name = s[k].parent
      /\ NamesIn(s) = {s[k].name : k \in 1..n}
  BY SnapshotCalls, Names DEF IsSnapshot
<1>2. /\ WellLinked(u)
      /\ \A k \in 1..n : u[s[k].name].parent = s[k].parent
      /\ \A x \in All : (\A k \in 1..n : s[k].name # x) => u[x].parent = r[x].parent
  BY <1>1, MoveKeeps
<1>3. \A c \in All : u[c].parent \in {Scene} \cup D => c \in D
  BY <1>2, DescendantsAre
<1>4. /\ d \in Seq(Entities) /\ Rooted(r, d)
  BY DescendantsAre
<1> HIDE DEF d, D, n
<1>5. \A k \in 1..n : s[k].name \in D
  <2> DEFINE T == {k \in 0..n : \A j \in 1..k : s[j].name \in D}
  <2>1. 0 \in T
    BY <1>1
  <2>2. ASSUME NEW k \in 1..n, k - 1 \in T
        PROVE  k \in T
    <3>1. s[k].parent \in {Scene} \cup D
      BY <1>1, <2>2
    <3>2. s[k].name \in D
      BY <3>1, <1>1, <1>2, <1>3
    <3>3. \A j \in 1..k : j = k \/ j \in 1..(k - 1)
      BY <1>1
    <3> QED  BY <1>1, <2>2, <3>2, <3>3
  <2> HIDE DEF T
  <2>3. \A k \in 1..n : k - 1 \in T => k \in T
    BY <2>2
  <2>4. \A k \in 0..n : k \in T
    BY <2>1, <2>3, <1>1, Induction, Zenon
  <2> QED  BY <2>4, <1>1 DEF T
<1> DEFINE m == Len(d)
<1>6. m \in Nat /\ \A k \in 1..m : d[k] \in Entities /\ d[k] \in All
  BY <1>4, Names
<1> HIDE DEF m
<1>7. \A k \in 1..m : d[k] \in D
  <2> DEFINE T == {k \in 0..m : \A j \in 1..k : d[j] \in D}
  <2>1. 0 \in T
    BY <1>6
  <2>2. ASSUME NEW k \in 1..m, k - 1 \in T
        PROVE  k \in T
    <3>1. r[d[k]].parent = Scene \/ \E j \in 1..(k - 1) : d[j] = r[d[k]].parent
      BY <1>4 DEF Rooted, m
    <3>2. r[d[k]].parent \in {Scene} \cup D
      BY <3>1, <2>2
    <3>3. d[k] \in D
      <4>1. CASE \E j \in 1..n : s[j].name = d[k]
        BY <4>1, <1>5
      <4>2. CASE \A j \in 1..n : s[j].name # d[k]
        <5>1. u[d[k]].parent = r[d[k]].parent
          BY <4>2, <1>2, <1>6
        <5> QED  BY <5>1, <3>2, <1>3, <1>6
      <4> QED  BY <4>1, <4>2
    <3>4. \A j \in 1..k : j = k \/ j \in 1..(k - 1)
      BY <1>6
    <3> QED  BY <1>6, <2>2, <3>3, <3>4
  <2> HIDE DEF T
  <2>3. \A k \in 1..m : k - 1 \in T => k \in T
    BY <2>2
  <2>4. \A k \in 0..m : k \in T
    BY <2>1, <2>3, <1>6, Induction, Zenon
  <2> QED  BY <2>4, <1>6 DEF T
<1>8. \A x \in ToSet(d) : x \in D
  BY <1>4, <1>7, Elements DEF m
<1>9. \A x \in NamesIn(s) : x \in D
  BY <1>1, <1>5
<1> QED  BY <1>8, <1>9 DEF d, D

\* A revert takes nothing out of the scene: the entities are given their parents one after
\* the other and without a check for cycles, and what a drop has cut off comes back.
THEOREM RevertConnectsTheScene ==
  ASSUME ~DestroyParents
  PROVE  Spec => RevertKeepsScene
<1>1. IInv /\ [Next]_vars
        => [\A i \in DOMAIN snapshots :
              since' = "revert" /\ ops' # ops /\ snapshots[i] # <<>> /\ Revert(i) =>
                InScene \cup NamesIn(snapshots[i]) \subseteq ToSet(Descendants(rel', Scene))]_vars
  <2> SUFFICES ASSUME IInv, NEW i \in DOMAIN snapshots, snapshots[i] # <<>>, Revert(i)
               PROVE  InScene \cup NamesIn(snapshots[i]) \subseteq ToSet(Descendants(rel', Scene))
    OBVIOUS
  <2>1. IsSnapshot(snapshots[i]) /\ HierarchyInv /\ WellLinked(rel)
    BY DEF IInv, HierarchyInv, SnapshotsInv
  <2>2. rel' = Moved(rel, snapshots[i]).rel
    BY <2>1, RevertIs
  <2> QED  BY <2>1, <2>2, RevertConnects DEF InScene
<1>2. Spec => []IInv
  BY InductiveInvariant
<1> QED  BY <1>1, <1>2, PTL DEF Spec, RevertKeepsScene

LEMMA UndoBringsBack ==
  ASSUME IInv, past # <<>>, Undo, NEW i \in DOMAIN Last(past)
  PROVE  LET r == Last(past)[i] IN
         r.name \in alive' /\ rel'[r.name].parent = r.parent /\ local'[r.name] = r.local
<1> DEFINE s == snapshots[PreviousIndex]
<1>1. s = Last(past) /\ s # <<>>
  BY PreviousIsPast DEF IInv, Last
<1>2. PreviousIndex \in 0..(MaxSnapshots - 1)
  BY Indices DEF IInv, RingInv
<1>3. IsSnapshot(s) /\ HierarchyInv /\ WellLinked(rel) /\ Revert(PreviousIndex)
  BY <1>2 DEF IInv, HierarchyInv, SnapshotsInv, Undo
<1>4. /\ alive' = alive \cup NamesIn(s) /\ rel' = Moved(rel, s).rel
      /\ local' = [e \in Entities |-> IF e \in NamesIn(s) THEN LocalIn(s, e) ELSE local[e]]
  BY <1>1, <1>3, RevertIs
<1> HIDE DEF s
<1>5. /\ AreCalls(s) /\ Distinct(s) /\ i \in 1..Len(s) /\ s[i].name \in Entities
      /\ s[i].name \in NamesIn(s)
  BY <1>1, <1>3, SnapshotCalls DEF IsSnapshot
<1>6. rel'[s[i].name].parent = s[i].parent
  BY <1>3, <1>4, <1>5, MoveKeeps
<1>7. local'[s[i].name] = s[i].local
  BY <1>3, <1>4, <1>5, LocalInIs
<1> QED  BY <1>1, <1>4, <1>5, <1>6, <1>7

\* As far as the ring reaches, an undo gives every entity the parent and the transform it
\* had before the last edit that is not yet undone.
THEOREM UndoBringsBackThePast ==
  ASSUME ~DestroyParents
  PROVE  Spec => UndoneIsPast
<1>1. IInv /\ [Next]_vars
        => [past # <<>> /\ since' = "revert" /\ Undo =>
              \A i \in DOMAIN Last(past) :
                LET r == Last(past)[i] IN
                r.name \in alive' /\ rel'[r.name].parent = r.parent
                                  /\ local'[r.name] = r.local]_vars
  BY UndoBringsBack
<1>2. Spec => []IInv
  BY InductiveInvariant
<1> QED  BY <1>1, <1>2, PTL DEF Spec, UndoneIsPast

\* The frame after a revert draws the scene that was reverted to: the world matrix of every
\* entity in the scene is the product of the transforms on its way up, also of those that
\* the snapshot does not name.
THEOREM RevertIsDrawnHolds ==
  ASSUME ~DestroyParents
  PROVE  Spec => []RevertIsDrawn
<1>1. IInv => RevertIsDrawn
  BY DEF IInv, DrawnInv, Matrix, RevertIsDrawn
<1> QED  BY <1>1, InductiveInvariant, PTL
=============================================================================
