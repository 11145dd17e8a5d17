------------------------- MODULE ResourceRegistryProofs -------------------------
(***************************************************************************)
(* The safety properties of ResourceRegistry, proved for all ids,          *)
(* composites, loaders and requests, and any number of loads in flight.    *)
(*                                                                         *)
(* The argument: an id on the pending list belongs to a load that is past  *)
(* its insertion, and a load takes its id off the list only together with  *)
(* an outcome.  So an id that was asked for stays settled: loaded, errored *)
(* or pending; and the load an immediate request waits for settles it.     *)
(***************************************************************************)
EXTENDS ResourceRegistry, WellFoundedInduction, TLAPS

(* What is known of an id that is no part of a composite.                  *)
Settled(id) == CompositeOf[id] = None => id \in resources \cup pending \cup errored

Targets == \A l \in Loads : pc[l] # "free" => target[l] \in Ids
Wants == \A p \in Processes : pc[p] \in {"submit", "wait", "get"} => want[p] \in Ids
PartsLoad == \A l \in Loads : pc[l] \in {"free", "insert", "find", "finish"} => l \notin parts
Finished == \A l \in Loads :
  pc[l] = "finish" /\ CompositeOf[target[l]] = None => target[l] \in resources
Waits == \A p \in Processes : pc[p] = "wait" =>
  /\ awaited[p] = {} => Settled(want[p])
  /\ \A l \in awaited[p] : l \notin parts /\ pc[l] # "free" /\ target[l] = want[p]
Gets == \A p \in immediate : pc[p] # "idle" /\ (pc[p] = "get" => Settled(want[p]))

IInv ==
  /\ TypeOK /\ Targets /\ Wants /\ PartsLoad
  /\ PendingIsLoading /\ Finished /\ Waits /\ Gets

USE RegistryAssumption

-----------------------------------------------------------------------------
(* The chosen load is a free one.                                          *)
LEMMA NextFreeIsFree == Free # {} => NextFree \in Free
<1> SUFFICES ASSUME Free # {} PROVE \E l \in Free : \A k \in Free : l <= k
  BY DEF NextFree
<1>1. Free \subseteq Nat
  BY DEF Free, Loads
<1>2. PICK l \in Free : \A k \in Free : <<k, l>> \notin OpToRel(<, Nat)
  BY <1>1, WFMin, NatLessThanWellFounded, Zenon
<1>3. ASSUME NEW k \in Free PROVE l <= k
  <2>1. l \in Nat /\ k \in Nat
    BY <1>1
  <2>2. k < l => <<k, l>> \in OpToRel(<, Nat)
    BY <2>1 DEF OpToRel
  <2>3. ~(k < l)
    BY <1>2, <2>2, Zenon
  <2> QED  BY <2>1, <2>3
<1> QED  BY <1>3

LEMMA MetaIsId == TypeOK => \A l \in Loads : target[l] \in Ids => Meta(l) \in Ids /\ Work(Meta(l)) \subseteq Ids
BY DEF TypeOK, Meta, SourceOf, Work, PartsOf

(* A load of an id that is no part of a composite loads that id.           *)
LEMMA MetaIsTarget == \A l \in Loads : CompositeOf[target[l]] = None => Meta(l) = target[l]
BY DEF Meta, SourceOf

LEMMA Distinct == Callers \cap Loads = {} /\ Processes = Callers \cup Loads
BY DEF Processes
-----------------------------------------------------------------------------
(* The parts of IInv.  Only pending shrinks, and what leaves it is known.  *)
Remembers ==
  /\ resources \subseteq resources' /\ errored \subseteq errored'
  /\ \A id \in pending \ pending' : CompositeOf[id] = None => id \in resources' \cup errored'

LEMMA SettledStays == Remembers => \A id : Settled(id) => Settled(id)'
BY DEF Remembers, Settled

LEMMA Initial == Init => IInv
<1> SUFFICES ASSUME Init PROVE IInv
  OBVIOUS
<1>1. TypeOK
  BY Distinct DEF Init, TypeOK, registry
<1>2. \A p \in Processes : pc[p] \in {"idle", "free"} /\ (p \in Loads => pc[p] = "free")
  BY Distinct DEF Init
<1>3. Targets /\ Wants /\ PartsLoad /\ Finished /\ Waits /\ Gets
  BY <1>2, Distinct DEF Init, Targets, Wants, PartsLoad, Finished, Waits, Gets
<1>4. PendingIsLoading
  BY DEF Init, PendingIsLoading
<1> QED  BY <1>1, <1>3, <1>4 DEF IInv

(* Every action but those of EndLoad leaves awaited loads where they are.  *)
LEMMA RequestKeeps ==
  ASSUME IInv, NEW c \in Callers, NEW id \in Ids, Request(c, id)
  PROVE  IInv' /\ Remembers
<1> USE Distinct DEF IInv, Request, Goto, Test, registry
<1>1. TypeOK'
  BY DEF TypeOK
<1>2. \A p \in Processes \ {c} : pc'[p] = pc[p] /\ want'[p] = want[p]
  BY DEF TypeOK
<1>3. pc'[c] \in {"get", "submit"} /\ want'[c] = id /\ (pc'[c] = "get" => id \in resources \cup pending)
  BY DEF TypeOK
<1>4. \A l \in Loads : l # c /\ pc'[l] = pc[l]
  BY <1>2
<1>5. Remembers
  BY DEF Remembers
<1>6. \A i : Settled(i) => Settled(i)'
  BY <1>5, SettledStays
<1>7. Targets' /\ PartsLoad' /\ Finished'
  BY <1>4 DEF Targets, PartsLoad, Finished
<1>8. PendingIsLoading'
  BY <1>4 DEF PendingIsLoading, Loading
<1>9. Wants'
  BY <1>2, <1>3 DEF Wants
<1>10. Waits'
  BY <1>2, <1>3, <1>4, <1>6 DEF Waits, TypeOK
<1>11. Gets'
  BY <1>2, <1>3, <1>6 DEF Gets, Settled, TypeOK
<1> QED  BY <1>1, <1>5, <1>7, <1>8, <1>9, <1>10, <1>11

LEMMA AskForKeeps ==
  ASSUME IInv, NEW l \in Loads, NEW id \in Ids, AskFor(l, id)
  PROVE  IInv' /\ Remembers
<1> USE Distinct DEF IInv, AskFor, Goto, Test, registry
<1>1. TypeOK'
  BY DEF TypeOK
<1>2. \A p \in Processes \ {l} : pc'[p] = pc[p] /\ want'[p] = want[p]
  BY DEF TypeOK
<1>3. pc'[l] \in {"get", "submit"} /\ want'[l] = id /\ (pc'[l] = "get" => id \in resources \cup pending)
  BY DEF TypeOK
<1>5. Remembers
  BY DEF Remembers
<1>6. \A i : Settled(i) => Settled(i)'
  BY <1>5, SettledStays
<1>7. Targets' /\ PartsLoad' /\ Finished'
  BY <1>2, <1>3 DEF Targets, PartsLoad, Finished
<1>8. PendingIsLoading'
  BY <1>2, <1>3 DEF PendingIsLoading, Loading
<1>9. Wants'
  BY <1>2, <1>3 DEF Wants
<1>10. Waits'
  BY <1>2, <1>3, <1>6 DEF Waits, TypeOK
<1>11. Gets'
  BY <1>2, <1>3, <1>6 DEF Gets, Settled, TypeOK
<1> QED  BY <1>1, <1>5, <1>7, <1>8, <1>9, <1>10, <1>11

LEMMA SubmitKeeps ==
  ASSUME IInv, NEW p \in Processes, Submit(p)
  PROVE  IInv' /\ Remembers
<1> DEFINE n == NextFree
<1>n. n \in Loads /\ pc[n] = "free" /\ n # p /\ n \in Processes
  BY NextFreeIsFree, Distinct DEF Free, Submit
<1> HIDE DEF n
<1>a. /\ pc[p] = "submit" /\ target' = [target EXCEPT ![n] = want[p]]
      /\ pc' = [pc EXCEPT ![n] = "begin", ![p] = IF p \in immediate THEN "wait" ELSE "get"]
      /\ awaited' = [awaited EXCEPT ![p] = IF p \in immediate THEN {n} ELSE {}]
      /\ UNCHANGED <<registry, parts, todo, want, immediate, calls, failures>>
  BY DEF Submit, n
<1> USE Distinct DEF IInv, registry
<1>b. n \notin parts /\ want[p] \in Ids
  BY <1>a, <1>n DEF PartsLoad, Wants
<1>1. TypeOK'
  BY <1>a, <1>n, <1>b DEF TypeOK
<1>2. \A q \in Processes \ {n, p} : pc'[q] = pc[q] /\ awaited'[q] = awaited[q]
  BY <1>a DEF TypeOK
<1>3. /\ pc'[n] = "begin" /\ pc'[p] = (IF p \in immediate THEN "wait" ELSE "get")
      /\ awaited'[p] = IF p \in immediate THEN {n} ELSE {}
  BY <1>a, <1>n DEF TypeOK
<1>l. \A l \in Loads \ {n} : pc'[l] = pc[l] \/ (pc[l] = "submit" /\ pc'[l] \in {"wait", "get"})
  BY <1>a, <1>2, <1>3
<1>4. target'[n] = want[p] /\ \A l \in Loads \ {n} : target'[l] = target[l]
  BY <1>a, <1>n DEF TypeOK
<1>5. Remembers
  BY <1>a DEF Remembers
<1>6. \A i : Settled(i) => Settled(i)'
  BY <1>5, SettledStays
<1>7. Targets' /\ PartsLoad' /\ Finished'
  <2>1. Targets'
    BY <1>b, <1>l, <1>4 DEF Targets
  <2>2. PartsLoad'
    BY <1>a, <1>b, <1>l, <1>3 DEF PartsLoad
  <2>3. Finished'
    BY <1>a, <1>l, <1>3, <1>4 DEF Finished
  <2> QED  BY <2>1, <2>2, <2>3
<1>8. PendingIsLoading'
  <2> SUFFICES ASSUME NEW id \in pending, NEW l \in Loads, Loading(l, id)
               PROVE  Loading(l, id)'
    BY <1>a DEF PendingIsLoading
  <2>1. l # n /\ pc[l] \notin {"free", "begin", "insert"}
    BY <1>n DEF Loading
  <2> QED  BY <2>1, <1>a, <1>l, <1>4 DEF Loading
<1>9. Wants'
  BY <1>a, <1>2, <1>3 DEF Wants
<1>10. Waits'
  <2> SUFFICES ASSUME NEW q \in Processes, pc'[q] = "wait"
               PROVE  /\ awaited'[q] = {} => Settled(want[q])'
                      /\ \A l \in awaited'[q] : l \notin parts' /\ pc'[l] # "free" /\ target'[l] = want'[q]
    BY DEF Waits
  <2>1. CASE q = p
    BY <2>1, <1>a, <1>b, <1>n, <1>3, <1>4
  <2>2. CASE q # p
    <3>1. pc[q] = "wait" /\ awaited'[q] = awaited[q] /\ q # n
      BY <2>2, <1>2, <1>3
    <3>2. \A l \in awaited[q] : l \in Loads /\ l # n /\ pc'[l] # "free" /\ target'[l] = target[l]
      BY <3>1, <1>n, <1>2, <1>3, <1>4 DEF Waits, TypeOK
    <3> QED  BY <3>1, <3>2, <1>a, <1>6 DEF Waits
  <2> QED  BY <2>1, <2>2
<1>11. Gets'
  BY <1>a, <1>2, <1>3, <1>6 DEF Gets, TypeOK
<1> QED  BY <1>1, <1>5, <1>7, <1>8, <1>9, <1>10, <1>11

LEMMA EndWaitKeeps ==
  ASSUME IInv, NEW p \in Processes, EndWait(p)
  PROVE  IInv' /\ Remembers
<1> USE Distinct DEF IInv, EndWait, Goto, registry
<1>1. TypeOK'
  BY DEF TypeOK
<1>2. pc'[p] = "get" /\ \A q \in Processes \ {p} : pc'[q] = pc[q]
  BY DEF TypeOK
<1>5. Remembers
  BY DEF Remembers
<1>6. \A i : Settled(i) => Settled(i)'
  BY <1>5, SettledStays
<1>7. Targets' /\ PartsLoad' /\ Finished'
  BY <1>2 DEF Targets, PartsLoad, Finished
<1>8. PendingIsLoading'
  BY <1>2 DEF PendingIsLoading, Loading
<1>9. Wants'
  BY <1>2 DEF Wants
<1>10. Waits'
  BY <1>2, <1>6 DEF Waits, TypeOK
<1>11. Gets'
  BY <1>2, <1>6 DEF Gets, Waits, TypeOK
<1> QED  BY <1>1, <1>5, <1>7, <1>8, <1>9, <1>10, <1>11

LEMMA GetKeeps ==
  ASSUME IInv, NEW p \in Processes, Get(p)
  PROVE  IInv' /\ Remembers
<1> USE Distinct DEF IInv, Get, Goto, registry
<1>1. TypeOK'
  BY DEF TypeOK
<1>2. pc'[p] \in {"idle", "load"} /\ (p \in Loads => pc'[p] = "load")
  BY DEF TypeOK
<1>3. \A q \in Processes \ {p} : pc'[q] = pc[q] /\ want'[q] = want[q]
  BY DEF TypeOK
<1>5. Remembers
  BY DEF Remembers
<1>6. \A i : Settled(i) => Settled(i)'
  BY <1>5, SettledStays
<1>7. Targets' /\ PartsLoad' /\ Finished'
  BY <1>2, <1>3 DEF Targets, PartsLoad, Finished
<1>8. PendingIsLoading'
  BY <1>2, <1>3 DEF PendingIsLoading, Loading
<1>9. Wants'
  BY <1>2, <1>3 DEF Wants
<1>10. Waits'
  BY <1>2, <1>3, <1>6 DEF Waits, TypeOK
<1>11. Gets'
  BY <1>2, <1>3, <1>6 DEF Gets, TypeOK
<1> QED  BY <1>1, <1>5, <1>7, <1>8, <1>9, <1>10, <1>11

-----------------------------------------------------------------------------
(* Steps of load_resource that move one load from a place to another.      *)
LEMMA MoveKeeps ==
  ASSUME IInv, TypeOK', Remembers, NEW l \in Loads, NEW to, Goto(l, to),
         pc[l] \notin {"free", "wait", "get", "submit"},
         to \in {"insert", "find", "load", "finish"},
         to # "load" => l \notin parts,
         to = "finish" /\ CompositeOf[target[l]] = None => target[l] \in resources',
         \A id \in pending' \ pending : id = target[l] /\ to # "insert",
         pending' # pending => l \notin parts,
         to = "insert" => pc[l] = "begin",
         UNCHANGED <<target, parts, awaited, want, immediate>>
  PROVE  IInv'
<1> USE Distinct DEF IInv, Goto
<1>1. \A p \in Processes \ {l} : pc'[p] = pc[p]
  BY DEF TypeOK
<1>2. pc'[l] = to
  BY DEF TypeOK
<1>6. \A i : Settled(i) => Settled(i)'
  BY SettledStays
<1>7. Targets' /\ PartsLoad'
  BY <1>1, <1>2 DEF Targets, PartsLoad
<1>8. Finished'
  <2> SUFFICES ASSUME NEW k \in Loads, pc'[k] = "finish", CompositeOf[target[k]] = None
               PROVE  target[k] \in resources'
    BY DEF Finished
  <2> QED  BY <1>1, <1>2 DEF Finished, Remembers
<1>9. PendingIsLoading'
  <2> SUFFICES ASSUME NEW id \in pending'
               PROVE  \/ \E k \in Loads : Loading(k, id)'
                      \/ CompositeOf[id] # None /\ CompositeOf[id] \in errored'
    BY DEF PendingIsLoading
  <2>1. CASE id \notin pending
    BY <2>1, <1>2 DEF Loading
  <2>2. CASE id \in pending
    <3>1. ASSUME NEW k \in Loads, Loading(k, id) PROVE Loading(k, id)'
      BY <3>1, <1>1, <1>2 DEF Loading
    <3> QED  BY <2>2, <3>1 DEF PendingIsLoading, Remembers
  <2> QED  BY <2>1, <2>2
<1>10. Wants' /\ Gets'
  BY <1>1, <1>2, <1>6 DEF Wants, Gets, TypeOK
<1>11. Waits'
  BY <1>1, <1>2, <1>6 DEF Waits, TypeOK
<1> QED  BY <1>7, <1>8, <1>9, <1>10, <1>11

(* Steps that end a load.                                                  *)
LEMMA EndKeeps ==
  ASSUME IInv, Remembers, NEW l \in Loads, EndLoad(l),
         resources' \subseteq Ids, pending' \subseteq pending, errored' \subseteq Ids,
         failures' \in 0..MaxFailures, UNCHANGED <<want, immediate, calls>>,
         pc[l] \notin {"free", "wait", "get", "submit"},
         l \notin parts /\ CompositeOf[target[l]] = None =>
           target[l] \in resources' \cup pending' \cup errored',
         target[l] \in pending' /\ Loading(l, target[l]) =>
           CompositeOf[target[l]] # None /\ CompositeOf[target[l]] \in errored'
  PROVE  IInv'
<1> USE Distinct DEF IInv, Goto, EndLoad
<1>a. TypeOK'
  BY DEF TypeOK
<1>1. \A p \in Processes \ {l} : pc'[p] = pc[p]
  BY DEF TypeOK
<1>2. pc'[l] = "free" /\ l \notin parts'
  BY DEF TypeOK
<1>3. \A k \in Loads \ {l} : target'[k] = target[k] /\ (k \in parts' <=> k \in parts)
  BY DEF TypeOK
<1>4. \A p \in Processes : awaited'[p] = awaited[p] \ {l}
  BY DEF TypeOK
<1>6. \A i : Settled(i) => Settled(i)'
  BY SettledStays
<1>7. Targets' /\ PartsLoad' /\ Finished'
  BY <1>1, <1>2, <1>3 DEF Targets, PartsLoad, Finished, Remembers
<1>9. PendingIsLoading'
  <2> SUFFICES ASSUME NEW id \in pending'
               PROVE  \/ \E k \in Loads : Loading(k, id)'
                      \/ CompositeOf[id] # None /\ CompositeOf[id] \in errored'
    BY DEF PendingIsLoading
  <2>1. ASSUME NEW k \in Loads \ {l}, Loading(k, id) PROVE Loading(k, id)'
    BY <2>1, <1>1, <1>3 DEF Loading
  <2>2. CASE Loading(l, id)
    BY <2>2 DEF Loading
  <2> QED  BY <2>1, <2>2 DEF PendingIsLoading, Remembers
<1>10. Wants' /\ Gets'
  BY <1>1, <1>2, <1>6 DEF Wants, Gets, TypeOK
<1>11. Waits'
  <2> SUFFICES ASSUME NEW p \in Processes, pc'[p] = "wait"
               PROVE  /\ awaited'[p] = {} => Settled(want[p])'
                      /\ \A k \in awaited'[p] : k \notin parts' /\ pc'[k] # "free" /\ target'[k] = want'[p]
    BY DEF Waits
  <2>1. pc[p] = "wait"
    BY <1>1, <1>2
  <2>2. awaited'[p] = {} => awaited[p] = {} \/ l \in awaited[p]
    BY <1>4
  <2>3. l \in awaited[p] => Settled(want[p])'
    BY <2>1 DEF Waits, Settled
  <2>4. awaited[p] = {} => Settled(want[p])'
    BY <2>1, <1>6 DEF Waits, Settled
  <2>5. ASSUME NEW k \in awaited'[p]
        PROVE k \notin parts' /\ pc'[k] # "free" /\ target'[k] = want'[p]
    <3>1. k \in Loads /\ k # l /\ k \in awaited[p] /\ k \in Processes
      BY <1>4 DEF TypeOK
    <3> QED  BY <3>1, <2>1, <1>1, <1>3 DEF Waits
  <2> QED  BY <2>2, <2>3, <2>4, <2>5
<1> QED  BY <1>a, <1>7, <1>9, <1>10, <1>11

LEMMA LoadKeeps ==
  ASSUME IInv, NEW l \in Loads,
         Begin(l) \/ InsertPending(l) \/ FindMetadata(l) \/ FindNothing(l) \/ BeginPart(l)
  PROVE  IInv' /\ Remembers
<1> USE Distinct DEF IInv, registry
<1>1. CASE Begin(l) /\ target[l] \in pending \cup resources
  <2>1. Remembers
    BY <1>1 DEF Begin, Remembers
  <2> QED  BY <1>1, <2>1, EndKeeps DEF Begin, TypeOK, Loading
<1>2. CASE Begin(l) /\ target[l] \notin pending \cup resources
  <2>1. Remembers
    BY <1>2 DEF Begin, Remembers
  <2>2. TypeOK'
    BY <1>2 DEF Begin, Goto, TypeOK
  <2> QED  BY <1>2, <2>1, <2>2, MoveKeeps DEF Begin
<1>3. CASE InsertPending(l)
  <2>1. Remembers
    BY <1>3 DEF InsertPending, Remembers
  <2>2. TypeOK'
    BY <1>3 DEF InsertPending, Goto, TypeOK, Targets
  <2>3. l \notin parts
    BY <1>3 DEF InsertPending, PartsLoad
  <2> QED  BY <1>3, <2>1, <2>2, <2>3, MoveKeeps DEF InsertPending
<1>4. CASE FindMetadata(l)
  <2>1. Remembers
    BY <1>4 DEF FindMetadata, Remembers
  <2>2. TypeOK'
    BY <1>4, MetaIsId DEF FindMetadata, Goto, TypeOK, Targets
  <2> QED  BY <1>4, <2>1, <2>2, MoveKeeps DEF FindMetadata
<1>5. CASE FindNothing(l)
  <2>1. Remembers
    BY <1>5 DEF FindNothing, Remembers
  <2>2. target[l] \in Ids
    BY <1>5 DEF FindNothing, Targets
  <2> QED  BY <1>5, <2>1, <2>2, EndKeeps DEF FindNothing, TypeOK
<1>6. CASE BeginPart(l) /\ View(MetadataId[target[l]]) = "Loaded"
  <2>1. Remembers
    BY <1>6 DEF BeginPart, Remembers
  <2> QED  BY <1>6, <2>1, EndKeeps DEF BeginPart, TypeOK, Loading
<1>7. CASE BeginPart(l) /\ View(MetadataId[target[l]]) # "Loaded"
  <2>1. Remembers
    BY <1>7 DEF BeginPart, Remembers
  <2>2. Work(target[l]) \subseteq Ids
    BY <1>7 DEF BeginPart, Targets, Work, PartsOf
  <2>3. TypeOK'
    BY <1>7, <2>2 DEF BeginPart, Goto, TypeOK
  <2> QED  BY <1>7, <2>1, <2>3, MoveKeeps DEF BeginPart
<1> QED  BY <1>1, <1>2, <1>3, <1>4, <1>5, <1>6, <1>7

LEMMA OutcomeKeeps ==
  ASSUME IInv, NEW l \in Loads, Fail(l) \/ Register(l) \/ Finish(l)
  PROVE  IInv' /\ Remembers
<1> USE Distinct DEF IInv, registry
<1>a. pc[l] # "free" => target[l] \in Ids /\ Meta(l) \in Ids
  BY MetaIsId DEF Targets
<1>b. CompositeOf[target[l]] = None => Meta(l) = target[l]
  BY MetaIsTarget
<1>c. l \notin parts /\ CompositeOf[target[l]] # None => Meta(l) = CompositeOf[target[l]]
  BY DEF Meta, SourceOf
<1>1. CASE Fail(l)
  <2>1. Remembers
    BY <1>1 DEF Fail, Remembers
  <2>2. /\ resources' \subseteq Ids /\ pending' \subseteq pending /\ errored' \subseteq Ids
        /\ failures' \in 0..MaxFailures
    BY <1>1, <1>a DEF Fail, TypeOK
  <2>3. l \notin parts => Meta(l) \in errored' /\ pending' = pending \ {Meta(l)}
    BY <1>1 DEF Fail
  <2>4. EndLoad(l) /\ pc[l] = "load" /\ UNCHANGED <<want, immediate, calls>>
    BY <1>1 DEF Fail
  <2>5. Loading(l, target[l]) => l \notin parts
    BY DEF Loading
  <2> QED  BY <1>b, <1>c, <2>1, <2>2, <2>3, <2>4, <2>5, EndKeeps
<1>2. CASE Register(l) /\ l \in parts
  <2>1. Remembers
    BY <1>2 DEF Register, Remembers
  <2> QED  BY <1>2, <1>a, <2>1, EndKeeps DEF Register, TypeOK, Loading
<1>3. CASE Register(l) /\ l \notin parts
  <2>1. Remembers
    BY <1>3 DEF Register, Remembers
  <2>2. TypeOK'
    BY <1>3, <1>a DEF Register, Goto, TypeOK
  <2> QED  BY <1>3, <1>b, <2>1, <2>2, MoveKeeps DEF Register
<1>4. CASE Finish(l)
  <2>1. CompositeOf[target[l]] = None => target[l] \in resources
    BY <1>4 DEF Finish, Finished
  <2>2. Remembers
    BY <1>4, <2>1 DEF Finish, Remembers
  <2> QED  BY <1>4, <2>1, <2>2, EndKeeps DEF Finish, TypeOK
<1> QED  BY <1>1, <1>2, <1>3, <1>4

LEMMA LoadPartKeeps ==
  ASSUME IInv, NEW l \in Loads, NEW id \in Ids, LoadPart(l, id)
  PROVE  IInv' /\ Remembers
<1> DEFINE n == NextFree
<1>n. n \in Loads /\ pc[n] = "free" /\ n # l
  BY NextFreeIsFree DEF Free, LoadPart
<1> HIDE DEF n
<1>a. /\ pc[l] = "load" /\ target' = [target EXCEPT ![n] = id]
      /\ pc' = [pc EXCEPT ![n] = "begin"] /\ parts' = parts \cup {n}
      /\ todo' = [todo EXCEPT ![l] = @ \ {id}]
      /\ awaited' = [awaited EXCEPT ![l] = @ \cup {n}]
      /\ UNCHANGED <<registry, want, immediate, calls, failures>>
  BY DEF LoadPart, n
<1> USE Distinct DEF IInv, registry
<1>1. TypeOK'
  BY <1>a, <1>n DEF TypeOK
<1>2. pc'[n] = "begin" /\ \A p \in Processes \ {n} : pc'[p] = pc[p]
  BY <1>a, <1>n DEF TypeOK
<1>3. target'[n] = id /\ \A k \in Loads \ {n} : target'[k] = target[k]
  BY <1>a, <1>n DEF TypeOK
<1>4. \A p \in Processes \ {l} : awaited'[p] = awaited[p]
  BY <1>a DEF TypeOK
<1>5. Remembers
  BY <1>a DEF Remembers
<1>6. \A i : Settled(i) => Settled(i)'
  BY <1>5, SettledStays
<1>7. Targets' /\ PartsLoad' /\ Finished'
  BY <1>a, <1>2, <1>3 DEF Targets, PartsLoad, Finished
<1>8. PendingIsLoading'
  <2> SUFFICES ASSUME NEW i \in pending, NEW k \in Loads, Loading(k, i)
               PROVE  Loading(k, i)'
    BY <1>a DEF PendingIsLoading
  <2>1. k # n
    BY <1>n DEF Loading
  <2> QED  BY <2>1, <1>a, <1>2, <1>3 DEF Loading
<1>9. Wants' /\ Gets'
  BY <1>a, <1>2, <1>6 DEF Wants, Gets, TypeOK
<1>10. Waits'
  <2> SUFFICES ASSUME NEW p \in Processes, pc'[p] = "wait"
               PROVE  /\ awaited'[p] = {} => Settled(want[p])'
                      /\ \A k \in awaited'[p] : k \notin parts' /\ pc'[k] # "free" /\ target'[k] = want'[p]
    BY DEF Waits
  <2>1. pc[p] = "wait" /\ awaited'[p] = awaited[p]
    BY <1>a, <1>2, <1>4
  <2>2. \A k \in awaited[p] : k \in Loads /\ k # n
    BY <2>1, <1>n DEF Waits, TypeOK
  <2> QED  BY <2>1, <2>2, <1>a, <1>2, <1>3, <1>6 DEF Waits
<1> QED  BY <1>1, <1>5, <1>7, <1>8, <1>9, <1>10

-----------------------------------------------------------------------------
LEMMA Stepwise == IInv /\ Next => IInv' /\ Remembers
<1> SUFFICES ASSUME IInv, Next PROVE IInv' /\ Remembers
  OBVIOUS
<1>1. CASE \E c \in Callers, id \in Ids : Request(c, id)
  BY <1>1, RequestKeeps
<1>2. CASE \E p \in Processes : RequestStep(p)
  BY <1>2, SubmitKeeps, EndWaitKeeps, GetKeeps DEF RequestStep
<1>3. CASE \E l \in Loads : LoadStep(l)
  BY <1>3, LoadKeeps, OutcomeKeeps, AskForKeeps, LoadPartKeeps DEF LoadStep
<1> QED  BY <1>1, <1>2, <1>3 DEF Next

LEMMA Stuttering == IInv /\ UNCHANGED vars => IInv'
BY DEF vars, registry, IInv, TypeOK, Targets, Wants, PartsLoad, PendingIsLoading, Finished, Waits, Gets,
       Loading, Settled

(* IInv holds of every behaviour.                                          *)
THEOREM InductiveInvariant == Spec => []IInv
<1>1. IInv /\ [Next]_vars => IInv'
  BY Stepwise, Stuttering
<1> QED  BY Initial, <1>1, PTL DEF Spec

(* The variables keep their types; only ids are on the three lists.        *)
THEOREM TypeCorrect == Spec => []TypeOK
<1>1. IInv => TypeOK
  BY DEF IInv
<1> QED  BY <1>1, InductiveInvariant, PTL

(* An id on the pending list has a load that takes it off, except for a    *)
(* part whose composite failed (load_resource).                            *)
THEOREM PendingIsAlwaysLoading == Spec => []PendingIsLoading
<1>1. IInv => PendingIsLoading
  BY DEF IInv
<1> QED  BY <1>1, InductiveInvariant, PTL

(* What get_resource reports of an id does not go back: loaded ids stay    *)
(* loaded, and a load does not end without a trace.                        *)
THEOREM StatesOnlyAdvance == Spec => StatesAdvance
<1>1. Remembers => \A id \in Ids :
        /\ View(id) = "Loaded" => View(id)' = "Loaded"
        /\ View(id) \in {"Pending", "Error"} /\ CompositeOf[id] = None =>
             View(id)' \notin {"Unloaded", "Missing"}
  BY DEF Remembers, View
<1>2. UNCHANGED vars => Remembers
  BY DEF vars, registry, Remembers
<1>3. IInv /\ [Next]_vars => Remembers
  BY <1>2, Stepwise
<1> QED  BY <1>1, <1>3, InductiveInvariant, PTL DEF Spec, StatesAdvance

(* An immediate_load comes back to an outcome, or to an id that another    *)
(* load is about to settle.                                                *)
THEOREM ImmediateComesBackSettled == Spec => ImmediateIsSettled
<1> DEFINE Comes == \A p \in Processes :
       p \in immediate /\ p \notin immediate' /\ want[p] \in Known /\ CompositeOf[want[p]] = None =>
         StateOfReference(want[p]) \in {"Loaded", "Error"} \/ \E l \in Loads : Loading(l, want[p])
<1>1. IInv /\ [Next]_vars => Comes
  <2> SUFFICES ASSUME IInv, [Next]_vars, NEW p \in Processes,
                      p \in immediate, p \notin immediate', want[p] \in Known, CompositeOf[want[p]] = None
               PROVE  StateOfReference(want[p]) \in {"Loaded", "Error"} \/ \E l \in Loads : Loading(l, want[p])
    OBVIOUS
  <2>1. Get(p) \/ \E id \in Ids : Request(p, id)
    BY DEF Next, vars, RequestStep, LoadStep, Request, AskFor, Submit, EndWait, Get, Begin, InsertPending,
           FindMetadata, FindNothing, Fail, Register, Finish, LoadPart, BeginPart
  <2>2. Get(p) /\ Settled(want[p])
    BY <2>1 DEF IInv, Gets, Request, Get
  <2>3. want[p] \in resources \cup pending \cup errored
    BY <2>2 DEF Settled
  <2>4. StateOfReference(want[p]) = View(want[p])
    BY DEF StateOfReference
  <2>5. want[p] \in pending => \E l \in Loads : Loading(l, want[p])
    BY DEF IInv, PendingIsLoading
  <2> QED  BY <2>3, <2>4, <2>5 DEF View
<1> QED  BY <1>1, InductiveInvariant, PTL DEF Spec, ImmediateIsSettled
================================================================================
