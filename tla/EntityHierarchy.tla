---------------------------- MODULE EntityHierarchy ----------------------------
(***************************************************************************)
(* The parent and child relation of entities (engine/portal/engine/ecs):   *)
(* every entity has a RelationshipComponent with its parent, its first     *)
(* child, the number of its children, and the siblings before and after    *)
(* it.  The operators give the components after a call; the calls read and *)
(* write the components of up to five entities by hand, and check neither  *)
(* for cycles nor for handles of entities that are gone.                   *)
(*                                                                         *)
(* Names of entities are unique (details_panel.cpp:798), so that an entity *)
(* stands for its name as well.                                            *)
(***************************************************************************)
EXTENDS Naturals, FiniteSets, Sequences, SequencesExt

CONSTANTS
  Entities,   \* the entities below the scene
  Scene,      \* the scene entity: it is never moved and never destroyed
  Null,       \* null_entity
  Dead        \* a handle of an entity that has been destroyed

ASSUME HierarchyAssumption ==
  /\ IsFiniteSet(Entities)
  /\ Scene # Null /\ Scene # Dead /\ Null # Dead
  /\ {Scene, Null, Dead} \cap Entities = {}

VARIABLES
  alive,      \* the entities that exist
  rel         \* their RelationshipComponents

All == Entities \cup {Scene}
Fresh == [parent |-> Null, first |-> Null, prev |-> Null, next |-> Null, children |-> 0]
Relationship == [parent : All \cup {Null, Dead}, first : All \cup {Null, Dead},
                 prev : All \cup {Null, Dead}, next : All \cup {Null, Dead},
                 children : 0..Cardinality(All)]

----------------------------------------------------------------------------
(* e, its successor, and so on, as many entities as there can be at most.  *)
Walk(e, successor) ==
  LET at[i \in 1..Cardinality(All)] ==
        IF i = 1 THEN e ELSE IF at[i - 1] \in All THEN successor[at[i - 1]] ELSE Null
  IN  SubSeq(at, 1, Cardinality({i \in DOMAIN at : at[i] \in All}))

(* The siblings from e on (ChildIterator); the children of p; the entities *)
(* above e, up to a root or around a cycle.                                *)
Chain(r, e) == Walk(e, [x \in All |-> r[x].next])
Kids(r, p) == IF r[p].children = 0 THEN <<>> ELSE Chain(r, r[p].first)
Ancestors(r, e) == Walk(r[e].parent, [x \in All |-> r[x].parent])
InCycle(r, e) == Len(Ancestors(r, e)) = Cardinality(All)
Orphaned(r, e) == \E x \in {e} \cup ToSet(Ancestors(r, e)) : r[x].parent = Dead

(* RecursiveChildIterator: all entities below e, each before its children. *)
Descendants(r, e) ==
  LET visit[i \in 0..Cardinality(All)] ==
        IF i = 0 THEN [seen |-> <<>>, stack |-> Kids(r, e)]
        ELSE LET v == visit[i - 1] IN
             IF v.stack = <<>> THEN v
             ELSE [seen |-> Append(v.seen, Head(v.stack)),
                   stack |-> Kids(r, Head(v.stack)) \o Tail(v.stack)]
  IN  visit[Cardinality(All)].seen

(* The last child, as set_parent finds it: by the number of children.      *)
LastChild(r, p) == Chain(r, r[p].first)[r[p].children]

(* Mutant: the neighbours keep their links to the child that leaves.       *)
UnlinkAlone(r, p, c) ==
  [r EXCEPT ![c] = [@ EXCEPT !.parent = Null, !.prev = Null, !.next = Null],
            ![p].first = IF r[c].prev = Null THEN r[c].next ELSE @,
            ![p].children = @ - 1]

(* Entity::remove_child                                                    *)
Unlink(r, p, c) ==
  LET prev == r[c].prev
      next == r[c].next
      r1 == IF prev # Null THEN [r EXCEPT ![prev].next = next] ELSE [r EXCEPT ![p].first = next]
      r2 == IF next # Null THEN [r1 EXCEPT ![next].prev = prev] ELSE r1
  IN  [r2 EXCEPT ![c].prev = Null, ![c].next = Null, ![c].parent = Null, ![p].children = @ - 1]

(* Mutant: a new child comes first.                                        *)
Prepended(r, p, c) ==
  LET first == r[p].first
      r1 == IF first = Null THEN r ELSE [r EXCEPT ![first].prev = c]
  IN  [r1 EXCEPT ![c].parent = p, ![c].next = first, ![p].first = c, ![p].children = @ + 1]

(* The second half of Entity::set_parent.  A first child keeps the prev it *)
(* has, which is null unless its last parent was destroyed before it.      *)
Appended(r, p, c) ==
  LET r1 == [r EXCEPT ![c].parent = p]
      r2 == IF r1[p].children = 0 THEN [r1 EXCEPT ![p].first = c]
            ELSE [r1 EXCEPT ![LastChild(r1, p)].next = c, ![c].prev = LastChild(r1, p)]
  IN  [r2 EXCEPT ![p].children = @ + 1, ![c].next = Null]

(* Entity::set_parent; p is an entity that exists or Null.                 *)
Reparented(r, c, p) ==
  LET r1 == IF r[c].parent \in All THEN Unlink(r, r[c].parent, c) ELSE r
  IN  IF r[c].parent = p THEN r
      ELSE IF p # Null THEN Appended(r1, p, c)
      ELSE [r1 EXCEPT ![c].parent = Null, ![c].prev = Null, ![c].next = Null]

(* Such a call reads the component of an entity that is gone.              *)
Dangling(r, c, p) ==
  /\ r[c].parent # p
  /\ \/ r[c].parent \in All /\ Dead \in {r[c].prev, r[c].next}
     \/ p \in All /\ Len(Chain(r, r[p].first)) < r[p].children

(* Registry::destroy_entity of e alone: handles of e that others keep are  *)
(* no longer valid.                                                        *)
Destroyed(r, e) ==
  LET r1 == IF r[e].parent \in All THEN Unlink(r, r[e].parent, e) ELSE r
      buried(h) == IF h = e THEN Dead ELSE h
  IN  [x \in All |-> IF x = e THEN Fresh
                     ELSE [parent |-> buried(r1[x].parent), first |-> buried(r1[x].first),
                           prev |-> buried(r1[x].prev), next |-> buried(r1[x].next),
                           children |-> r1[x].children]]

InScene == ToSet(Descendants(rel, Scene))

----------------------------------------------------------------------------
(* For every entity, the list of its children, walked either way, holds    *)
(* exactly the entities whose parent it is, and is as long as it says: no  *)
(* sequence of set_parent and remove_child loses a child, keeps one that   *)
(* has left, or ties two lists together, not even when an entity is moved  *)
(* below itself.                                                           *)
SiblingLists ==
  \A p \in alive :
    LET kids == Kids(rel, p) IN
    /\ IsInjective(kids) /\ Len(kids) = rel[p].children
    /\ ToSet(kids) = {c \in alive : rel[c].parent = p}
    /\ \A i \in DOMAIN kids : rel[kids[i]].prev = IF i = 1 THEN Null ELSE kids[i - 1]
=============================================================================
