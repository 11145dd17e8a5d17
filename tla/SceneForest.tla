------------------------------ MODULE SceneForest ------------------------------
(***************************************************************************)
(* What the hierarchy of entities promises its users (entity.h,            *)
(* registry.h): each entity has at most one parent, parent and children    *)
(* agree, and a list of children keeps its order: whoever stays does so in *)
(* the same place, and whoever comes joins at the end.                     *)
(***************************************************************************)
EXTENDS Naturals, Sequences, SequencesExt

CONSTANTS Nodes, Root

VARIABLES parent,   \* parent[n]: a node, or anything else if n has no parent
          kids      \* kids[n]: the children of n in their order

Agree(up, down) ==
  \A p \in Nodes : /\ IsInjective(down[p])
                   /\ ToSet(down[p]) = {c \in Nodes : up[c] = p}

Init == Agree(parent, kids)

\* Whoever comes before one that stays was before it already.
KeepsOrder(before, after) ==
  \A i, j \in DOMAIN after :
    i < j /\ after[j] \in ToSet(before) =>
      \E k, l \in DOMAIN before : k < l /\ before[k] = after[i] /\ before[l] = after[j]

Next ==
  /\ Agree(parent', kids')
  /\ parent'[Root] = parent[Root]
  /\ \A p \in Nodes : KeepsOrder(kids[p], kids'[p])

Spec == Init /\ [][Next]_<<parent, kids>>
=============================================================================
