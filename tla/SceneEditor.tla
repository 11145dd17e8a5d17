------------------------------ MODULE SceneEditor ------------------------------
(***************************************************************************)
(* The scene an editor works on: the entities, their transforms, the       *)
(* system that computes world matrices once a frame, and the               *)
(* SnapshotManager behind undo and redo.                                   *)
(*                                                                         *)
(* All of it runs on the main thread, between and within frames.  An edit  *)
(* in a panel takes a snapshot of the scene when it begins (prepare) and   *)
(* files it in the ring when it ends (commit); moving an entity in the     *)
(* scene graph takes none.  A snapshot is the serialized scene: names,     *)
(* parents by name, and local transforms, in the order of descendants().   *)
(* Reverting to one looks the entities up by name, creates those that are  *)
(* missing, and reparents one after the other; it removes nothing.         *)
(*                                                                         *)
(* A matrix is the sequence of the local transforms it is the product of.  *)
(***************************************************************************)
EXTENDS EntityHierarchy

CONSTANTS
  Locals,          \* local transforms
  Default,         \* the one of a new TransformComponent
  Loaded,          \* the scene that is loaded: the calls of set_parent that build it
  MaxSnapshots,    \* SnapshotManager::MAX_SNAPSHOTS
  SizeT,           \* number of values of size_t
  DestroyParents,  \* whether the game destroys entities that have children
  MaxOps           \* bound: calls and edits

ASSUME EditorAssumption ==
  /\ Loaded \in Seq([name : Entities, parent : All])
  /\ \A i \in DOMAIN Loaded :
       Loaded[i].parent \in {Scene} \cup {Loaded[j].name : j \in DOMAIN Loaded}
  /\ Default \in Locals /\ MaxOps \in Nat /\ DestroyParents \in BOOLEAN
  /\ MaxSnapshots \in Nat \ {0} /\ SizeT \in Nat \ {0} /\ SizeT % MaxSnapshots = 0

VARIABLES
  local, world,    \* the transforms, and the world matrices computed last
  dirty,           \* entities with a TransformDirtyTag
  fate,            \* "ok"; "hung" in an endless loop; "undefined" once memory is read
                   \* that is gone
  snapshots, current, in_flight,   \* SnapshotManager
  editing,         \* the entity a gizmo or a field is being dragged for, or Null
  past,            \* (history) the scenes before the edits that led here, as far as the
                   \* ring has room
  since,           \* (history) what came last: an edit, a revert, or a frame after one
  ops

scene == <<alive, rel, local, world, dirty, fate>>
manager == <<snapshots, current, in_flight>>
vars == <<scene, manager, editing, past, since, ops>>

----------------------------------------------------------------------------
(* Mutant: the scene entity is serialized too.                             *)
SnapshotOfAll ==
  LET d == <<Scene>> \o Descendants(rel, Scene)
  IN  [i \in DOMAIN d |-> [name |-> d[i], parent |-> rel[d[i]].parent,
                           local |-> IF d[i] = Scene THEN Default ELSE local[d[i]]]]

(* SceneLoader::serialize_scene                                            *)
Snapshot ==
  LET d == Descendants(rel, Scene)
  IN  [i \in DOMAIN d |-> [name |-> d[i], parent |-> rel[d[i]].parent, local |-> local[d[i]]]]
NamesIn(s) == {s[i].name : i \in DOMAIN s}

(* Calls of set_parent, one after the other.                               *)
Moved(r, s) ==
  LET after[i \in 0..Len(s)] ==
        IF i = 0 THEN [rel |-> r, bad |-> FALSE]
        ELSE LET acc == after[i - 1] IN
             IF acc.bad \/ Dangling(acc.rel, s[i].name, s[i].parent)
               THEN [acc EXCEPT !.bad = TRUE]
               ELSE [acc EXCEPT !.rel = Reparented(acc.rel, s[i].name, s[i].parent)]
  IN  after[Len(s)]
Move(s) == /\ rel' = Moved(rel, s).rel
           /\ fate' = IF Moved(rel, s).bad THEN "undefined" ELSE fate

(* Mutant: only an entity without a parent gets one.                       *)
AdoptedOrphans(s) == Moved(rel, SelectSeq(s, LAMBDA r : rel[r.name].parent = Null))

(* deserialize_scene gives every entity of s the parent it has there, the  *)
(* others keep theirs.                                                     *)
Adopted(s) == Moved(rel, s)

LocalIn(s, e) == (CHOOSE r \in ToSet(s) : r.name = e).local

(* Mutant: there is nothing before the first slot.                         *)
PreviousIndexClamped == IF current = 0 THEN 0 ELSE current - 1

NextIndex == (current + 1) % MaxSnapshots
PreviousIndex == ((current + SizeT - 1) % SizeT) % MaxSnapshots

Do == fate = "ok" /\ ops < MaxOps /\ ops' = ops + 1

----------------------------------------------------------------------------
Init ==
  /\ alive = {Scene} \cup NamesIn(Loaded)
  /\ rel = Moved([x \in All |-> Fresh], Loaded).rel
  /\ local = [e \in Entities |-> Default] /\ world = [e \in Entities |-> <<>>]
  /\ dirty = alive \ {Scene} /\ fate = "ok"
  /\ snapshots = [i \in 0..MaxSnapshots - 1 |-> <<>>] /\ current = 0 /\ in_flight = <<>>
  /\ editing = Null /\ past = <<>> /\ since = "edit" /\ ops = 0

(* Registry::create_child_entity and a TransformComponent.                 *)
Create(e, p) ==
  /\ Do /\ e \notin alive /\ p \in alive
  /\ Move(<<[name |-> e, parent |-> p]>>)
  /\ alive' = alive \cup {e}
  /\ local' = [local EXCEPT ![e] = Default] /\ world' = [world EXCEPT ![e] = <<>>]
  /\ dirty' = dirty \cup {e} /\ since' = "edit"
  /\ UNCHANGED <<manager, editing, past>>

(* Entity::set_parent by the game.                                         *)
SetParent(c, p) ==
  /\ Do /\ c \in alive \ {Scene} /\ p \in alive \cup {Null}
  /\ Move(<<[name |-> c, parent |-> p]>>)
  /\ since' = "edit"
  /\ UNCHANGED <<alive, local, world, dirty, manager, editing, past>>

(* Rows of the scene graph are dragged onto another row or onto the        *)
(* background, which stands for the scene.  If the dragged row is          *)
(* selected, the whole selection is; only the dragged row itself is no     *)
(* target.                                                                 *)
Drop(payload, p) ==
  /\ Do /\ ToSet(payload) # {p} /\ ToSet(payload) \cup {p} \subseteq InScene \cup {Scene}
  /\ Move([i \in DOMAIN payload |-> [name |-> payload[i], parent |-> p]])
  /\ since' = "edit"
  /\ UNCHANGED <<alive, local, world, dirty, manager, editing, past>>

(* Registry::destroy_entity.  Its loop over the children steps from a      *)
(* child that it has just destroyed.                                       *)
Destroy(e, exclude_children) ==
  /\ Do /\ e \in alive \ {Scene, editing} /\ (rel[e].children = 0 \/ DestroyParents)
  /\ IF (~exclude_children /\ rel[e].children > 0) \/ Dangling(rel, e, Null)
     THEN fate' = "undefined" /\ UNCHANGED <<alive, rel, dirty>>
     ELSE /\ alive' = alive \ {e} /\ rel' = Destroyed(rel, e) /\ dirty' = dirty \ {e}
          /\ fate' = fate
  /\ since' = "edit"
  /\ UNCHANGED <<local, world, manager, editing, past>>

----------------------------------------------------------------------------
(* A drag of the gizmo or of a field: prepare_snapshot with its first      *)
(* change, then a change per frame, then commit_snapshot.                  *)
Patched(e, l) == /\ local' = [local EXCEPT ![e] = l] /\ dirty' = dirty \cup {e}
                 /\ since' = "edit" /\ UNCHANGED <<alive, rel, fate>>

BeginEdit(e, l) ==
  /\ Do /\ editing = Null /\ e \in InScene /\ editing' = e
  /\ in_flight' = Snapshot
  /\ Patched(e, l) /\ UNCHANGED <<world, snapshots, current, past>>

ContinueEdit(l) ==
  /\ Do /\ editing # Null
  /\ Patched(editing, l) /\ UNCHANGED <<world, manager, editing, past>>

EndEdit ==
  /\ fate = "ok" /\ editing # Null /\ editing' = Null
  /\ snapshots' = [snapshots EXCEPT ![current] = in_flight]
  /\ current' = NextIndex /\ in_flight' = <<>>
  /\ past' = LET p == Append(past, in_flight)
             IN  IF Len(p) > MaxSnapshots THEN Tail(p) ELSE p
  /\ UNCHANGED <<scene, since, ops>>

(* Reset in the details panel prepares a snapshot that nobody commits, and *)
(* puts a new component in the place of the old one.                       *)
Reset(e) ==
  /\ Do /\ editing = Null /\ e \in InScene
  /\ in_flight' = Snapshot
  /\ Patched(e, Default) /\ world' = [world EXCEPT ![e] = <<>>]
  /\ UNCHANGED <<snapshots, current, editing, past>>

(* SnapshotManager::revert_snapshot and deserialize_scene, whose last pass *)
(* tags the transforms of all entities in the scene.                       *)
Revert(i) ==
  LET s == snapshots[i] IN
  IF s = <<>> THEN UNCHANGED <<scene, current, since>>
  ELSE IF Adopted(s).bad THEN fate' = "undefined" /\ UNCHANGED <<alive, rel, local, world, dirty, current, since>>
  ELSE /\ current' = i
       /\ alive' = alive \cup NamesIn(s) /\ rel' = Adopted(s).rel
       /\ local' = [e \in Entities |-> IF e \in NamesIn(s) THEN LocalIn(s, e) ELSE local[e]]
       /\ world' = [e \in Entities |-> IF e \in alive THEN world[e] ELSE <<>>]
       /\ dirty' = dirty \cup ToSet(Descendants(rel', Scene))
       /\ since' = "revert" /\ fate' = fate

Undo ==
  /\ Do /\ Revert(PreviousIndex)
  /\ past' = IF past = <<>> THEN past ELSE Front(past)
  /\ UNCHANGED <<snapshots, in_flight, editing>>

Redo == Do /\ Revert(NextIndex) /\ past' = <<>> /\ UNCHANGED <<snapshots, in_flight, editing>>

(* An entry of the history menu.                                           *)
RevertTo(i) ==
  /\ Do /\ Revert(i) /\ past' = <<>>
  /\ UNCHANGED <<snapshots, in_flight, editing>>

----------------------------------------------------------------------------
(* Mutant: unsorted, a transform may see the old matrix of its parent.     *)
ComputedUnsorted ==
  [e \in Entities |->
     IF e \notin dirty THEN world[e]
     ELSE IF rel[e].parent \notin Entities THEN <<local[e]>>
     ELSE world[rel[e].parent] \o <<local[e]>>]

(* TransformHierarchySystem::execute computes the tagged transforms only,  *)
(* sorted by depth, each from the matrix its parent has by then.  A single *)
(* one is not sorted, so that nobody asks for its depth.                   *)
Computed ==
  LET w[e \in Entities] ==
        IF e \notin dirty THEN world[e]
        ELSE IF rel[e].parent \notin Entities THEN <<local[e]>>
        ELSE IF InCycle(rel, e) THEN world[rel[e].parent] \o <<local[e]>>
        ELSE w[rel[e].parent] \o <<local[e]>>
  IN  [e \in Entities |-> w[e]]

Frame ==
  /\ fate = "ok"
  /\ IF Cardinality(dirty) > 1 /\ \E e \in dirty : Orphaned(rel, e) \/ InCycle(rel, e)
     THEN /\ \/ fate' = "undefined" /\ \E e \in dirty : Orphaned(rel, e)
             \/ fate' = "hung" /\ \E e \in dirty : InCycle(rel, e)
          /\ UNCHANGED <<world, dirty, since>>
     ELSE /\ world' = Computed /\ dirty' = {}
          /\ since' = (IF since = "edit" THEN "edit" ELSE "frame")
          /\ fate' = fate
  /\ UNCHANGED <<alive, rel, local, manager, editing, past, ops>>

Payloads == {<<c>> : c \in Entities} \cup {q \in Entities \X Entities : q[1] # q[2]}

Next ==
  \/ \E e \in Entities, p \in All : Create(e, p)
  \/ \E c \in Entities, p \in All \cup {Null} : SetParent(c, p)
  \/ \E l \in Payloads, p \in All : Drop(l, p)
  \/ \E e \in Entities, b \in BOOLEAN : Destroy(e, b)
  \/ \E e \in Entities, l \in Locals : BeginEdit(e, l)
  \/ \E l \in Locals : ContinueEdit(l)
  \/ EndEdit \/ Undo \/ Redo \/ Frame
  \/ \E e \in Entities : Reset(e)
  \/ \E i \in 0..MaxSnapshots - 1 : RevertTo(i)

Spec == Init /\ [][Next]_vars

----------------------------------------------------------------------------
TypeOK ==
  /\ alive \subseteq All /\ Scene \in alive /\ rel \in [All -> Relationship]
  /\ local \in [Entities -> Locals] /\ DOMAIN world = Entities
  /\ dirty \subseteq alive \ {Scene}
  /\ fate \in {"ok", "hung", "undefined"}
  /\ DOMAIN snapshots = 0..MaxSnapshots - 1
  /\ \A s \in {snapshots[i] : i \in DOMAIN snapshots} \cup {in_flight} :
       \A i \in DOMAIN s : s[i] \in [name : Entities, parent : All, local : Locals]
  /\ current \in 0..MaxSnapshots - 1 /\ editing \in alive \cup {Null}
  /\ Len(past) <= MaxSnapshots /\ since \in {"edit", "revert", "frame"} /\ ops \in 0..MaxOps

(* The linked lists implement a forest with ordered lists of children.     *)
Forest == INSTANCE SceneForest
  WITH Nodes <- All, Root <- Scene, parent <- [x \in All |-> rel[x].parent],
       kids <- [x \in All |-> Kids(rel, x)]
ImplementsForest == Forest!Spec

(* As far as the ring reaches, an undo brings back the parents and the     *)
(* transforms that all entities had before the last edit that is not yet   *)
(* undone, whatever has been moved, created or destroyed since.            *)
UndoneIsPast ==
  [][past # <<>> /\ since' = "revert" /\ Undo =>
       \A i \in DOMAIN Last(past) :
         LET r == Last(past)[i] IN
         r.name \in alive' /\ rel'[r.name].parent = r.parent /\ local'[r.name] = r.local]_vars

(* A revert never takes anything out of the scene: its reparenting, entity *)
(* by entity and without a check for cycles, leaves everything connected,  *)
(* and brings back what a drop has cut off.                                *)
RevertKeepsScene ==
  [][\A i \in DOMAIN snapshots :
       since' = "revert" /\ ops' # ops /\ snapshots[i] # <<>> /\ Revert(i) =>
         InScene \cup NamesIn(snapshots[i]) \subseteq ToSet(Descendants(rel', Scene))]_vars

(* The frame after a revert shows the scene that was reverted to: every    *)
(* world matrix is the product along the path from the scene.              *)
RevertIsDrawn ==
  since = "frame" =>
    \A e \in InScene :
      LET up == Front(Ancestors(rel, e))
      IN  world[e] = [i \in 1..Len(up) |-> local[Reverse(up)[i]]] \o <<local[e]>>

(* registry.h:197: "breaking its relationships with parent and siblings.   *)
(* By default, all children are also destroyed recursively."  The loop     *)
(* that does so reads the component of a child it has destroyed.           *)
DestroyIsDefined == fate # "undefined"
=============================================================================
