----------------------------- MODULE MCSceneEditor -----------------------------
(***************************************************************************)
(* Instances of SceneEditor: a room with a table in it, and a cup that may *)
(* be created later.                                                       *)
(***************************************************************************)
EXTENDS SceneEditor

CONSTANTS room, table, cup

Furnished == <<[name |-> room, parent |-> Scene], [name |-> table, parent |-> room]>>
=============================================================================
