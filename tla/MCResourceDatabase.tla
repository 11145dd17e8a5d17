-------------------------- MODULE MCResourceDatabase --------------------------
(***************************************************************************)
(* Instances of ResourceDatabase: two images of one name that differ in    *)
(* their extension, and a glTF composite with an embedded texture.         *)
(***************************************************************************)
EXTENDS ResourceDatabase

CONSTANTS rock_png, rock_hdr, chair_gltf, rock, chair, cushion

ByStem == [s \in Sources |-> IF s = chair_gltf THEN chair ELSE rock]
Embedded == [s \in Sources |-> IF s = chair_gltf THEN {cushion} ELSE {}]
=============================================================================
