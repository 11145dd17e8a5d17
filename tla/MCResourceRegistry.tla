-------------------------- MODULE MCResourceRegistry --------------------------
(***************************************************************************)
(* Instances of ResourceRegistry: a glTF composite with a texture and      *)
(* materials, which need the texture and a shader that is a file of its    *)
(* own.                                                                    *)
(***************************************************************************)
EXTENDS ResourceRegistry

CONSTANTS gltf, texture, material, other, shader, unknown

GltfParts == [i \in Ids |-> IF i \in {texture, material, other} THEN gltf ELSE None]
TexturesMisfiled == [i \in Ids |-> IF i = texture THEN gltf ELSE i]
MaterialNeeds ==
  [i \in Ids |-> IF i \in {material, other} THEN {texture, shader} \cap Ids ELSE {}]
TexturesFirst == [i \in Ids |-> IF i = texture THEN 1 ELSE 2]
=============================================================================
