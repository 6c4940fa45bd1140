--------------------------- MODULE MCBundleReader ---------------------------
(* Textures, materials that need the textures, meshes that need both. *)
EXTENDS BundleReader

CONSTANTS TEX, MAT, MESH

MCDependencies == [t \in Ids |->
  CASE t = TEX  -> {<<>>}
    [] t = MAT  -> {<<TEX>>}
    [] t = MESH -> {<<MAT>>, <<TEX, MAT>>}]

(* One chunk fills its last word, the others are padded. *)
MCStoredSize == [t \in Ids |->
  CASE t = TEX  -> 1
    [] t = MAT  -> 3
    [] t = MESH -> 2]

=============================================================================
