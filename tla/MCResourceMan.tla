---------------------------- MODULE MCResourceMan ----------------------------
(* ResourceMan on small instances: a texture in memory whose stage 1 is refused, *)
(* placed by t1 and acquired by both threads; a bundle on disk with two chunks.  *)
EXTENDS ResourceMan, TLC

CONSTANTS t1, t2, tex, mesh, mat, TEXTURE, MESH

MCTypeOf == [n \in Names |-> IF n = tex THEN TEXTURE ELSE MESH]
MCOwner == [n \in MemNames |-> t1]

(* Names with the chunk as sub-object: a read of either goes through both. *)
TwoChunks == [n \in {mesh, mat} |-> <<mesh, mat>>]

NoChunks == <<>>

RefusedStage == {<<tex, 1>>}
NoRejects == {}

AnyThread == Permutations(Threads)

=============================================================================
