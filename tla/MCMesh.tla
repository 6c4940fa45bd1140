------------------------------- MODULE MCMesh -------------------------------
(* Mesh for TLC: two of the points have the same x; a quad and a triangle     *)
(* with two edges of it; a turn of the points, and a projection onto one.     *)
EXTENDS Mesh

CONSTANTS a, b, c

MCX == [p \in Positions |-> IF p = c THEN 2 ELSE 1]
MCFaces == {<<1, 2, 3, 4>>, <<1, 4, 3>>}
MCTransforms == {[p \in Positions |-> IF p = a THEN b ELSE IF p = b THEN c ELSE a],
                 [p \in Positions |-> a]}
=============================================================================
