------------------------------ MODULE MCReplay ------------------------------
(* Replay for TLC: one object that may have one of two meshes.               *)
EXTENDS Replay

CONSTANTS m, o

MCPackets == {[kind |-> "mesh", name |-> m, mesh |-> NoMesh],
              [kind |-> "object", name |-> o, mesh |-> m]}
=============================================================================
