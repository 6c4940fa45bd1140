----------------------------- MODULE MCFrameLoop -----------------------------
(* Three images and four frames: images are acquired again, also while they are *)
(* shown, and an acquisition may fail before, between and after others.         *)
EXTENDS FrameLoop

=============================================================================
