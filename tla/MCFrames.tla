------------------------------ MODULE MCFrames ------------------------------
(* Small instances of Frames: words of two bytes, variables of a byte or a word. *)
EXTENDS FramesInv
=============================================================================
