--------------------------- MODULE MCAudioEngine ---------------------------
(* The audio path with rings of four samples, for TLC.                     *)
EXTENDS AudioEngine

BothOffsets == {-1, 1}
=============================================================================
