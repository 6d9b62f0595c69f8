--------------------------- MODULE MCEngineCache ---------------------------
(***************************************************************************)
(* Two processes, at once or by turns, and plans of two pieces: enough for *)
(* one process to truncate the file the other has half written or          *)
(* published, and for a plan with a hole or of two builds.  The ONNX file  *)
(* is replaced, so an engine may be a version old.                         *)
(***************************************************************************)
EXTENDS EngineCache, TLC

CONSTANTS p1, p2

MCTwo == {p1, p2}
MCSymmetry == Permutations(MCTwo)
=============================================================================
