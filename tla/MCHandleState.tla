--------------------------- MODULE MCHandleState ---------------------------
(* Two input contents and three runs between resets. *)
EXTENDS HandleState

MCInputs == {1, 2}
MCGarbage == 0
=============================================================================
