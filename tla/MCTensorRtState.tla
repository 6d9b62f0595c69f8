-------------------------- MODULE MCTensorRtState --------------------------
(***************************************************************************)
(* Two input contents, three runs between resets, three resets queued at   *)
(* once: the pointers are exchanged back and forth and a reset meets both  *)
(* of their orders.                                                        *)
(***************************************************************************)
EXTENDS TensorRtState

MCInputs == {1, 2}
MCGarbage == 0
=============================================================================
