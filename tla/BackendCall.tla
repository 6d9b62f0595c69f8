----------------------------- MODULE BackendCall -----------------------------
(***************************************************************************)
(* What the TensorRT, ONNX Runtime and LibTorch backends have in common:   *)
(* a thread that calls reset_state() and run(), the history of its calls,  *)
(* and what they promise it of the recurrent feature.                      *)
(***************************************************************************)
EXTENDS Integers, Sequences

CONSTANTS
  Inputs,   \* contents of the input tensors
  Garbage,  \* content of memory nobody has written
  MaxFed    \* bound: runs between two resets

ASSUME InputsAssumption == Garbage \notin Inputs
ASSUME MaxFedAssumption == MaxFed \in Nat

VARIABLES
  pc,           \* where the calling thread is in run(), or "failed"
  x,            \* the input tensor of the current run
  initialized,  \* state_initialized_
  fed,          \* history: the runs since the last reset
  answer        \* the tensors the last run returned

callVars == <<x, initialized, fed, answer>>

\* What a tensor holds: the graph's history since the feature was zeroed.
Content == Inputs \cup {Garbage}
History == Seq(Content)

phaseOf == IF pc = "failed" THEN "failed" ELSE IF initialized THEN "ready" ELSE "unset"

Abstract == INSTANCE RecurrentState WITH phase <- phaseOf

(***************************************************************************)
(* tensorrt backend.cpp:263-270, onnxruntime backend.cpp:85-172, libtorch  *)
(* backend.cpp:105-194: whatever was queued, replaced or overwritten when, *)
(* every answer is the graph's for all inputs since the last reset, and a  *)
(* run in front of the first reset gives none.                             *)
(***************************************************************************)
StateSpec == Abstract!Spec
=============================================================================
