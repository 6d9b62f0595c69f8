--------------------------- MODULE RecurrentState ---------------------------
(***************************************************************************)
(* What InferenceBackend promises about the recurrent feature when load()  *)
(* has bound one: it is zero after reset_state(), run() feeds it to the    *)
(* graph and keeps the graph's new one, and run() is refused until the     *)
(* first reset.  After an exception the caller discards the backend.       *)
(*                                                                         *)
(* The feature is the sequence of inputs the graph was run on since it was *)
(* last zeroed, and so is what a run answers.                              *)
(***************************************************************************)
EXTENDS Sequences

CONSTANTS Inputs

VARIABLES
  phase,   \* "unset", "ready" or "failed"
  fed,     \* the feature
  answer   \* what the last run that returned has answered

stateVars == <<phase, fed, answer>>

Init ==
  /\ phase = "unset"
  /\ fed = <<>>
  /\ answer = <<>>

Reset ==
  /\ phase # "failed"
  /\ phase' = "ready"
  /\ fed' = <<>>
  /\ UNCHANGED answer

Run(x) ==
  /\ phase = "ready"
  /\ fed' = Append(fed, x)
  /\ answer' = fed'
  /\ UNCHANGED phase

Fail ==
  /\ phase' = "failed"
  /\ UNCHANGED <<fed, answer>>

Next == Reset \/ (\E x \in Inputs : Run(x)) \/ Fail

Spec == Init /\ [][Next]_stateVars
=============================================================================
