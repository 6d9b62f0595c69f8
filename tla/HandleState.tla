----------------------------- MODULE HandleState -----------------------------
(***************************************************************************)
(* The recurrent feature in the ONNX Runtime and LibTorch backends: the    *)
(* binding holds a handle of a tensor, and every run lets the runtime      *)
(* allocate new outputs and moves the handle to the new feature.  A reset  *)
(* either points the handle at a zero tensor of the binding (ONNX Runtime) *)
(* or zeroes the tensor it names in place (LibTorch).                      *)
(***************************************************************************)
EXTENDS BackendCall

VARIABLES
  inPlace,  \* the backend: TRUE for LibTorch, FALSE for ONNX Runtime
  state,    \* the handle: a tensor, or NoTensor before the first reset
  outputs,  \* the feature and the other output of the current run
  contents  \* what the tensors hold

handleVars == <<inPlace, pc, x, initialized, state, outputs, contents, fed, answer>>

\* The tensor made by configure_state or load, and those the runtime allocates.
Own == "own"
Tensors == {Own, "t1", "t2", "t3"}
NoTensor == "none"
NoOutputs == [feature |-> NoTensor, other |-> NoTensor]

HandleInit ==
  /\ inPlace \in BOOLEAN
  /\ pc = "idle"
  /\ x = Garbage
  /\ initialized = FALSE
  /\ state = IF inPlace THEN Own ELSE NoTensor
  /\ outputs = NoOutputs
  /\ contents = [t \in Tensors |-> IF t = Own THEN <<>> ELSE <<Garbage>>]
  /\ fed = <<>>
  /\ answer = <<>>

ResetHandle ==
  /\ pc = "idle"
  /\ state' = IF inPlace THEN state ELSE Own
  /\ contents' = [contents EXCEPT ![state'] = <<>>]
  /\ initialized' = TRUE
  /\ fed' = <<>>
  /\ UNCHANGED <<inPlace, pc, x, outputs, answer>>

\* Outputs are allocated by the runtime: from memory no handle names.
Unnamed == {t \in Tensors \ {Own} : t # state}

\* Mutant: the new feature is written to the tensor the handle names.
RunInPlace ==
  /\ pc = "idle"
  /\ initialized
  /\ Len(fed) < MaxFed
  /\ x' \in Inputs
  /\ \E other \in Unnamed :
       /\ outputs' = [feature |-> state, other |-> other]
       /\ contents' = [contents EXCEPT ![state] = Append(contents[state], x'),
                                   ![other] = Append(contents[state], x')]
  /\ pc' = "ran"
  /\ UNCHANGED <<inPlace, initialized, state, fed, answer>>

\* run() up to the return of session_.Run or module_->forward.
Run ==
  /\ pc = "idle"
  /\ initialized
  /\ Len(fed) < MaxFed
  /\ x' \in Inputs
  /\ \E feature \in Unnamed : \E other \in Unnamed \ {feature} :
       LET history == Append(contents[state], x')
       IN /\ outputs' = [feature |-> feature, other |-> other]
          /\ contents' = [contents EXCEPT ![feature] = history, ![other] = history]
  /\ pc' = "ran"
  /\ UNCHANGED <<inPlace, initialized, state, fed, answer>>

\* Mutant: the binding keeps the handle it had.
CollectStateless ==
  /\ pc = "ran"
  /\ answer' = contents[outputs.other]
  /\ outputs' = NoOutputs
  /\ fed' = Append(fed, x)
  /\ pc' = "idle"
  /\ UNCHANGED <<inPlace, x, initialized, state, contents>>

\* The binding takes the new feature; the other outputs are copied out.
Collect ==
  /\ pc = "ran"
  /\ state' = outputs.feature
  /\ answer' = contents[outputs.other]
  /\ outputs' = NoOutputs
  /\ fed' = Append(fed, x)
  /\ pc' = "idle"
  /\ UNCHANGED <<inPlace, x, initialized, contents>>

\* run() before the first reset, or an exception of the runtime or of run().
HandleThrows ==
  /\ pc # "failed"
  /\ pc' = "failed"
  /\ UNCHANGED <<inPlace, x, initialized, state, outputs, contents, fed, answer>>

HandleNext == ResetHandle \/ Run \/ Collect \/ HandleThrows

HandleSpec == HandleInit /\ [][HandleNext]_handleVars

(***************************************************************************)
(* onnxruntime backend.cpp:134-138 and libtorch backend.cpp:168-179: while *)
(* the results are collected the old feature is still there: nothing was   *)
(* written to the tensor the handle names.                                 *)
(***************************************************************************)
FeatureIntact == pc = "ran" => state # outputs.feature /\ contents[state] = fed
=============================================================================
