---------------------------- MODULE StateRouting ----------------------------
(***************************************************************************)
(* How the tensors of a frame reach the graph and come back: the binding   *)
(* of the recurrent feature that make_execution_config asks for, the       *)
(* checks each backend makes of it in load(), the order in which run()     *)
(* deals the host's tensors to the graph's inputs, and the names the frame *)
(* loop gives to the outputs by position. The buffered loops of            *)
(* driver_cubin go by the names of the graph instead.                      *)
(*                                                                         *)
(* A tensor is its name and its type; a type stands for a data type and a  *)
(* shape, and two types also differ in size.                               *)
(***************************************************************************)
EXTENDS Integers, Sequences, SequencesExt

CONSTANTS
  Backends,   \* the backends of a release, one at a time
  Names,      \* of tensors
  Types,
  Exported,   \* direction -> the signature of the exported graph
  Graphs      \* direction -> the graphs a bundle may hold

Tensor == [name : Names, type : Types]
Signature == [inputs : Seq(Tensor), outputs : Seq(Tensor),
              last : SUBSET Names]     \* outputs of the final node

ASSUME SignatureAssumption ==
  \A d \in {"encoder", "decoder"} :
    Exported[d] \in Graphs[d] /\ Graphs[d] \subseteq Signature

VARIABLES
  backend,    \* the backend of this release
  direction,  \* "encoder" or "decoder"
  debug,      \* --debug-dir: the loop carries the feature itself
  graph,      \* the graph of the bundle
  bound,      \* state_bindings_
  taken,      \* the tensors dealt to the graph's inputs so far
  external,   \* external_index
  results,    \* what run() returns, then what the loop calls it
  status      \* how far the call is

setup == <<backend, direction, debug, graph>>
routingVars == <<setup, bound, taken, external, results, status>>

RoutingInit ==
  /\ backend \in Backends
  /\ direction \in {"encoder", "decoder"}
  /\ debug \in BOOLEAN
  /\ graph \in Graphs[direction]
  /\ bound = <<>>
  /\ taken = <<>>
  /\ external = 0
  /\ results = <<>>
  /\ status = "loading"

-----------------------------------------------------------------------------
\* make_execution_config: positions in the exported graphs, counted from 0.
ExecutionConfig ==
  IF debug THEN <<>>
  ELSE IF direction = "encoder"
       THEN <<[input |-> 1, output |-> 0, type |-> "feature"]>>
       ELSE <<[input |-> 3, output |-> 1, type |-> "feature"]>>

\* is_state_input and is_state_output, of graph positions counted from 0.
IsStateInput(i) == \E b \in 1..Len(bound) : bound[b].input = i
IsStateOutput(o) == \E b \in 1..Len(bound) : bound[b].output = o

InRange(r) == r.input < Len(graph.inputs) /\ r.output < Len(graph.outputs)

Duplicate(r) == IsStateInput(r.input) \/ IsStateOutput(r.output)

SameType(r) ==
  /\ graph.inputs[r.input + 1].type = r.type
  /\ graph.outputs[r.output + 1].type = r.type

\* The feature is written in place: only when nothing reads it any more.
WrittenLast(r) == graph.outputs[r.output + 1].name \in graph.last

\* configure_state; LibTorch looks at the graph only when it runs.
Accepts(r) ==
  /\ ~Duplicate(r)
  /\ backend # "libtorch" => InRange(r) /\ SameType(r)
  /\ backend = "driver_cubin" => WrittenLast(r)

Unbound == status = "loading" /\ Len(bound) < Len(ExecutionConfig)
NextRequest == ExecutionConfig[Len(bound) + 1]

Bind ==
  /\ Unbound
  /\ Accepts(NextRequest)
  /\ bound' = Append(bound, NextRequest)
  /\ UNCHANGED <<setup, taken, external, results, status>>

Refuse ==
  /\ Unbound
  /\ ~Accepts(NextRequest)
  /\ status' = "refused"
  /\ UNCHANGED <<setup, bound, taken, external, results>>

-----------------------------------------------------------------------------
T(name, type) == [name |-> name, type |-> type]

\* The tensors the loop hands to run(), in its order.
Given ==
  IF direction = "encoder"
  THEN <<T("x", "image")>> \o
       (IF debug THEN <<T("ref_feature", "feature")>> ELSE <<>>) \o
       <<T("q_index_shifted", "q")>>
  ELSE <<T("z_raw", "z"), T("y_raw_0", "y"), T("y_raw_1", "y")>> \o
       (IF debug THEN <<T("ref_feature", "feature")>> ELSE <<>>) \o
       <<T("q_index_shifted", "q")>>

InputCount == Len(Given) + Len(bound)

\* The checks run() makes before it deals the tensors.
CountsAgree ==
  IF backend = "libtorch"
  THEN \A b \in 1..Len(bound) : bound[b].input < InputCount
  ELSE InputCount = Len(graph.inputs)

\* driver_cubin enters the buffered loops unless the loop has to see the
\* feature; run() is for the others.
Buffered == backend = "driver_cubin" /\ ~debug

Loaded == status = "loading" /\ Len(bound) = Len(ExecutionConfig)

StartRun ==
  /\ Loaded
  /\ ~Buffered
  /\ status' = IF CountsAgree THEN "running" ELSE "thrown"
  /\ UNCHANGED <<setup, bound, taken, external, results>>

Dealing == status = "running" /\ Len(taken) < InputCount

\* The next input of the graph is the feature the backend has kept.
TakeState ==
  /\ Dealing
  /\ IsStateInput(Len(taken))
  /\ taken' = Append(taken, T("ref_feature", "feature"))
  /\ UNCHANGED <<setup, bound, external, results, status>>

\* Mutant: the tensors are numbered like the graph's inputs, state included.
NextGivenByPosition == Len(taken) + 1

\* external_index++, of tensors counted from 1.
NextGiven == external + 1

\* inputs.at(external_index); two backends check the tensor against the graph.
Fits ==
  /\ NextGiven <= Len(Given)
  /\ backend \in {"driver_cubin", "tensorrt"} =>
       Given[NextGiven].type = graph.inputs[Len(taken) + 1].type

TakeExternal ==
  /\ Dealing
  /\ ~IsStateInput(Len(taken))
  /\ Fits
  /\ taken' = Append(taken, Given[NextGiven])
  /\ external' = external + 1
  /\ UNCHANGED <<setup, bound, results, status>>

TakeThrows ==
  /\ Dealing
  /\ ~IsStateInput(Len(taken))
  /\ ~Fits
  /\ status' = "thrown"
  /\ UNCHANGED <<setup, bound, taken, external, results>>

\* The runtime refuses tensors that are not what the graph declares.
RuntimeAccepts ==
  /\ Len(taken) = Len(graph.inputs)
  /\ \A i \in 1..Len(taken) : taken[i].type = graph.inputs[i].type

\* LibTorch compares the state output only now.
StateReturned ==
  backend = "libtorch" =>
    \A b \in 1..Len(bound) :
      /\ bound[b].output < Len(graph.outputs)
      /\ graph.outputs[bound[b].output + 1].type = bound[b].type

\* The outputs in graph order, the bound one removed.
Returned ==
  IF bound = <<>> THEN graph.outputs
  ELSE RemoveAt(graph.outputs, bound[1].output + 1)

\* The names the loop gives to the outputs, and the types it insists on.
Labels ==
  IF direction = "encoder"
  THEN (IF debug THEN <<T("feature", "feature")>> ELSE <<>>) \o
       <<T("z_raw", "z"), T("y_raw_0", "y"), T("y_raw_1", "y")>>
  ELSE <<T("x_hat", "image")>> \o
       (IF debug THEN <<T("feature", "feature")>> ELSE <<>>)

OutputsValid ==
  /\ Len(Returned) = Len(Labels)
  /\ \A k \in 1..Len(Labels) : Returned[k].type = Labels[k].type

\* Mutant: the backend and the loop trust the types and count only.
FinishCountsOnly ==
  /\ status = "running"
  /\ Len(taken) = InputCount
  /\ IF RuntimeAccepts /\ Len(Returned) = Len(Labels)
     THEN status' = "named" /\ results' = Returned
     ELSE status' = "thrown" /\ results' = results
  /\ UNCHANGED <<setup, bound, taken, external>>

Finish ==
  /\ status = "running"
  /\ Len(taken) = InputCount
  /\ IF RuntimeAccepts /\ StateReturned /\ OutputsValid
     THEN status' = "named" /\ results' = Returned
     ELSE status' = "thrown" /\ results' = results
  /\ UNCHANGED <<setup, bound, taken, external>>

-----------------------------------------------------------------------------
\* The buffered loops: what the host gives and takes is found by its name
\* among the graph's tensors that are not bound.
ShownInputs == {graph.inputs[i] : i \in {i \in 1..Len(graph.inputs) : ~IsStateInput(i - 1)}}
ShownOutputs ==
  {graph.outputs[o] : o \in {o \in 1..Len(graph.outputs) : ~IsStateOutput(o - 1)}}

FoundByName == Range(Given) \subseteq ShownInputs /\ Range(Labels) \subseteq ShownOutputs

\* An input nobody writes holds whatever was there.
Dealt(deal) ==
  \A i \in 1..Len(graph.inputs) :
    IF IsStateInput(i - 1) THEN deal[i] = T("ref_feature", "feature")
    ELSE graph.inputs[i] \in Range(Given) => deal[i] = graph.inputs[i]

RunByName ==
  /\ Loaded
  /\ Buffered
  /\ FoundByName
  /\ \E deal \in [1..Len(graph.inputs) -> Range(Given) \cup {T("ref_feature", "feature")}] :
       Dealt(deal) /\ taken' = deal
  /\ external' = Len(Given)
  /\ results' = Labels
  /\ status' = "named"
  /\ UNCHANGED <<setup, bound>>

NameMissing ==
  /\ Loaded
  /\ Buffered
  /\ ~FoundByName
  /\ status' = "thrown"
  /\ UNCHANGED <<setup, bound, taken, external, results>>

RoutingNext ==
  \/ Bind \/ Refuse \/ StartRun \/ TakeState \/ TakeExternal \/ TakeThrows
  \/ Finish \/ RunByName \/ NameMissing

RoutingSpec == RoutingInit /\ [][RoutingNext]_routingVars

-----------------------------------------------------------------------------
(***************************************************************************)
(* docs/design.md:51-68, pipeline.cpp:185-200, 564-592, 682-700: on every  *)
(* backend, with the feature bound or carried by the loop, a bundle with   *)
(* the exported graph gets each tensor under its own name, in and out.     *)
(***************************************************************************)
ExportedGraphIsServed ==
  graph = Exported[direction] =>
    /\ status \notin {"refused", "thrown"}
    /\ status = "named" =>
         /\ taken = graph.inputs
         /\ \A k \in 1..Len(Labels) : results[k] = Labels[k]

(***************************************************************************)
(* backend.hpp:35-37, 59-60: whatever graph a bundle holds, a run that is  *)
(* not refused fed the kept feature back from the output it was asked to   *)
(* keep to an input of the same type; and run() used every tensor of the   *)
(* host once and returned all outputs but the one it kept.                 *)
(***************************************************************************)
FeedbackIsSound ==
  status = "named" =>
    /\ \A b \in 1..Len(bound) : InRange(bound[b]) /\ SameType(bound[b])
    /\ ~Buffered =>
         /\ Len(taken) = external + Len(bound)
         /\ Len(results) + Len(bound) = Len(graph.outputs)
=============================================================================
