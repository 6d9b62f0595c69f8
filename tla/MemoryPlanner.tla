---------------------------- MODULE MemoryPlanner ----------------------------
(***************************************************************************)
(* The planning half of the AotGraph constructor: after the model is       *)
(* loaded, tensors are moved out of the arena into buffers from which the  *)
(* schedule can do without copies.  Each function below is called once, in *)
(* this order, and takes the addresses the earlier ones have left.         *)
(***************************************************************************)
EXTENDS AotModel, EpilogueSlots

VARIABLES
  stage,    \* the constructor's next call, then "ready" or "refused"
  aliased,  \* aliased_input_slices_
  direct    \* direct_concat_values_

planVars == <<stage, aliased, direct>>

-----------------------------------------------------------------------------
\* Slices of a graph input: views into the input's buffer.
InputSlices ==
  {k \in NodeIds :
     /\ Node(k).op = "Slice"
     /\ Node(k).in[1] \in Inputs
     /\ Node(k).start \in 0..(Ch(Node(k).in[1]) - Ch(Node(k).out))}

PlanInputSliceAliases ==
  LET view(k) == Address(values[Node(k).in[1]].in, values[Node(k).in[1]].off + Node(k).start)
  IN /\ stage = "slices"
     /\ stage' = "epilogues"
     /\ aliased' = InputSlices
     /\ values' = [t \in DOMAIN values |->
          IF \E k \in InputSlices : Node(k).out = t
          THEN view(CHOOSE k \in InputSlices : Node(k).out = t) ELSE values[t]]
     /\ UNCHANGED <<modelVars, capacity, slotVars, direct>>

-----------------------------------------------------------------------------
\* A convolution and, right behind it, an Add or LeakyRelu of its result.
HasEpilogue(k) ==
  /\ k + 1 \in NodeIds
  /\ Node(k).op = "Conv"
  /\ Node(k + 1).op \in {"Add", "LeakyRelu"}
  /\ Node(k).out \in ToSet(Node(k + 1).in)

\* The loop over the nodes collects them in node order.
Epilogues ==
  LET upTo[k \in 0..Len(Nodes)] ==
        IF k = 0 THEN <<>>
        ELSE IF HasEpilogue(k) THEN Append(upTo[k - 1], k) ELSE upTo[k - 1]
  IN upTo[Len(Nodes)]

\* birth, death and bytes as the manifest's arena has them.
EpilogueInterval(k) ==
  [birth |-> k + 1, death |-> Death(graph, k + 1), size |-> Ch(Node(k + 1).out)]

\* plan_epilogue_buffers: devices that do not fuse keep the arena.
CollectEpilogues ==
  /\ stage = "epilogues"
  /\ \/ /\ major >= 8
        /\ intervals' = [i \in 1..Len(Epilogues) |-> EpilogueInterval(Epilogues[i])]
        /\ stage' = "slots"
     \/ /\ major < 8
        /\ stage' = "buffers"
        /\ UNCHANGED intervals
  /\ UNCHANGED <<modelVars, values, capacity, aliased, direct,
                 slot_deaths, slot_bytes, slot_of>>

PlaceEpilogue ==
  /\ stage = "slots"
  /\ PlaceInterval
  /\ UNCHANGED <<modelVars, values, capacity, planVars>>

AllocateEpilogues ==
  LET result(i) == Node(Epilogues[i] + 1).out
  IN /\ stage = "slots"
     /\ Len(slot_of) = Len(intervals)
     /\ stage' = "buffers"
     /\ capacity' = Over([s \in {Buffer("epilogue", n) : n \in SlotsInUse} |->
                            slot_bytes[s[2]]], capacity)
     /\ values' = [t \in DOMAIN values |->
          IF \E i \in Placed : result(i) = t
          THEN Address(Buffer("epilogue",
                 slot_of[CHOOSE i \in Placed : result(i) = t]), 0)
          ELSE values[t]]
     /\ UNCHANGED <<modelVars, slotVars, aliased, direct>>

-----------------------------------------------------------------------------
\* The operations of nodes k, k + 1, ... are those of ops.
OpsAt(k, ops) ==
  /\ k + Len(ops) - 1 \in NodeIds
  /\ \A i \in 1..Len(ops) : Node(k + i - 1).op = ops[i]

RegluOps == <<"Slice", "Slice", "Clip", "Mul">>
RegluResults == {Node(k + 3).out : k \in {n \in NodeIds : OpsAt(n, RegluOps)}}

SpatialConvolutions ==
  {k \in NodeIds : Node(k).op = "Conv" /\ Node(k).kind = "spatial"}

Largest(tensors) == IF tensors = {} THEN 0 ELSE Max({Ch(t) : t \in tensors})

\* plan_reglu_buffer and plan_spatial_buffers: one buffer of each kind, of
\* the largest size that any node needs.
PlanSharedBuffers ==
  LET spatial == IF major >= 8 THEN SpatialConvolutions ELSE {}
      gates == With(capacity, Buffer("reglu", 0), Largest(RegluResults))
      inputs == With(gates, Buffer("nhwc_in", 0), Largest({Node(k).in[1] : k \in spatial}))
      all == With(inputs, Buffer("nhwc_out", 0), Largest({Node(k).out : k \in spatial}))
  IN /\ stage = "buffers"
     /\ stage' = "concats"
     /\ capacity' = all
     /\ UNCHANGED <<modelVars, values, slotVars, aliased, direct>>

-----------------------------------------------------------------------------
ChannelOffset(node, i) == ChannelsBefore(graph, node, i)

\* An intermediate result whose only reader is the Concat.
IsRedirected(t) ==
  /\ t \notin graph.weights \cup Inputs \cup Outputs
  /\ Producers(t) # {}
  /\ Consumers(t) = 1

\* One Concat: its own buffer, and its parts produced in place.
RedirectParts(plan, k) ==
  LET node == Node(k)
      parts == {i \in 1..Len(node.in) : IsRedirected(node.in[i])}
      buffer == Buffer("concat", k)
      part(t) == CHOOSE i \in parts : node.in[i] = t
  IN IF node.op # "Concat" \/ parts = {} THEN plan
     ELSE [values |-> [t \in DOMAIN plan.values |->
             IF \E i \in parts : node.in[i] = t
             THEN Address(buffer, ChannelOffset(node, part(t)))
             ELSE IF t = node.out THEN Address(buffer, 0)
             ELSE plan.values[t]],
           capacity |-> With(plan.capacity, buffer, Ch(node.out)),
           direct |-> plan.direct \cup {node.in[i] : i \in parts}]

\* plan_direct_concat_buffers goes through the nodes from the last one.
PlanDirectConcatBuffers ==
  LET after[j \in 0..Len(Nodes)] ==
        IF j = 0 THEN [values |-> values, capacity |-> capacity, direct |-> {}]
        ELSE RedirectParts(after[j - 1], Len(Nodes) + 1 - j)
      plan == after[Len(Nodes)]
  IN /\ stage = "concats"
     /\ stage' = "state"
     /\ values' = plan.values
     /\ capacity' = plan.capacity
     /\ direct' = plan.direct
     /\ UNCHANGED <<modelVars, slotVars, aliased>>

-----------------------------------------------------------------------------
\* configure_state: the output of the final node may be fed back, to one input
\* of its shape.
FedBackOutputs == {b[2] : b \in graph.bindings}

\* Mutant: any output may be written in place, wherever its node is.
BindableAnywhere ==
  \A b \in graph.bindings :
    /\ b[1] \in Inputs
    /\ b[2] \in Outputs
    /\ \A c \in graph.bindings : b[1] = c[1] \/ b[2] = c[2] => b = c
    /\ Ch(b[1]) = Ch(b[2])

Bindable ==
  \A b \in graph.bindings :
    /\ b[1] \in Inputs
    /\ b[2] \in Outputs
    /\ \A c \in graph.bindings : b[1] = c[1] \/ b[2] = c[2] => b = c
    /\ Ch(b[1]) = Ch(b[2])
    /\ b[2] = Node(Len(Nodes)).out

ConfigureState ==
  /\ stage = "state"
  /\ \/ /\ Bindable
        /\ stage' = "ready"
        /\ values' = [t \in DOMAIN values |->
             IF t \in FedBackOutputs
             THEN InputBuffer((CHOOSE b \in graph.bindings : b[2] = t)[1])
             ELSE values[t]]
     \/ /\ ~Bindable
        /\ stage' = "refused"
        /\ UNCHANGED values
  /\ UNCHANGED <<modelVars, capacity, slotVars, aliased, direct>>

PlanInit ==
  /\ \E bundle \in Bundles : LoadModel(bundle)
  /\ major \in {7, 8}
  /\ stage = "slices"
  /\ aliased = {}
  /\ direct = {}
  /\ intervals = <<>>
  /\ slot_deaths = <<>>
  /\ slot_bytes = <<>>
  /\ slot_of = <<>>

Plan ==
  \/ PlanInputSliceAliases
  \/ CollectEpilogues
  \/ PlaceEpilogue
  \/ AllocateEpilogues
  \/ PlanSharedBuffers
  \/ PlanDirectConcatBuffers
  \/ ConfigureState
=============================================================================
