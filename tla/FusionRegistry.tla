--------------------------- MODULE FusionRegistry ---------------------------
(***************************************************************************)
(* The fused kernels of driver_cubin: for each, the chain of nodes it      *)
(* stands for, the conditions under which the matcher accepts the chain,   *)
(* and what the kernel reads and writes instead.                           *)
(*                                                                         *)
(* A launch is a set of work items that run in any order.  An item reads   *)
(* and writes cells, each given with the tensor channel it is meant to     *)
(* hold.  Items stand for one channel; different positions of a channel    *)
(* never meet in the element-wise kernels.                                 *)
(***************************************************************************)
EXTENDS MemoryPlanner

VARIABLES
  elided,  \* elided_schedule_nodes_
  baked    \* node -> the addresses in its CUTLASS parameters

fusionVars == <<elided, baked>>

Use(at, t, c) == <<Cell(at[t], c), <<t, c>>>>
Uses(at, t) == {Use(at, t, c) : c \in 1..Ch(t)}

Item(reads, writes) == [reads |-> reads, writes |-> writes]

\* A kernel whose every output may depend on all it reads.
Mixing(reads, writes) == {Item(reads, {}), Item({}, writes)}

\* What a step of the schedule does, unless it changes more.
Step(length, launches) ==
  [length |-> length, launches |-> launches, values |-> values,
   capacity |-> capacity, elided |-> elided, baked |-> baked]

\* The nodes from k on have these operands.
Chain(k, operands) ==
  \A i \in 1..Len(operands) : Node(k + i - 1).in = operands[i]

\* The results of the nodes from k on have these numbers of readers.
ReadBy(k, counts) ==
  \A i \in 1..Len(counts) : Consumers(Node(k + i - 1).out) = counts[i]

\* is_channel_slice, the end being given by the size of the result.
SlicesFrom(k, start) == Node(k).start = start

SizesAre(size, tensors) == \A t \in tensors : Ch(t) = size
Apart(t, others) == \A u \in others : ~RangesOverlap(t, u)
ApartOrSame(t, u) == RangesOverlap(t, u) => values[t] = values[u]

-----------------------------------------------------------------------------
Y0Ops == <<"Slice", "Slice", "Clip", "Reciprocal", "Mul", "Sub", "Mul",
           "Slice", "Slice", "Add", "Round", "Slice", "Slice", "Add",
           "Mul", "Add", "Mul", "Concat", "Concat">>

\* try_execute_y0_tail: normalise and quantise the first half of the latents
\* and prepare the prior of the second.
Y0Chain(k) ==
  LET o(j) == Node(k + j).out
      i(j) == Node(k + j).in
      prior == i(0)[1]
  IN Chain(k, <<<<prior>>, <<prior>>, <<o(0), i(2)[2]>>, <<o(2)>>, <<i(4)[1], o(3)>>,
       <<o(4), o(1)>>, <<o(5), i(6)[2]>>, <<o(6)>>, <<o(6)>>, <<o(7), o(8)>>,
       <<o(9)>>, <<o(1)>>, <<o(1)>>, <<o(10), o(11)>>, <<o(13), i(14)[2]>>,
       <<o(10), o(12)>>, <<o(15), i(16)[2]>>, <<o(14), o(16)>>, <<o(17), prior>>>>)

Y0Shapes(k) ==
  LET o(j) == Node(k + j).out
      i(j) == Node(k + j).in
      size == Ch(o(10))
  IN /\ SizesAre(size, {o(j) : j \in 7..16} \cup {i(14)[2], i(16)[2]})
     /\ SizesAre(2 * size, {i(4)[1], i(6)[2]} \cup {o(j) : j \in {0, 1, 2, 4, 6, 17}})
     /\ SizesAre(4 * size, {i(0)[1]})
     /\ SizesAre(6 * size, {o(18)})
     /\ SlicesFrom(k, 0) /\ SlicesFrom(k + 1, 2 * size)
     /\ \A j \in {7, 11} : SlicesFrom(k + j, 0) /\ SlicesFrom(k + j + 1, size)

Y0Aliases(k) ==
  LET prior == Node(k).in[1]
      latent == Node(k + 4).in[1]
      clipped == Node(k + 2).out
      normalized == Node(k + 4).out
      y_raw == Node(k + 10).out
      concat2 == Node(k + 17).out
      concat3 == Node(k + 18).out
  IN /\ Apart(concat3, {prior, latent, normalized, clipped})
     /\ Apart(concat2, {prior, normalized, clipped})
     /\ ApartOrSame(concat2, latent)
     /\ Apart(y_raw, {prior, normalized, clipped, concat2})
     /\ ApartOrSame(y_raw, latent)

MatchesY0Tail(k) ==
  /\ OpsAt(k, Y0Ops)
  /\ Y0Chain(k)
  /\ Consumers(Node(k).in[1]) = 3
  /\ ReadBy(k, <<1, 3, 2, 1, 2, 1, 2, 1, 1, 1, 2, 1, 1, 1, 1, 1, 1, 2>>)
  /\ ~graph.small
  /\ Y0Shapes(k)
  /\ Y0Aliases(k)

\* mlvc_y0_tail_fp16
Y0Launch(k) ==
  LET u(t, c) == Use(values, t, c)
      prior == Node(k).in[1]
      latent == Node(k + 4).in[1]
      concat3 == Node(k + 18).out
      size == Ch(Node(k + 10).out)
      both(t, c) == {u(t, c), u(t, size + c)}
  IN {Item(both(latent, c) \cup both(prior, c) \cup both(prior, 2 * size + c)
             \cup both(Node(k + 6).in[2], c)
             \cup {u(Node(k + 14).in[2], c), u(Node(k + 16).in[2], c)},
           both(Node(k + 4).out, c) \cup both(Node(k + 2).out, c)
             \cup both(Node(k + 17).out, c) \cup both(concat3, c)
             \cup {u(Node(k + 10).out, c)}) : c \in 1..size}
     \cup {Item({u(prior, c)}, {u(concat3, 2 * size + c)}) : c \in 1..(4 * size)}

Y0Tail(k) == Step(19, <<Y0Launch(k)>>)

-----------------------------------------------------------------------------
Y1Ops == <<"Sub", "Mul", "Slice", "Slice", "Add", "Round", "Slice", "Slice",
           "Add", "Mul", "Add", "Mul", "Concat", "Add", "Mul">>

\* try_execute_y1_tail: quantise the second half and join the two.
Y1Chain(k) ==
  LET o(j) == Node(k + j).out
      i(j) == Node(k + j).in
      prior == i(0)[2]
  IN Chain(k, <<<<i(0)[1], prior>>, <<o(0), i(1)[2]>>, <<o(1)>>, <<o(1)>>,
       <<o(2), o(3)>>, <<o(4)>>, <<prior>>, <<prior>>, <<o(5), o(6)>>,
       <<o(8), i(9)[2]>>, <<o(5), o(7)>>, <<o(10), i(11)[2]>>, <<o(9), o(11)>>,
       <<i(13)[1], o(12)>>, <<o(13), i(14)[2]>>>>)

Y1Shapes(k) ==
  LET o(j) == Node(k + j).out
      i(j) == Node(k + j).in
      size == Ch(o(5))
  IN /\ SizesAre(size, {o(j) : j \in 2..11} \cup {i(9)[2], i(11)[2]})
     /\ SizesAre(2 * size, {i(0)[1], i(0)[2], i(1)[2], i(13)[1], i(14)[2]}
                             \cup {o(j) : j \in {0, 1, 12, 13, 14}})
     /\ \A j \in {2, 6} : SlicesFrom(k + j, 0) /\ SlicesFrom(k + j + 1, size)

Y1Aliases(k) ==
  LET others == {Node(k).in[1], Node(k).in[2], Node(k + 14).in[2]}
      concat2 == Node(k + 13).in[1]
      y_raw == Node(k + 5).out
      result == Node(k + 14).out
  IN /\ Apart(y_raw, others \cup {concat2})
     /\ ApartOrSame(result, concat2)
     /\ Apart(result, others \cup {y_raw})

MatchesY1Tail(k) ==
  /\ OpsAt(k, Y1Ops)
  /\ Y1Chain(k)
  /\ ReadBy(k, <<1, 2, 1, 1, 1, 2, 1, 1, 1, 1, 1, 1, 1, 1, 1>>)
  /\ Consumers(Node(k).in[2]) = 3
  /\ Consumers(Node(k + 13).in[1]) = 2
  /\ Consumers(Node(k + 14).in[2]) = 2
  /\ ~graph.small
  /\ Y1Shapes(k)
  /\ Y1Aliases(k)

\* mlvc_y1_tail_fp16
Y1Launch(k) ==
  LET u(t, c) == Use(values, t, c)
      size == Ch(Node(k + 5).out)
      both(t, c) == {u(t, c), u(t, size + c)}
      pairs == {Node(k).in[1], Node(k).in[2], Node(k + 1).in[2],
                Node(k + 13).in[1], Node(k + 14).in[2]}
  IN {Item(UNION {both(t, c) : t \in pairs}
             \cup {u(Node(k + 9).in[2], c), u(Node(k + 11).in[2], c)},
           both(Node(k + 14).out, c) \cup {u(Node(k + 5).out, c)}) : c \in 1..size}

Y1Tail(k) == Step(15, <<Y1Launch(k)>>)

-----------------------------------------------------------------------------
FeatureOps == <<"Slice", "Slice", "Slice", "Sigmoid", "Sigmoid", "Mul",
                "Sub", "Mul", "Add", "Mul", "Mul">>

\* Blend the source with the history, gate and scale the result.
FeatureChain(k) ==
  LET o(j) == Node(k + j).out
      source == Node(k).in[1]
  IN Chain(k, <<<<source>>, <<source>>, <<source>>, <<o(1)>>, <<o(2)>>,
       <<o(3), Node(k + 5).in[2]>>, <<"one", o(3)>>, <<o(6), o(0)>>,
       <<o(5), o(7)>>, <<o(4), o(8)>>, <<o(9), Node(k + 10).in[2]>>>>)

FeatureShapes(k, result) ==
  LET size == Ch(Node(k).out)
  IN /\ SizesAre(size, {Node(k + j).out : j \in 0..10}
                         \cup {Node(k + 5).in[2], Node(k + 10).in[2]})
     /\ SizesAre(2 * size, {result})
     /\ SizesAre(3 * size, {Node(k).in[1]})
     /\ \A j \in 0..2 : SlicesFrom(k + j, j * size)

\* Each item writes its channel of all the results at once.
FeatureItem(k, c, writes) ==
  LET source == Node(k).in[1]
      size == Ch(Node(k).out)
  IN Item({Use(values, source, c), Use(values, source, size + c),
           Use(values, source, 2 * size + c), Use(values, Node(k + 5).in[2], c),
           Use(values, Node(k + 10).in[2], c)}, writes)

\* try_execute_feature_update: the concatenation follows at once.
MatchesFeatureUpdate(k) ==
  /\ OpsAt(k, FeatureOps \o <<"Concat">>)
  /\ FeatureChain(k)
  /\ Node(k + 11).in = <<Node(k + 10).out, Node(k + 8).out>>
  /\ ReadBy(k, <<1, 1, 1, 2, 1, 1, 1, 1, 2, 1, 1>>)
  /\ FeatureShapes(k, Node(k + 11).out)

FeatureUpdate(k) ==
  LET result == Node(k + 11).out
      size == Ch(Node(k).out)
  IN Step(12, <<{FeatureItem(k, c, {Use(values, result, c), Use(values, result, size + c)}) :
                   c \in 1..size}>>)

\* try_execute_feature_update_outputs: the parts have other readers, and the
\* concatenation comes later; it is written here and its node is elided.
FeatureConcats(k) ==
  {n \in NodeIds : n >= k + 11 /\ Node(n).op = "Concat"
                    /\ Node(n).in = <<Node(k + 10).out, Node(k + 8).out>>}

FeatureAliases(k) ==
  LET source == Node(k).in[1]
      history == Node(k + 5).in[2]
      scaled == Node(k + 10).out
      blended == Node(k + 8).out
  IN /\ Apart(blended, {scaled, source, history})
     /\ ApartOrSame(scaled, source)
     /\ Apart(scaled, {history})

MatchesFeatureOutputs(k) ==
  /\ OpsAt(k, FeatureOps)
  /\ FeatureChain(k)
  /\ ReadBy(k, <<1, 1, 1, 2, 1, 1, 1, 1, 2, 1, 2>>)
  /\ \E n \in FeatureConcats(k) :
       /\ FeatureConcats(k) = {n}
       /\ FeatureShapes(k, Node(n).out)
  /\ FeatureAliases(k)

\* Mutant: the result keeps the address it has in the arena, where other
\* tensors live until the elided node.
FeatureAddressInArena(n) == values[Node(n).out]

\* A bound state is written in place, any other result to its own buffer.
FeatureAddress(n) ==
  IF Node(n).out \in FedBackOutputs THEN values[Node(n).out]
  ELSE Address(Buffer("feature", n), 0)

FeatureOutputsItems(k, result, at) ==
  LET scaled == Node(k + 10).out
      size == Ch(scaled)
  IN {FeatureItem(k, c, {Use(at, scaled, c), Use(at, Node(k + 8).out, c),
        Use(at, result, c), Use(at, result, size + c)}) : c \in 1..size}

FeatureOutputs(k) ==
  LET n == CHOOSE m \in FeatureConcats(k) : TRUE
      result == Node(n).out
      at == [values EXCEPT ![result] = FeatureAddress(n)]
  IN [Step(11, <<FeatureOutputsItems(k, result, at)>>) EXCEPT
        !.values = at,
        !.capacity = IF result \in FedBackOutputs THEN @
                     ELSE With(@, at[result].in, Ch(result)),
        !.elided = @ \cup {n}]

-----------------------------------------------------------------------------
\* launch_cutlass_pointwise: the addresses of the operands and of the result
\* are put into a node's parameters at its first launch and kept.
Pointers(operands, result) ==
  [operands |-> [i \in DOMAIN operands |-> values[operands[i]]], result |-> values[result]]

Parameters(k, operands, result) ==
  IF k \in DOMAIN baked THEN baked[k] ELSE Pointers(operands, result)

UsesAt(address, t) == {<<Cell(address, c), <<t, c>>>> : c \in 1..Ch(t)}

\* A matrix product with its epilogue.  Only the kernels of the library keep
\* their parameters.
PointwiseStep(k, length, operands, result) ==
  LET at == IF Node(k).kind = "gemm" THEN Parameters(k, operands, result)
            ELSE Pointers(operands, result)
  IN [Step(length, <<Mixing(UNION {UsesAt(at.operands[i], operands[i]) : i \in DOMAIN operands},
                            UsesAt(at.result, result))>>)
        EXCEPT !.baked = IF Node(k).kind = "gemm" THEN With(@, k, at) ELSE @]

IsPointwise(k) == Node(k).op = "Conv" /\ Node(k).kind \in {"gemm", "wide"}

\* try_execute_pointwise_epilogue: the convolution writes what the Add or
\* LeakyRelu behind it was to write.
ResidualOf(k) == SelectSeq(Node(k + 1).in, LAMBDA t : t # Node(k).out)

\* Mutant: nothing is compared; two tensors of which one dies where the
\* other is born may have one address.
EpilogueAliasesUnchecked(k) == TRUE

EpilogueAliases(k) ==
  Apart(Node(k + 1).out, {Node(k).in[1]} \cup ToSet(ResidualOf(k)))

MatchesEpilogue(k) ==
  /\ major >= 8
  /\ HasEpilogue(k)
  /\ Node(k).out \notin Outputs
  /\ Consumers(Node(k).out) = 1
  /\ IsPointwise(k)
  /\ SizesAre(Ch(Node(k + 1).out), {Node(k).out} \cup ToSet(ResidualOf(k)))
  /\ EpilogueAliases(k)

PointwiseEpilogue(k) ==
  PointwiseStep(k, 2, Node(k).in \o ResidualOf(k), Node(k + 1).out)

-----------------------------------------------------------------------------
\* The gate of a ReGLU from node k on: half of x, clipped, times the rest.
IsReglu(k) ==
  LET o(j) == Node(k + j).out
      x == Node(k).in[1]
      size == Ch(o(3))
  IN /\ OpsAt(k, RegluOps)
     /\ Chain(k, <<<<x>>, <<x>>, <<o(0)>>, <<o(2), o(1)>>>>)
     /\ SizesAre(size, {o(0), o(1), o(2)})
     /\ SizesAre(2 * size, {x})
     /\ SlicesFrom(k, 0) /\ SlicesFrom(k + 1, size)

\* The result goes to the one ReGLU buffer unless it is part of a Concat.
RegluAddresses(result) ==
  IF result \in direct THEN values
  ELSE [values EXCEPT ![result] = Address(Buffer("reglu", 0), 0)]

RegluLaunch(k, at) ==
  LET x == Node(k).in[1]
      result == Node(k + 3).out
      size == Ch(result)
  IN {Item({Use(at, x, c), Use(at, x, size + c)}, {Use(at, result, c)}) : c \in 1..size}

\* try_execute_reglu
Reglu(k) ==
  LET at == RegluAddresses(Node(k + 3).out)
  IN [Step(4, <<RegluLaunch(k, at)>>) EXCEPT !.values = at]

\* try_execute_pointwise_reglu: with the convolution that makes x.
MatchesPointwiseReglu(k) ==
  /\ major >= 8
  /\ k + 1 \in NodeIds
  /\ IsPointwise(k)
  /\ IsReglu(k + 1)
  /\ Node(k + 1).in[1] = Node(k).out

\* The library computes x first; the project's own kernel leaves it out.
PointwiseReglu(k) ==
  LET result == Node(k + 4).out
      at == RegluAddresses(result)
      x == PointwiseStep(k, 5, Node(k).in, Node(k).out)
  IN IF Node(k).kind = "gemm"
     THEN [x EXCEPT !.values = at, !.launches = Append(@, RegluLaunch(k + 1, at))]
     ELSE [Step(5, <<Mixing(Uses(at, Node(k).in[1]), Uses(at, result))>>)
             EXCEPT !.values = at]
=============================================================================
