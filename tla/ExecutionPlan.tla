---------------------------- MODULE ExecutionPlan ----------------------------
(***************************************************************************)
(* The schedule of driver_cubin: which kernel a node, or the chain that    *)
(* starts with it, is launched as.                                         *)
(***************************************************************************)
EXTENDS FusionRegistry

\* binary and unary kernels: a channel of the result from one of each
\* operand; an operand of one channel is broadcast.
ElementItems(k) ==
  LET operands == ToSet(Node(k).in)
      result == Node(k).out
  IN {Item({Use(values, t, IF Ch(t) = 1 THEN 1 ELSE c) : t \in operands},
           {Use(values, result, c)}) : c \in 1..Ch(result)}

\* A slice that is a view of an input needs no launch.
SliceItems(k) ==
  {Item({Use(values, Node(k).in[1], Node(k).start + c)},
        {Use(values, Node(k).out, c)}) : c \in 1..Ch(Node(k).out)}

SliceLaunches(k) == IF k \in aliased THEN <<>> ELSE <<SliceItems(k)>>

\* A part that was produced where it belongs.
InPlace(node, i) ==
  values[node.in[i]] =
    Address(values[node.out].in, values[node.out].off + ChannelOffset(node, i))

\* One launch per part; one that is in place has nothing to copy.
ConcatItems(node, i) ==
  IF InPlace(node, i) THEN {}
  ELSE {Item({Use(values, node.in[i], c)},
             {Use(values, node.out, ChannelOffset(node, i) + c)}) : c \in 1..Ch(node.in[i])}

ConcatLaunches(k) == [i \in 1..Len(Node(k).in) |-> ConcatItems(Node(k), i)]

\* launch_cutlass_spatial: between two transpositions.
SpatialLaunches(k) ==
  LET x == Node(k).in[1]
      result == Node(k).out
      in == UsesAt(Address(Buffer("nhwc_in", 0), 0), x)
      out == UsesAt(Address(Buffer("nhwc_out", 0), 0), result)
  IN <<Mixing(Uses(values, x), in), Mixing(in, out), Mixing(out, Uses(values, result))>>

MixingLaunches(k) ==
  <<Mixing(UNION {Uses(values, t) : t \in ToSet(Node(k).in)}, Uses(values, Node(k).out))>>

Launches(k) ==
  CASE Node(k).op \in {"Add", "Mul", "Sub", "LeakyRelu", "Clip", "Sigmoid",
                       "Reciprocal", "Round"} -> <<ElementItems(k)>>
    [] Node(k).op = "Slice" -> SliceLaunches(k)
    [] Node(k).op = "Concat" -> ConcatLaunches(k)
    [] Node(k).op = "Conv" /\ Node(k).kind = "spatial" /\ major >= 8 -> SpatialLaunches(k)
    [] OTHER -> MixingLaunches(k)

\* execute: one node by itself.
Execute(k) ==
  IF Node(k).op = "Conv" /\ Node(k).kind = "gemm" /\ major >= 8
  THEN PointwiseStep(k, 1, Node(k).in, Node(k).out)
  ELSE Step(1, Launches(k))

\* execute_schedule: the chains are tried in this order.
ScheduleAt(k) ==
  IF k \in elided THEN Step(1, <<>>)
  ELSE IF MatchesY0Tail(k) THEN Y0Tail(k)
  ELSE IF MatchesY1Tail(k) THEN Y1Tail(k)
  ELSE IF MatchesFeatureOutputs(k) THEN FeatureOutputs(k)
  ELSE IF MatchesFeatureUpdate(k) THEN FeatureUpdate(k)
  ELSE IF MatchesPointwiseReglu(k) THEN PointwiseReglu(k)
  ELSE IF MatchesEpilogue(k) THEN PointwiseEpilogue(k)
  ELSE IF IsReglu(k) THEN Reglu(k)
  ELSE Execute(k)
=============================================================================
