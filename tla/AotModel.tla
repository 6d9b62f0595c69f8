------------------------------ MODULE AotModel ------------------------------
(***************************************************************************)
(* The graph a model bundle holds for driver_cubin, the device memory it   *)
(* is executed in, and what each tensor has to contain.                    *)
(*                                                                         *)
(* Batches are of one picture and all planes have one size: a tensor is a  *)
(* row of channels, and memory is counted in channels.  An address is an   *)
(* allocation and an offset in it.  The content of a cell is abstract: the *)
(* channel of the tensor whose value it is, and the run it belongs to.     *)
(* Slice and Concat only move values, so a value is named after the tensor *)
(* that was first to have it.                                              *)
(***************************************************************************)
EXTENDS Integers, Sequences, FiniteSets, SequencesExt

CONSTANT Graphs  \* the manifests a bundle may hold

VARIABLES
  graph,     \* manifest_
  major,     \* compute_major of the device
  arena,     \* manifest_["arena"]: node -> offset of its output
  values,    \* values_: tensor -> address
  capacity,  \* allocation -> its size
  origin     \* tensor -> the values its channels have

modelVars == <<graph, major, arena, origin>>

Nodes == graph.nodes
NodeIds == 1..Len(Nodes)
Node(k) == Nodes[k]
Ch(t) == graph.channels[t]
Tensors(g) == DOMAIN g.channels
Inputs == ToSet(graph.inputs)
Outputs == ToSet(graph.outputs)

\* Channels of the inputs of a node before the i-th: where it starts in a Concat.
ChannelsBefore(g, node, i) ==
  LET before[j \in 0..(i - 1)] ==
        IF j = 0 THEN 0 ELSE before[j - 1] + g.channels[node.in[j]]
  IN before[i - 1]

\* compile_graph exports an ONNX graph, which is in single assignment form and
\* in the order of its data: a node makes one new tensor of what is there.
\* Its shapes are inferred in strict mode: a Concat is as long as its parts.
Manifest(g) ==
  /\ Len(g.nodes) \in Nat \ {0}
  /\ g.channels \in [Tensors(g) -> Nat \ {0}]
  /\ Tensors(g) = g.weights \cup ToSet(g.inputs) \cup {n.out : n \in ToSet(g.nodes)}
  /\ g.inputs \in Seq(Tensors(g))
  /\ \A k \in 1..Len(g.nodes) :
       /\ g.nodes[k].in \in Seq(Tensors(g)) \ {<<>>}
       /\ g.nodes[k].op = "Concat" =>
            ChannelsBefore(g, g.nodes[k], Len(g.nodes[k].in) + 1) = g.channels[g.nodes[k].out]
       /\ g.nodes[k].out \in Tensors(g) \ (g.weights \cup ToSet(g.inputs))
       /\ \A j \in 1..(k - 1) : g.nodes[j].out # g.nodes[k].out
       /\ ToSet(g.nodes[k].in) \subseteq
            g.weights \cup ToSet(g.inputs) \cup {g.nodes[j].out : j \in 1..(k - 1)}

ASSUME GraphsAssumption == \A g \in Graphs : Manifest(g)

Readers(g, t) == {k \in 1..Len(g.nodes) : t \in ToSet(g.nodes[k].in)}

\* consumer_count: how often nodes name t as an input.
Consumers(t) ==
  Cardinality({p \in UNION {{k} \X DOMAIN Node(k).in : k \in NodeIds} :
                 Node(p[1]).in[p[2]] = t})

Producers(t) == {k \in NodeIds : Node(k).out = t}

-----------------------------------------------------------------------------
(***************************************************************************)
(* plan_arena: best fit over the memory that no live tensor holds.         *)
(***************************************************************************)
Death(g, k) ==
  LET t == g.nodes[k].out
  IN IF t \in ToSet(g.outputs) THEN Len(g.nodes) + 1
     ELSE IF Readers(g, t) = {} THEN k ELSE Max(Readers(g, t))

\* The maximal runs of free cells, as pairs of first and last.
Blocks(free) ==
  {b \in free \X free :
     /\ b[1] <= b[2] /\ b[1]..b[2] \subseteq free
     /\ b[1] - 1 \notin free /\ b[2] + 1 \notin free}

\* Mutant: a result may take the room of one that its own node still reads.
PlaceInArenaEarly(g, plan, k) ==
  LET size == g.channels[g.nodes[k].out]
      live == UNION {plan.at[j]..(plan.at[j] + g.channels[g.nodes[j].out] - 1) :
                       j \in {i \in 1..(k - 1) : Death(g, i) > k}}
      fits == {b \in Blocks((0..(plan.end - 1)) \ live) : b[2] - b[1] + 1 >= size}
      best == CHOOSE b \in fits : \A c \in fits :
                \/ b[2] - b[1] < c[2] - c[1]
                \/ b[2] - b[1] = c[2] - c[1] /\ b[1] <= c[1]
  IN IF fits = {}
     THEN [at |-> Append(plan.at, plan.end), end |-> plan.end + size]
     ELSE [plan EXCEPT !.at = Append(@, best[1])]

PlaceInArena(g, plan, k) ==
  LET size == g.channels[g.nodes[k].out]
      live == UNION {plan.at[j]..(plan.at[j] + g.channels[g.nodes[j].out] - 1) :
                       j \in {i \in 1..(k - 1) : Death(g, i) >= k}}
      fits == {b \in Blocks((0..(plan.end - 1)) \ live) : b[2] - b[1] + 1 >= size}
      best == CHOOSE b \in fits : \A c \in fits :
                \/ b[2] - b[1] < c[2] - c[1]
                \/ b[2] - b[1] = c[2] - c[1] /\ b[1] <= c[1]
  IN IF fits = {}
     THEN [at |-> Append(plan.at, plan.end), end |-> plan.end + size]
     ELSE [plan EXCEPT !.at = Append(@, best[1])]

PlanArena(g) ==
  LET plan[k \in 0..Len(g.nodes)] ==
        IF k = 0 THEN [at |-> <<>>, end |-> 0]
        ELSE LET before == plan[k - 1] IN PlaceInArena(g, before, k)
  IN plan[Len(g.nodes)]

-----------------------------------------------------------------------------
(***************************************************************************)
(* What the tensors have to contain.                                       *)
(***************************************************************************)
Origins(g) ==
  LET node(t) == CHOOSE n \in ToSet(g.nodes) : n.out = t
      computed == {n.out : n \in ToSet(g.nodes)}
      own(t) == [c \in 1..g.channels[t] |-> <<t, c>>]
      from[t \in Tensors(g)] ==
        IF t \notin computed THEN own(t)
        ELSE CASE node(t).op = "Slice" ->
                    SubSeq(from[node(t).in[1]], node(t).start + 1,
                           node(t).start + g.channels[t])
               [] node(t).op = "Concat" ->
                    FlattenSeq([i \in 1..Len(node(t).in) |-> from[node(t).in[i]]])
               [] OTHER -> own(t)
  IN from

\* The output that is fed back to input t, if t is a recurrent state.
FedBack(t) == {o \in Outputs : <<t, o>> \in graph.bindings}

\* The value channel c of t has in run r; a state starts with zeroes.
Content(t, c, r) ==
  LET v == origin[t][c]
  IN IF v[1] \in graph.weights THEN <<v, 0>>
     ELSE IF FedBack(v[1]) = {} \/ r = 1 THEN <<v, r>>
     ELSE <<origin[CHOOSE o \in FedBack(v[1]) : TRUE][v[2]], r - 1>>

-----------------------------------------------------------------------------
Arena == <<"arena", 0>>
Buffer(kind, k) == <<kind, k>>

\* f, but e at d; f, and g beyond it (the provers know no :> and @@).
With(f, d, e) == [x \in DOMAIN f \cup {d} |-> IF x = d THEN e ELSE f[x]]
Over(f, g) == [x \in DOMAIN f \cup DOMAIN g |-> IF x \in DOMAIN f THEN f[x] ELSE g[x]]

Address(allocation, offset) == [in |-> allocation, off |-> offset]
Cell(address, c) == <<address.in, address.off + c - 1>>

InputIndex(t) == CHOOSE i \in 1..Len(graph.inputs) : graph.inputs[i] = t
InputBuffer(t) == Address(Buffer("input", InputIndex(t)), 0)

\* AotGraph::load_model: every tensor of the manifest gets its address.
FirstAddress(g, plan, t) ==
  IF t \in ToSet(g.inputs)
  THEN Address(Buffer("input", CHOOSE i \in 1..Len(g.inputs) : g.inputs[i] = t), 0)
  ELSE IF t \in g.weights THEN Address(Buffer("weights", t), 0)
  ELSE Address(Arena, plan.at[CHOOSE k \in 1..Len(g.nodes) : g.nodes[k].out = t])

\* A bundle: the manifest with the arena tools/model_aot.py has planned.
Bundles ==
  {[graph |-> g, plan |-> PlanArena(g), origin |-> Origins(g)] : g \in Graphs}

LoadModel(bundle) ==
  LET g == bundle.graph
      allocations == {Arena} \cup {Buffer("weights", t) : t \in g.weights}
                       \cup {Buffer("input", i) : i \in 1..Len(g.inputs)}
  IN /\ graph = g
     /\ arena = bundle.plan.at
     /\ origin = bundle.origin
     /\ values = [t \in Tensors(g) |-> FirstAddress(g, bundle.plan, t)]
     /\ capacity = [a \in allocations |->
                      IF a = Arena THEN bundle.plan.end
                      ELSE IF a[1] = "input" THEN g.channels[g.inputs[a[2]]]
                      ELSE g.channels[a[2]]]

\* AotGraph::ranges_overlap.
RangesOverlap(s, t) ==
  /\ values[s].in = values[t].in
  /\ values[s].off < values[t].off + Ch(t)
  /\ values[t].off < values[s].off + Ch(s)
=============================================================================
