----------------------------- MODULE MCGraphPlan -----------------------------
EXTENDS GraphPlan

N(op, in, out) == [op |-> op, in |-> in, out |-> out, start |-> 0, kind |-> "plain"]
Cut(in, start, out) == [N("Slice", <<in>>, out) EXCEPT !.start = start]
Conv(kind, in, out) == [N("Conv", <<in>>, out) EXCEPT !.kind = kind]

Sized(n, tensors) == [t \in tensors |-> n]

G(nodes, channels, inputs, outputs) ==
  LET named == UNION {ToSet(nodes[k].in) \cup {nodes[k].out} : k \in 1..Len(nodes)}
  IN [nodes |-> nodes, channels |-> [t \in named \cup ToSet(inputs) |-> channels[t]],
      weights |-> {}, inputs |-> inputs, outputs |-> outputs, bindings |-> {},
      small |-> FALSE]

-----------------------------------------------------------------------------
\* Three convolutions, each with its Add or LeakyRelu, wired in every way.
After(conv, residual, out) ==
  IF residual = "none" THEN N("LeakyRelu", <<conv>>, out)
  ELSE N("Add", <<residual, conv>>, out)

Chains ==
  {G(<<Conv(kinds[1], "x", "a1"), After("a1", r1, "b1"),
       Conv(kinds[2], s2, "a2"), After("a2", r2, "b2"),
       Conv(kinds[3], s3, "a3"), After("a3", r3, "b3")>>,
     Sized(1, {"x"}) @@ Sized(ch[1], {"a1", "b1"})
       @@ Sized(ch[2], {"a2", "b2"}) @@ Sized(ch[3], {"a3", "b3"}),
     <<"x">>, outs) :
     kinds \in {<<"gemm", "wide", "gemm">>, <<"wide", "gemm", "spatial">>},
     ch \in {<<1, 1, 1>>, <<1, 1, 2>>},
     r1 \in {"x", "none"}, s2 \in {"x", "b1"}, r2 \in {"x", "b1", "none"},
     s3 \in {"x", "b1", "b2"}, r3 \in {"x", "b1", "b2", "none"},
     outs \in {<<"b3">>, <<"b1", "b3">>}}

SameSizes(g) ==
  \A k \in 1..Len(g.nodes) : g.nodes[k].op = "Add" =>
    \A t \in ToSet(g.nodes[k].in) : g.channels[t] = g.channels[g.nodes[k].out]

-----------------------------------------------------------------------------
\* Two feed-forward blocks, the gate right behind its convolution or not.
Gate(x, p, out) ==
  <<Cut(x, 0, p \o "l"), Cut(x, 1, p \o "r"), N("Clip", <<p \o "l">>, p \o "c"),
    N("Mul", <<p \o "c", p \o "r">>, out)>>

Block(kind, near, x, p) ==
  (IF near THEN <<Conv(kind, x, p \o "w")>> \o Gate(p \o "w", p, p \o "g")
   ELSE <<Conv(kind, x, p \o "w"), Conv("plain", x, p \o "s")>>
        \o Gate(p \o "w", p, p \o "g"))
  \o <<Conv(kind, p \o "g", p \o "h"), N("Add", <<p \o "h", x>>, p \o "o")>>

BlockSizes(p) ==
  Sized(2, {p \o "w"})
  @@ Sized(1, {p \o t : t \in {"l", "r", "c", "g", "h", "o", "s"}})

FeedForward ==
  {G(Block(kind1, near, "x", "p") \o Block(kind2, near, "po", "q"),
     Sized(1, {"x"}) @@ BlockSizes("p") @@ BlockSizes("q"), <<"x">>, <<"qo">>) :
     kind1 \in {"gemm", "wide"}, kind2 \in {"gemm", "wide", "plain"},
     near \in BOOLEAN}

\* Concatenations of gates, of concatenations and of inputs.
Joins ==
  {G(<<Conv("wide", "x", "w")>> \o Gate("w", "p", "g")
     \o <<Conv(kind, "x", "a"), N("Concat", <<"g", "a">>, "ga"),
          N("Concat", parts, "join"), Conv("plain", "join", "y")>>,
     Sized(1, {"x", "pl", "pr", "pc", "g", "a", "y"})
       @@ Sized(2, {"w", "ga"}) @@ Sized(Len(parts) + 1, {"join"}),
     <<"x">>, outs) :
     kind \in {"gemm", "spatial"}, outs \in {<<"y">>, <<"y", "a">>, <<"join">>},
     parts \in {<<"x", "ga">>, <<"ga", "x">>, <<"ga", "a">>, <<"a", "ga">>}}

-----------------------------------------------------------------------------
\* The two quantisation tails.
Y0Nodes(n) ==
  <<Cut("p", 0, "s0"), Cut("p", 2 * n, "s1"), N("Clip", <<"s0", "low">>, "clip"),
    N("Reciprocal", <<"clip">>, "rec"), N("Mul", <<"lat", "rec">>, "nrm"),
    N("Sub", <<"nrm", "s1">>, "d"), N("Mul", <<"d", "mask">>, "dm"),
    Cut("dm", 0, "h0"), Cut("dm", n, "h1"), N("Add", <<"h0", "h1">>, "sum"),
    N("Round", <<"sum">>, "y0"), Cut("s1", 0, "q0"), Cut("s1", n, "q1"),
    N("Add", <<"y0", "q0">>, "e0"), N("Mul", <<"e0", "m0">>, "f0"),
    N("Add", <<"y0", "q1">>, "e1"), N("Mul", <<"e1", "m1">>, "f1"),
    N("Concat", <<"f0", "f1">>, "cc"), N("Concat", <<"cc", "p">>, "pr")>>

Y1Nodes(n) ==
  <<N("Sub", <<"nrm", "p2">>, "D"), N("Mul", <<"D", "mask">>, "DM"),
    Cut("DM", 0, "H0"), Cut("DM", n, "H1"), N("Add", <<"H0", "H1">>, "Sum"),
    N("Round", <<"Sum">>, "y1"), Cut("p2", 0, "Q0"), Cut("p2", n, "Q1"),
    N("Add", <<"y1", "Q0">>, "E0"), N("Mul", <<"E0", "m1">>, "F0"),
    N("Add", <<"y1", "Q1">>, "E1"), N("Mul", <<"E1", "m0">>, "F1"),
    N("Concat", <<"F0", "F1">>, "CC"), N("Add", <<"cc", "CC">>, "all"),
    N("Mul", <<"all", "clip">>, "yhat")>>

TailSizes(n) ==
  Sized(1, {"low"}) @@ Sized(n, {"m0", "m1", "h0", "h1", "sum", "y0", "q0", "q1", "e0", "f0",
            "e1", "f1", "H0", "H1", "Sum", "y1", "Q0", "Q1", "E0", "F0", "E1", "F1"})
  @@ Sized(2 * n, {"mask", "s0", "s1", "clip", "rec", "nrm", "d", "dm", "cc", "lat",
               "p2", "D", "DM", "CC", "all", "yhat"})
  @@ Sized(4 * n, {"p"}) @@ Sized(6 * n, {"pr"})

FeatureNodes(n) ==
  <<Cut("src", 0, "g0"), Cut("src", n, "g1"), Cut("src", 2 * n, "g2"),
    N("Sigmoid", <<"g1">>, "t0"), N("Sigmoid", <<"g2">>, "t1"),
    N("Mul", <<"t0", "hist">>, "wt1"), N("Sub", <<"one", "t0">>, "inv"),
    N("Mul", <<"inv", "g0">>, "wt0"), N("Add", <<"wt1", "wt0">>, "bl"),
    N("Mul", <<"t1", "bl">>, "gt"), N("Mul", <<"gt", "scale">>, "sc")>>

FeatureSizes(n) ==
  Sized(1, {"one"}) @@ Sized(n, {"scale", "hist", "g0", "g1", "g2", "t0", "t1", "wt1", "inv",
            "wt0", "bl", "gt", "sc"})
  @@ Sized(2 * n, {"feature", "next"}) @@ Sized(3 * n, {"src"})

\* The encoder in small, with a first result that leaves holes in the arena.
Encoders ==
  {[G(<<Cut("feature", n, "hist"), Conv(kind, "x", "w")>>
      \o (IF first THEN <<Conv("wide", "w", "p"), Conv("wide", "w", "lat")>>
          ELSE <<Conv("wide", "w", "lat"), Conv("wide", "feature", "p")>>)
      \o Y0Nodes(n) \o <<Conv("wide", "pr", "p2")>> \o Y1Nodes(n)
      \o <<Conv(kind, "yhat", "src")>> \o FeatureNodes(n)
      \o <<N("Concat", <<"sc", "bl">>, "next")>>,
      TailSizes(n) @@ FeatureSizes(n) @@ Sized(1, {"x"}) @@ Sized(w, {"w"}),
      <<"x", "feature">>, <<"y0", "y1", "next">>)
    EXCEPT !.weights = {"low", "mask", "m0", "m1", "one", "scale"},
           !.bindings = bound,
           !.small = (w = 5)] :
     kind \in {"gemm", "spatial"}, first \in BOOLEAN, w \in {1, 2, 5}, n \in {1, 2},
     bound \in {{}, {<<"feature", "next">>}}}

\* The decoder in small: the parts of the new feature have other readers.
Decoders ==
  {[G(<<Cut("feature", n, "hist"), Conv(kind, "x", "w"), Conv("wide", "w", "src")>>
      \o FeatureNodes(n)
      \o <<Conv(kind, "sc", "r1"), N("LeakyRelu", <<"r1">>, "r2"),
           Conv("wide", "r2", "xhat"), N("Concat", <<"sc", "bl">>, "next")>>
      \o after,
      FeatureSizes(n) @@ Sized(1, {"x", "xhat", "end"}) @@ Sized(w, {"w", "r1", "r2"}),
      <<"x", "feature">>, outs)
    EXCEPT !.weights = {"one", "scale"}, !.bindings = bound] :
     kind \in {"gemm", "spatial"}, w \in {1, 2, 3}, n \in {1, 2},
     outs \in {<<"xhat", "next">>, <<"next", "xhat">>},
     after \in {<<>>, <<Conv("wide", "next", "end")>>, <<Conv("wide", "feature", "end")>>},
     bound \in {{}, {<<"feature", "next">>}}}

SmallGraphs ==
  {g \in Chains : SameSizes(g)} \cup FeedForward \cup Joins \cup Encoders \cup Decoders

=============================================================================
