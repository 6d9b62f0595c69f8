--------------------------- MODULE MCTilePipeline ---------------------------
(***************************************************************************)
(* Blocks of two and four warps; up to three steps, so that a tile is used *)
(* a second time; up to seven channel tiles: whole blocks of both sizes,   *)
(* an incomplete last block and one that is half of the larger size.       *)
(***************************************************************************)
EXTENDS TilePipeline

SmallShapes ==
  [kind : {"pointwise", "spatial"}, channels : {2, 3, 4, 6}, reduction : 1..3,
   whole : BOOLEAN]

\* The spatial convolutions of the models fill the blocks of SpatialMma.
ModelShapes ==
  {s \in SmallShapes : s.kind = "spatial" /\ s.whole /\ s.channels % 2 = 0
                         => s.channels % 4 = 0 /\ s.reduction % 2 = 0}
=============================================================================
