--------------------------- MODULE MCLatentStream ---------------------------
(* Two families of metadata: every kind of inconsistency in the QP         *)
(* schedule on tiny planes, and odd planes with several kinds of tensors.  *)
EXTENDS LatentStream

Metadata(qps, total, map, shifts, period) ==
  [described |-> TRUE, model_width |-> 2, model_height |-> 2,
   feature_channels |-> 2, latent_channels |-> 2, hyperprior_channels |-> 2,
   downsample_feature |-> 2, downsample_latent |-> 2,
   downsample_hyperprior |-> 2, y_scale_repeat |-> 1,
   qp_num |-> qps, total_qp_num |-> total,
   frame_index_map |-> map, qp_shift |-> shifts,
   iframe_period |-> period, reset_period |-> {},
   disable_feature_reset |-> TRUE]

ScheduleCandidates ==
  {Metadata(qps, total, map, shifts, period) :
     qps \in 0..2, total \in 1..4,
     map \in {<<>>, <<0>>, <<1, 0>>, <<0, 2, 1>>, <<-1>>},
     shifts \in {<<>>, <<0>>, <<0, 1>>, <<0, 2, 1>>, <<-1, 2>>},
     period \in {{}, {0}, {3}}}

\* Planes of 5 by 3 over 3 by 2, or 3 by 4 over 1 by 2; a scale for one, two
\* or three channels, with halves of three channels.
Planes == [Metadata(2, 2, <<0>>, <<0>>, {}) EXCEPT
             !.model_height = 9, !.model_width = 5, !.latent_channels = 6]

PlaneCandidates ==
  {[Planes EXCEPT !.y_scale_repeat = 2, !.hyperprior_channels = 3],
   [Planes EXCEPT !.y_scale_repeat = 1, !.hyperprior_channels = 6],
   [Planes EXCEPT !.y_scale_repeat = 3, !.hyperprior_channels = 4,
                  !.model_height = 6, !.model_width = 7,
                  !.downsample_hyperprior = 3],
   [Planes EXCEPT !.y_scale_repeat = 4, !.hyperprior_channels = 3]}

SmallCandidates == ScheduleCandidates \cup PlaneCandidates

\* Every cell of z has a magnitude of its own, of both signs and with halves;
\* beyond its first channels most are past the last of the scales.
Ramp(c) ==
  [cell \in ZCells(c) |->
     (IF (cell[1] + cell[2] + cell[3]) % 2 = 0 THEN 1 ELSE -1)
       * (12 * cell[1] + 4 * cell[2] + 2 * cell[3] + (cell[1] % 2) + 1)]

Same(cells, v) == [cell \in cells |-> v]

SmallLatents(c) ==
  IF c \in PlaneCandidates
  THEN LET y == [cell \in YCells(c) |-> cell[2] - 2 * cell[3] - 5 * cell[1]]
       IN {[z |-> Ramp(c), y0 |-> y, y1 |-> Same(YCells(c), 65534)],
           [z |-> Same(ZCells(c), -1), y0 |-> Same(YCells(c), -65536), y1 |-> y],
           [z |-> Ramp(c), y0 |-> y, y1 |-> Same(YCells(c), 65536)]}
  ELSE {[z |-> Ramp(c), y0 |-> Same(YCells(c), 3), y1 |-> Same(YCells(c), -3)]}

FittingPmf(c) ==
  [index_space |-> TRUE, scale_levels |-> 12, y_tables |-> 12,
   qp_num |-> c.total_qp_num, channels |-> c.hyperprior_channels,
   z_tables |-> c.total_qp_num * c.hyperprior_channels]

SmallPmfs(c) ==
  {FittingPmf(c)} \cup
  (IF c \in PlaneCandidates
   THEN {[FittingPmf(c) EXCEPT !.index_space = FALSE],
         [FittingPmf(c) EXCEPT !.y_tables = 11],
         [FittingPmf(c) EXCEPT !.qp_num = 1, !.z_tables = c.hyperprior_channels],
         [FittingPmf(c) EXCEPT !.z_tables = 1]}
   ELSE {})

SmallLimit(c) == IF c \in PlaneCandidates THEN 2 ELSE MaxFrame
=============================================================================
