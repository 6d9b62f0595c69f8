-------------------------- MODULE MCSequentialLoop --------------------------
(* A bundle with a GOP of three frames and two QP phases.                  *)
EXTENDS SequentialLoop

SmallConfig ==
  [described |-> TRUE, model_width |-> 8, model_height |-> 8,
   feature_channels |-> 2, latent_channels |-> 2, hyperprior_channels |-> 2,
   downsample_feature |-> 2, downsample_latent |-> 2,
   downsample_hyperprior |-> 2, y_scale_repeat |-> 1,
   qp_num |-> 2, total_qp_num |-> 4,
   frame_index_map |-> <<0, 1>>, qp_shift |-> <<0, 2>>,
   iframe_period |-> {3}, reset_period |-> {},
   disable_feature_reset |-> TRUE]
=============================================================================
