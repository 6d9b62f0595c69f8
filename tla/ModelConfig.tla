---------------------------- MODULE ModelConfig ----------------------------
(***************************************************************************)
(* The model metadata of a bundle (mlvc::ModelConfig): what validate()     *)
(* accepts, and the GOP and QP schedule every frame loop derives from it.  *)
(*                                                                         *)
(* A configuration is a record.  The two std::optional<int> fields are     *)
(* sets of at most one integer.  The checks on names and on the pixel      *)
(* range, which no property depends on, are the one flag `described'.      *)
(***************************************************************************)
EXTENDS Integers, Sequences

\* std::numeric_limits<int>::max()
IntMax == 2147483647

(***************************************************************************)
(* What the JSON reader can hand to validate(): any integers.              *)
(***************************************************************************)
AtMostOne(S) == \A p, r \in S : p = r

ConfigFields ==
  [described : BOOLEAN,
   model_width : Int, model_height : Int,
   feature_channels : Int, latent_channels : Int, hyperprior_channels : Int,
   downsample_feature : Int, downsample_latent : Int,
   downsample_hyperprior : Int, y_scale_repeat : Int,
   qp_num : Int, total_qp_num : Int,
   frame_index_map : Seq(Int), qp_shift : Seq(Int),
   iframe_period : SUBSET Int, reset_period : SUBSET Int,
   disable_feature_reset : BOOLEAN]

RawConfig ==
  {c \in ConfigFields : AtMostOne(c.iframe_period) /\ AtMostOne(c.reset_period)}

PositiveDimensions(c) ==
  /\ c.model_width > 0
  /\ c.model_height > 0
  /\ c.feature_channels > 0
  /\ c.latent_channels > 0
  /\ c.hyperprior_channels > 0
  /\ c.downsample_feature > 0
  /\ c.downsample_latent > 0
  /\ c.downsample_hyperprior > 0
  /\ c.y_scale_repeat > 0

LatentSplit(c) ==
  /\ c.latent_channels % 2 = 0
  /\ c.latent_channels % c.y_scale_repeat = 0
  /\ c.latent_channels \div c.y_scale_repeat <= c.hyperprior_channels

\* Mutant: off by one at the end of qp_shift.
MapInRangeLoose(c) ==
  \A k \in 1..Len(c.frame_index_map) :
    c.frame_index_map[k] >= 0 /\ c.frame_index_map[k] <= Len(c.qp_shift)

\* Every entry of the frame map names an entry of qp_shift (0-based there).
MapInRange(c) ==
  \A k \in 1..Len(c.frame_index_map) :
    c.frame_index_map[k] >= 0 /\ c.frame_index_map[k] < Len(c.qp_shift)

\* No shift takes a base q-index past the last of the model's QPs.
ShiftInRange(c) ==
  \A k \in 1..Len(c.qp_shift) :
    c.qp_shift[k] >= 0 /\ c.qp_shift[k] <= c.total_qp_num - c.qp_num

\* ModelConfig::validate() returns; otherwise it throws.
Validate(c) ==
  /\ c.described
  /\ PositiveDimensions(c)
  /\ c.qp_num > 0
  /\ c.total_qp_num >= c.qp_num
  /\ LatentSplit(c)
  /\ c.frame_index_map # <<>>
  /\ c.qp_shift # <<>>
  /\ MapInRange(c)
  /\ ShiftInRange(c)
  /\ \A p \in c.iframe_period : p > 0
  /\ c.downsample_latent * c.downsample_hyperprior <= IntMax
  /\ c.disable_feature_reset
  /\ c.reset_period = {}

\* ModelConfig::frame_in_gop: without an I-frame period the GOP never ends.
FrameInGop(c, frame) ==
  IF c.iframe_period = {} THEN frame
  ELSE frame % (CHOOSE p \in c.iframe_period : TRUE)

\* The entry of frame_index_map, 0-based, that schedules a frame of the GOP.
MapSlot(c, gop_frame) ==
  ((gop_frame % Len(c.frame_index_map)) + 1) % Len(c.frame_index_map)

\* ModelConfig::q_index_shift
QIndexShift(c, gop_frame) ==
  c.qp_shift[c.frame_index_map[MapSlot(c, gop_frame) + 1] + 1]

\* The q-index the graphs are run with for the frame of that absolute number.
ShiftedQ(c, q_index, frame) == q_index + QIndexShift(c, FrameInGop(c, frame))

\* Mutant: the lower bound is not checked.
ValidQLoose(c, q_index) == q_index < c.qp_num

\* A q-index the options or the container may carry (validate_options, and
\* the range check of the decode loops).
ValidQ(c, q_index) == q_index >= 0 /\ q_index < c.qp_num
============================================================================
