---------------------------- MODULE GopSchedule ----------------------------
(***************************************************************************)
(* load_model_config followed by a frame loop's use of the schedule: which *)
(* metadata are accepted, and which table entries and shifted q-indexes    *)
(* the frames of a stream then reach.                                      *)
(***************************************************************************)
EXTENDS ModelConfig

CONSTANTS
  Candidates,  \* the metadata files a bundle may come with
  MaxFrame     \* bound: the last frame number looked at

ASSUME CandidatesAssumption == Candidates \subseteq RawConfig
ASSUME MaxFrameAssumption == MaxFrame \in Nat

VARIABLES
  config,   \* the metadata read
  loading,  \* "read", "accepted" or "rejected"
  q_index,  \* the q-index of the frame at hand
  frame     \* its absolute number

vars == <<config, loading, q_index, frame>>

Init ==
  /\ config \in Candidates
  /\ loading = "read"
  /\ q_index = 0
  /\ frame = 0

\* load_model_config: validate() returns or throws.
Load ==
  /\ loading = "read"
  /\ loading' = IF Validate(config) THEN "accepted" ELSE "rejected"
  /\ UNCHANGED <<config, q_index, frame>>

\* The next frame: the encoder's constant q-index, or the one it carries.
NextFrame ==
  /\ loading = "accepted"
  /\ frame < MaxFrame
  /\ frame' = frame + 1
  /\ q_index' \in {q \in (-1)..config.total_qp_num : ValidQ(config, q)}
  /\ UNCHANGED <<config, loading>>

\* The program stops on metadata it rejects, and at the bound.
Stop ==
  /\ loading = "rejected" \/ frame = MaxFrame
  /\ UNCHANGED vars

Next == Load \/ NextFrame \/ Stop

Spec == Init /\ [][Next]_vars

TypeOK ==
  /\ config \in RawConfig
  /\ loading \in {"read", "accepted", "rejected"}
  /\ q_index \in Nat
  /\ frame \in Nat

MapEntry == config.frame_index_map[MapSlot(config, FrameInGop(config, frame)) + 1]

(***************************************************************************)
(* model.cpp:151-162 with pipeline.cpp:407-409: for metadata that passed   *)
(* validate(), no .at() of q_index_shift throws and no frame of a stream   *)
(* reaches the "shifted q-index is outside the model range" error: shifts  *)
(* and QP ranges that are consistent at load stay so at every frame.       *)
(***************************************************************************)
ScheduleIsTotal ==
  loading = "accepted" =>
    /\ MapSlot(config, FrameInGop(config, frame))
         \in 0..(Len(config.frame_index_map) - 1)
    /\ MapEntry \in 0..(Len(config.qp_shift) - 1)
    /\ ShiftedQ(config, q_index, frame) \in 0..(config.total_qp_num - 1)
============================================================================
