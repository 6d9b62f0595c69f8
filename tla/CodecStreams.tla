---------------------------- MODULE CodecStreams ----------------------------
(***************************************************************************)
(* The streams around one call of encode_video or decode_video: the        *)
(* options, the peer that feeds the input stream, and the result that      *)
(* belongs to each frame of it.                                            *)
(*                                                                         *)
(* The networks are uninterpreted: the recurrent feature after a frame is  *)
(* the sequence of <<frame content, shifted q-index>> pairs the graph was  *)
(* run on since the reference was last zeroed, and the graph's output is   *)
(* that same sequence.  Two results are equal only if the graph saw the    *)
(* same inputs and the same reference.  The content of frame i of the      *)
(* input is the number i itself.                                           *)
(***************************************************************************)
EXTENDS ModelConfig

CONSTANTS
  Config,       \* the metadata of the loaded bundle
  Directions,   \* TRUE for calls of encode_video, FALSE for decode_video
  QChoices,     \* the q-indexes an input may carry, valid or not
  FrameLimits,  \* the values of --frames; 0 is "until the input ends"
  MaxFrames     \* bound: frames the input source produces

ASSUME ConfigAssumption == Config \in RawConfig /\ Validate(Config)
ASSUME DirectionsAssumption == Directions \subseteq BOOLEAN
ASSUME SourceAssumption ==
  /\ QChoices \subseteq Int
  /\ FrameLimits \subseteq Nat
  /\ MaxFrames \in Nat

VARIABLES
  options,  \* the function called, and its CodecOptions: frame limit,
            \* q-index, kind of output stream
  input,    \* the frames that have arrived on the input stream
  tail      \* "open", or how the input ended: "eof" or "truncated"

sourceVars == <<options, input, tail>>

(***************************************************************************)
(* The input stream.  A frame of an MLVC stream carries its q-index; a YUV *)
(* frame is stamped with options.q_index.  `codable' says whether the      *)
(* entropy coder accepts the frame: encode() refuses latents that are not  *)
(* finite 16-bit values, decode_into() a payload that is not a whole rANS  *)
(* stream.                                                                 *)
(***************************************************************************)
Frame == [q : QChoices, codable : BOOLEAN]

\* --q-index, which validate_options checks and only the encoder reads.
QOptions(encoding) ==
  IF encoding THEN {q \in QChoices : ValidQ(Config, q)} ELSE {0}

\* stream: streaming_path(output_path).  sink_fails: writing or flushing the
\* output may fail from now on (disk full, peer gone).
Options ==
  {o \in [encoding : Directions, frames : FrameLimits, q_index : QChoices \cup {0},
          stream : BOOLEAN, sink_fails : BOOLEAN] : o.q_index \in QOptions(o.encoding)}

Encoding == options.encoding

SourceType ==
  /\ options \in Options
  /\ input \in Seq(Frame)
  /\ tail \in {"open", "eof", "truncated"}

SourceInit ==
  /\ options \in Options
  /\ input = <<>>
  /\ tail = "open"

\* The peer that feeds the input stream sends one more complete frame.
Produce ==
  /\ tail = "open"
  /\ Len(input) < MaxFrames
  /\ \E f \in Frame :
       /\ Encoding => f.q = options.q_index
       /\ input' = Append(input, f)
  /\ UNCHANGED <<options, tail>>

\* The peer closes its end, at a frame boundary or in the middle of a frame.
Close ==
  /\ tail = "open"
  /\ tail' \in {"eof", "truncated"}
  /\ UNCHANGED <<options, input>>

Source == Produce \/ Close

(***************************************************************************)
(* The right result for frame i, counted from 0 as the loops count.        *)
(***************************************************************************)
Step(i) == <<i, ShiftedQ(Config, input[i + 1].q, i)>>

\* The frames of i's GOP up to i, in order, each with its own QP phase.
Chain(i) ==
  LET g == FrameInGop(Config, i) IN [k \in 1..(g + 1) |-> Step(i - g + k - 1)]

\* What is written for frame i: an EncodedFrame, or the reconstructed picture.
Result(i) ==
  IF Encoding THEN [q_index |-> options.q_index, latents |-> Chain(i)]
  ELSE Chain(i)

\* All the frames the options ask for, once the input has ended well.
LimitReached(n) == options.frames # 0 /\ n >= options.frames

FrameFaulty(f) == ~f.codable \/ ~ValidQ(Config, f.q)

\* A call may fail for these reasons and for no other.
Excuse ==
  \/ tail = "truncated"
  \/ \E k \in 1..Len(input) : FrameFaulty(input[k])
  \/ options.sink_fails
=============================================================================
