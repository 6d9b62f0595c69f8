---------------------------- MODULE LatentStream ----------------------------
(***************************************************************************)
(* The way of a frame's latents through the entropy coder and the frame    *)
(* container.  One EntropyCodec pushes the three tensors of each frame on  *)
(* a rANS stream and the frame is written to the container; the container  *)
(* ends anywhere (refused frame, full disk, lost tail); another            *)
(* EntropyCodec pops them again.  The Gaussian tables of the y tensors are *)
(* not stored: both sides derive them from z.                              *)
(*                                                                         *)
(* Numbers of a tensor are counted in halves, so that 3 is the half-float  *)
(* 1.5.  A rANS payload is the stack of its messages: a message comes out  *)
(* as it went in when the same tables are used, and as noise otherwise.    *)
(***************************************************************************)
EXTENDS GopSchedule

CONSTANTS
  Pmfs(_),       \* the PMF files that may lie beside a configuration
  Latents(_),    \* the tensors its encoder graph may return: z, y0 and y1
  FrameLimit(_)  \* bound: the frames encoded for a configuration

VARIABLES
  pmf,      \* the PMF files read
  pc,       \* what the two calls are doing
  sent,     \* the frames encoded (history): q-index and tensors
  file,     \* the frames handed to write_encoded_frame
  pieces,   \* how much of them is in the container, in quarters of a frame
  decoded   \* the frames decoded

streamVars == <<vars, pmf, pc, sent, file, pieces, decoded>>

-----------------------------------------------------------------------------
(***************************************************************************)
(* The planes of the model.                                                *)
(***************************************************************************)
DivideUp(a, b) == (a + b - 1) \div b

LatentHeight(c) == DivideUp(c.model_height, c.downsample_latent)
LatentWidth(c) == DivideUp(c.model_width, c.downsample_latent)

HyperpriorHeight(c) ==
  DivideUp(c.model_height, c.downsample_latent * c.downsample_hyperprior)
HyperpriorWidth(c) ==
  DivideUp(c.model_width, c.downsample_latent * c.downsample_hyperprior)

\* The cells of a tensor: channel, row and column.
Cells(channels, height, width) ==
  (0..(channels - 1)) \X (0..(height - 1)) \X (0..(width - 1))

HalfChannels(c) == c.latent_channels \div 2

YCells(c) == Cells(HalfChannels(c), LatentHeight(c), LatentWidth(c))
ZCells(c) == Cells(c.hyperprior_channels, HyperpriorHeight(c), HyperpriorWidth(c))

\* What the constructor reads of the two PMF files, and the shapes that
\* validate_fp16_tensor demands of the three tensors.
PmfFile ==
  [index_space : BOOLEAN, scale_levels : Int, y_tables : Int, qp_num : Int,
   channels : Int, z_tables : Int]
Tensors(c) ==
  [z : [ZCells(c) -> Int], y0 : [YCells(c) -> Int], y1 : [YCells(c) -> Int]]

ASSUME PmfsAssumption == \A c \in Candidates : Pmfs(c) \subseteq PmfFile
ASSUME LatentsAssumption ==
  \A c \in Candidates : Validate(c) => Latents(c) \subseteq Tensors(c)

-----------------------------------------------------------------------------
(***************************************************************************)
(* Symbols and tables.                                                     *)
(***************************************************************************)
Magnitude(v) == IF v < 0 THEN -v ELSE v

\* static_cast<std::int32_t>(value)
Truncated(v) == IF v < 0 THEN -((-v) \div 2) ELSE v \div 2

\* integer_values takes finite values of the signed 16-bit range only.
Symbols(tensor) == [cell \in DOMAIN tensor |-> Truncated(tensor[cell])]
IsCodable(tensor) ==
  \A cell \in DOMAIN tensor : tensor[cell] >= 2 * (-32768) /\ tensor[cell] <= 2 * 32767

\* fp16_values: a symbol was the whole part of a half-float and is one again.
Values(symbols) == [cell \in DOMAIN symbols |-> 2 * symbols[cell]]

\* One table of the bit estimator per q-index and channel.
ZIndices(c, q) == [cell \in ZCells(c) |-> q * pmf.channels + cell[1]]

Smaller(a, b) == IF a < b THEN a ELSE b

\* Mutant: rounded to the nearest, where the symbol of z is truncated.
BaseScaleRounded(c, z, cell) ==
  Smaller((Magnitude(z[cell]) + 1) \div 2, pmf.scale_levels - 1)

\* The clamped whole part of |z|, the Gaussian table of the cells it covers.
BaseScale(c, z, cell) == Smaller(Truncated(Magnitude(z[cell])), pmf.scale_levels - 1)

\* Mutant: the second half starts at a scale of its own.
SecondChannelOffset(c, channel) ==
  (channel \div c.y_scale_repeat) + (HalfChannels(c) \div c.y_scale_repeat)

\* The scale of a channel of the second half.
SecondChannel(c, channel) == (channel + HalfChannels(c)) \div c.y_scale_repeat

\* The scale of a y cell in the first half of the channels, and in the second.
FirstScale(c, z, cell) ==
  BaseScale(c, z, <<cell[1] \div c.y_scale_repeat,
    Smaller(cell[2] \div c.downsample_hyperprior, HyperpriorHeight(c) - 1),
    Smaller(cell[3] \div c.downsample_hyperprior, HyperpriorWidth(c) - 1)>>)
SecondScale(c, z, cell) ==
  BaseScale(c, z, <<SecondChannel(c, cell[1]),
    Smaller(cell[2] \div c.downsample_hyperprior, HyperpriorHeight(c) - 1),
    Smaller(cell[3] \div c.downsample_hyperprior, HyperpriorWidth(c) - 1)>>)

Checkerboard0(cell) == (cell[2] + cell[3]) % 2 = 0

\* extract_scales: y0 has the first half's scale on the even cells.
Scales0(c, z) ==
  [cell \in YCells(c) |->
     IF Checkerboard0(cell) THEN FirstScale(c, z, cell) ELSE SecondScale(c, z, cell)]
Scales1(c, z) ==
  [cell \in YCells(c) |->
     IF Checkerboard0(cell) THEN SecondScale(c, z, cell) ELSE FirstScale(c, z, cell)]

-----------------------------------------------------------------------------
(***************************************************************************)
(* The rANS stream: encoding pushes messages, decoding pops them.          *)
(***************************************************************************)
Message(tables, tensor) == [tables |-> tables, symbols |-> Symbols(tensor)]

\* EntropyCodec::encode: y1, y0, z, each on top of the one before.
Payload(c, latents, q) ==
  <<Message(ZIndices(c, q), latents.z),
    Message(Scales0(c, latents.z), latents.y0),
    Message(Scales1(c, latents.z), latents.y1)>>

\* Popped with those tables, all of them among the coder's.
Readable(message, tables, count) ==
  /\ message.tables = tables
  /\ \A cell \in DOMAIN tables : tables[cell] \in 0..(count - 1)

\* EntropyCodec::decode_into: z first, whose values are the tables of y.
Unpacked(c, payload, q) ==
  LET z == Values(payload[1].symbols)
  IN IF /\ Readable(payload[1], ZIndices(c, q), pmf.z_tables)
        /\ Readable(payload[2], Scales0(c, z), pmf.y_tables)
        /\ Readable(payload[3], Scales1(c, z), pmf.y_tables)
     THEN [q |-> q, z |-> z, y0 |-> Values(payload[2].symbols),
           y1 |-> Values(payload[3].symbols)]
     ELSE [q |-> q, z |-> "noise"]

-----------------------------------------------------------------------------
StreamInit ==
  /\ Init
  /\ pmf \in Pmfs(config)
  /\ pc = "open"
  /\ sent = <<>>
  /\ file = <<>>
  /\ pieces = 0
  /\ decoded = <<>>

LoadConfig == Load /\ UNCHANGED <<pmf, pc, sent, file, pieces, decoded>>

\* The tables belong to the model.
PmfFits ==
  /\ pmf.index_space
  /\ pmf.scale_levels > 0 /\ pmf.y_tables = pmf.scale_levels
  /\ pmf.qp_num = config.total_qp_num
  /\ pmf.channels = config.hyperprior_channels
  /\ pmf.z_tables = pmf.qp_num * pmf.channels

\* The constructors of the two EntropyCodecs.
Open ==
  /\ pc = "open"
  /\ loading = "accepted"
  /\ pc' = IF PmfFits THEN "encode" ELSE "refused"
  /\ UNCHANGED <<vars, pmf, sent, file, pieces, decoded>>

(***************************************************************************)
(* EntropyCodec::encode and write_encoded_frame.  Everything that can be   *)
(* wrong with the tensors is looked at before the first push.              *)
(***************************************************************************)
EncodeFrame ==
  /\ pc = "encode"
  /\ Len(sent) < FrameLimit(config)
  /\ NextFrame
  /\ \E latents \in Latents(config) :
       IF \A tensor \in {latents.z, latents.y0, latents.y1} : IsCodable(tensor)
       THEN /\ sent' = Append(sent, [q |-> q_index', latents |-> latents])
            /\ file' = Append(file, [q |-> q_index',
                                     payload |-> Payload(config, latents, q_index')])
            /\ \E part \in 1..4 :
                 /\ pieces' = pieces + part
                 /\ pc' = IF part < 4 THEN "encoded" ELSE "encode"
       ELSE pc' = "encoded" /\ UNCHANGED <<sent, file, pieces>>
  /\ UNCHANGED <<pmf, decoded>>

EndOfVideo ==
  /\ pc = "encode"
  /\ pc' = "encoded"
  /\ UNCHANGED <<vars, pmf, sent, file, pieces, decoded>>

\* The container loses its tail before it is read.
Transfer ==
  /\ pc = "encoded"
  /\ pieces' \in 0..pieces
  /\ pc' = "decode"
  /\ UNCHANGED <<vars, pmf, sent, file, decoded>>

\* Header and payload are two quarters each.
Left == pieces - 4 * Len(decoded)

\* read_encoded_frame: nothing at all is the end, a part of a frame an error.
ReadFrame ==
  /\ pc = "decode"
  /\ pc' = CASE Left = 0 -> "ended"
             [] Left \in 1..3 -> "truncated"
             [] OTHER -> "read"
  /\ UNCHANGED <<vars, pmf, sent, file, pieces, decoded>>

DecodeFrame ==
  /\ pc = "read"
  /\ LET encoded == file[Len(decoded) + 1]
     IN decoded' = Append(decoded, Unpacked(config, encoded.payload, encoded.q))
  /\ pc' = "decode"
  /\ UNCHANGED <<vars, pmf, sent, file, pieces>>

StreamStop ==
  /\ loading = "rejected" \/ pc \in {"refused", "ended", "truncated"}
  /\ UNCHANGED streamVars

StreamNext ==
  \/ LoadConfig \/ Open \/ EncodeFrame \/ EndOfVideo \/ Transfer
  \/ ReadFrame \/ DecodeFrame \/ StreamStop

StreamSpec == StreamInit /\ [][StreamNext]_streamVars

-----------------------------------------------------------------------------
(***************************************************************************)
(* entropy.cpp:292-322 and 348-390 with bitstream.cpp:27-48: every frame   *)
(* that is decoded has the whole parts of the tensors encoded at that      *)
(* place and their q-index, although the tables of y are never stored; the *)
(* container ends cleanly exactly between two frames, and is reported      *)
(* truncated exactly inside one, after all the complete ones.              *)
(***************************************************************************)
LatentsSurvive ==
  /\ \A k \in 1..Len(decoded) :
       decoded[k] =
         [q |-> sent[k].q, z |-> Values(Symbols(sent[k].latents.z)),
          y0 |-> Values(Symbols(sent[k].latents.y0)),
          y1 |-> Values(Symbols(sent[k].latents.y1))]
  /\ pc \in {"ended", "truncated"} =>
       /\ Len(decoded) = pieces \div 4
       /\ (pc = "ended") = (pieces % 4 = 0)

(***************************************************************************)
(* The reference of docs/design.md:92-103: |z| repeated over channels and  *)
(* plane, cropped to the plane of y, clipped, and split by two masks that  *)
(* swap their checkerboards in the second half of the channels; the        *)
(* numbers become indices only at the end.                                 *)
(***************************************************************************)
Upsampled(c, z) ==
  [cell \in Cells(c.latent_channels, HyperpriorHeight(c) * c.downsample_hyperprior,
                  HyperpriorWidth(c) * c.downsample_hyperprior) |->
     Smaller(Magnitude(z[<<cell[1] \div c.y_scale_repeat,
                           cell[2] \div c.downsample_hyperprior,
                           cell[3] \div c.downsample_hyperprior>>]),
             2 * (pmf.scale_levels - 1))]

Mask(c, half, cell) ==
  IF (cell[2] + cell[3] + half + (cell[1] \div HalfChannels(c))) % 2 = 0
  THEN 1 ELSE 0

ReferenceScales(c, z, half) ==
  LET s == Upsampled(c, z)
      other(cell) == <<cell[1] + HalfChannels(c), cell[2], cell[3]>>
  IN [cell \in YCells(c) |->
        Truncated(Mask(c, half, cell) * s[cell]
                  + Mask(c, half, other(cell)) * s[other(cell)])]

(***************************************************************************)
(* scales.cpp:20-83: the tables y is pushed with are the reference's, for  *)
(* planes that the hyperprior does not divide and channels whose halves do *)
(* not start at a scale of their own, so that another implementation reads *)
(* the container.                                                          *)
(***************************************************************************)
ScalesAreReference ==
  \A k \in 1..Len(file) :
    LET z == sent[k].latents.z
    IN /\ file[k].payload[2].tables = ReferenceScales(config, z, 0)
       /\ file[k].payload[3].tables = ReferenceScales(config, z, 1)
=============================================================================
