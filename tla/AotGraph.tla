------------------------------ MODULE AotGraph ------------------------------
(***************************************************************************)
(* The driver_cubin executor: persistent pinned host slots, one CUDA       *)
(* stream, and a model schedule that is run directly once, then captured   *)
(* into a CUDA graph and replayed.                                         *)
(*                                                                         *)
(* The host enqueues operations on the stream and goes on; the device      *)
(* executes them later, one after the other, reading and writing the       *)
(* pinned buffers of the slots when it gets there.  All slots share the    *)
(* device buffers: only the stream order keeps two frames apart.           *)
(*                                                                         *)
(* Data are abstract.  A frame is its number, a feature or a graph output  *)
(* is the sequence of <<frame, q>> pairs the graph has been run on since   *)
(* the feature was zeroed.                                                 *)
(***************************************************************************)
EXTENDS Integers, Sequences

CONSTANTS
  Slots,         \* CodecIoConfig::slots
  ComputeMajor,  \* compute capability of the device
  Undefined      \* content of memory nobody has written

ASSUME SlotsAssumption == Slots \in Nat /\ Slots >= 2
ASSUME ComputeAssumption == ComputeMajor \in Nat
ASSUME UndefinedAssumption == Undefined \notin Int

VARIABLES
  host_frame,     \* slot -> its pinned frame buffer (yuv or latents)
  host_q,         \* slot -> its pinned q_index_shifted input
  host_result,    \* slot -> its pinned buffer of downloaded results
  pending,        \* slot -> HostSlot::pending
  completed,      \* slot -> its completion event has been reached
  stream,         \* operations enqueued and not yet executed
  device,         \* device memory: yuv, x, q, feature and output buffers
  initialized,    \* state_initialized_
  cutlass_ready,  \* cutlass_parameters_ready_
  graph,          \* executable_graph_: the captured operations, or <<>>
  live            \* the AotGraph, and so its pinned memory, still exists

slotVars == <<host_frame, host_q, host_result, pending, completed>>
captureVars == <<cutlass_ready, graph>>
graphVars == <<slotVars, stream, device, initialized, captureVars, live>>

SlotIds == 0..(Slots - 1)
NoSlot == -1

\* An enqueued operation, and the slot whose pinned memory it touches.
Copy(name, s) == [op |-> name, slot |-> s]
Kernel(name) == [op |-> name, slot |-> NoSlot]

Copies == {"upload_yuv", "upload_latents", "upload_q",
           "download_latents", "download_yuv", "record"}
Kernels == {"zero_feature", "yuv420_to_nchw", "model", "nchw_to_yuv420"}

Operation == [op : Copies, slot : SlotIds] \cup [op : Kernels, slot : {NoSlot}]

\* Device data: a frame as it was read, or what the graph has made of frames.
Content == Nat \cup {Undefined}
QValue == Int \cup {Undefined}
History == Seq(Content \X QValue)

\* What a buffer of results holds before anything was written to it.
Garbage == <<<<Undefined, Undefined>>>>

(***************************************************************************)
(* codec_yuv_device_ holds source pictures in the encoder and              *)
(* reconstructed ones in the decoder: its type and first content are       *)
(* parameters.                                                             *)
(***************************************************************************)
GraphType(YuvContent) ==
  /\ host_frame \in [SlotIds -> Content]
  /\ host_q \in [SlotIds -> QValue]
  /\ host_result \in [SlotIds -> History]
  /\ pending \in [SlotIds -> BOOLEAN]
  /\ completed \in [SlotIds -> BOOLEAN]
  /\ stream \in Seq(Operation)
  /\ device \in [yuv : YuvContent, x : Content, q : QValue,
                 feature : History, out : History]
  /\ initialized \in BOOLEAN
  /\ cutlass_ready \in BOOLEAN
  /\ graph \in {<<>>, <<Kernel("model")>>}
  /\ live \in BOOLEAN

\* The graph is loaded and configure_codec_io(slots) has returned.
GraphInit(yuv) ==
  /\ host_frame = [s \in SlotIds |-> Undefined]
  /\ host_q = [s \in SlotIds |-> Undefined]
  /\ host_result = [s \in SlotIds |-> Garbage]
  /\ pending = [s \in SlotIds |-> FALSE]
  /\ completed = [s \in SlotIds |-> FALSE]
  /\ stream = <<>>
  /\ device = [yuv |-> yuv, x |-> Undefined, q |-> Undefined,
               feature |-> Garbage, out |-> Garbage]
  /\ initialized = FALSE
  /\ cutlass_ready = FALSE
  /\ graph = <<>>
  /\ live = TRUE

-----------------------------------------------------------------------------
(***************************************************************************)
(* Host side.                                                              *)
(***************************************************************************)
\* Mutant: the feature is zeroed at once, in front of the queued work.
ResetStateAtOnce ==
  /\ device' = [device EXCEPT !.feature = <<>>]
  /\ initialized' = TRUE
  /\ UNCHANGED <<slotVars, stream, captureVars, live>>

\* AotGraph::reset_state: the memset is only queued behind earlier work.
ResetState ==
  /\ stream' = Append(stream, Kernel("zero_feature"))
  /\ initialized' = TRUE
  /\ UNCHANGED <<slotVars, device, captureVars, live>>

\* AotGraph::execute_schedule, all launches of the model as one operation.
ExecuteSchedule == <<Kernel("model")>>

(***************************************************************************)
(* AotGraph::enqueue_model between the operations that feed and drain it.  *)
(* Compute capability 8 and later run the schedule once before capturing   *)
(* it: the first run sizes the CUTLASS workspaces.  While capturing, the   *)
(* stream records the launches instead of running them.                    *)
(***************************************************************************)
RunDirectly == ~cutlass_ready /\ ComputeMajor >= 8

\* Mutant: the copies and the event of the first slot are captured as well.
EnqueueModelWithCopies(before, after) ==
  \/ /\ RunDirectly
     /\ stream' = stream \o (before \o ExecuteSchedule \o after)
     /\ cutlass_ready' = TRUE
     /\ graph' = graph
  \/ /\ ~RunDirectly
     /\ graph' = IF graph = <<>> THEN before \o ExecuteSchedule \o after ELSE graph
     /\ stream' = stream \o graph'
     /\ cutlass_ready' = cutlass_ready

EnqueueModel(before, after) ==
  \/ /\ RunDirectly
     /\ stream' = stream \o (before \o ExecuteSchedule \o after)
     /\ cutlass_ready' = TRUE
     /\ graph' = graph
  \/ /\ ~RunDirectly
     /\ graph' = IF graph = <<>> THEN ExecuteSchedule ELSE graph
     /\ stream' = stream \o (before \o graph' \o after)
     /\ cutlass_ready' = cutlass_ready

\* Mutant: the event still counts as reached from its last use.
OccupyWithOldEvent(s, shifted_q) ==
  /\ host_q' = [host_q EXCEPT ![s] = shifted_q]
  /\ pending' = [pending EXCEPT ![s] = TRUE]
  /\ completed' = completed

\* set_q_index and finish_submit: what both submissions do to their slot.
Occupy(s, shifted_q) ==
  /\ host_q' = [host_q EXCEPT ![s] = shifted_q]
  /\ pending' = [pending EXCEPT ![s] = TRUE]
  /\ completed' = [completed EXCEPT ![s] = FALSE]

EncoderFeed(s) ==
  <<Copy("upload_yuv", s), Kernel("yuv420_to_nchw"), Copy("upload_q", s)>>

\* Mutants: the completion event is not recorded.
EncoderDrainNoEvent(s) == <<Copy("download_latents", s)>>

EncoderDrain(s) == <<Copy("download_latents", s), Copy("record", s)>>

DecoderFeed(s) == <<Copy("upload_latents", s), Copy("upload_q", s)>>

DecoderDrainNoEvent(s) == <<Kernel("nchw_to_yuv420"), Copy("download_yuv", s)>>

DecoderDrain(s) ==
  <<Kernel("nchw_to_yuv420"), Copy("download_yuv", s), Copy("record", s)>>

\* The guards of submit_encoder and submit_decoder; they throw otherwise.
CanSubmit(s) == initialized /\ s \in SlotIds /\ ~pending[s]

SubmitEncoder(s, shifted_q) ==
  /\ Occupy(s, shifted_q)
  /\ EnqueueModel(EncoderFeed(s), EncoderDrain(s))
  /\ UNCHANGED <<host_frame, host_result, device, initialized, live>>

SubmitDecoder(s, shifted_q) ==
  /\ Occupy(s, shifted_q)
  /\ EnqueueModel(DecoderFeed(s), DecoderDrain(s))
  /\ UNCHANGED <<host_result, device, initialized, live>>

\* wait_codec_slot returns: at once, or when the event has been reached.
SlotReady(s) == pending[s] => completed[s]

\* Mutants: the wait does not wait; the wait leaves the slot pending.
WaitCodecSlotNoWait(s) == pending' = [pending EXCEPT ![s] = FALSE]
WaitCodecSlotStillPending(s) == SlotReady(s) /\ pending' = pending

WaitCodecSlot(s) ==
  /\ SlotReady(s)
  /\ pending' = [pending EXCEPT ![s] = FALSE]

\* Mutant: the destructor frees the slots without waiting.
DestroyGraphNoWait ==
  /\ live' = FALSE
  /\ UNCHANGED <<slotVars, stream, device, initialized, captureVars>>

\* ~AotGraph waits for every pending slot; then the slots are freed.
DestroyGraph ==
  /\ \A s \in SlotIds : SlotReady(s)
  /\ live' = FALSE
  /\ UNCHANGED <<slotVars, stream, device, initialized, captureVars>>

-----------------------------------------------------------------------------
(***************************************************************************)
(* Device side: the stream executes its oldest operation.                  *)
(***************************************************************************)
NextOperation(name) ==
  /\ stream # <<>>
  /\ Head(stream).op = name
  /\ stream' = Tail(stream)
  /\ UNCHANGED <<host_frame, host_q, pending, initialized, captureVars, live>>

DeviceOnly == UNCHANGED <<host_result, completed>>

ZeroFeature ==
  /\ NextOperation("zero_feature")
  /\ device' = [device EXCEPT !.feature = <<>>]
  /\ DeviceOnly

UploadYuv ==
  /\ NextOperation("upload_yuv")
  /\ device' = [device EXCEPT !.yuv = host_frame[Head(stream).slot]]
  /\ DeviceOnly

Yuv420ToNchw ==
  /\ NextOperation("yuv420_to_nchw")
  /\ device' = [device EXCEPT !.x = device.yuv]
  /\ DeviceOnly

UploadLatents ==
  /\ NextOperation("upload_latents")
  /\ device' = [device EXCEPT !.x = host_frame[Head(stream).slot]]
  /\ DeviceOnly

UploadQ ==
  /\ NextOperation("upload_q")
  /\ device' = [device EXCEPT !.q = host_q[Head(stream).slot]]
  /\ DeviceOnly

\* The feature output is bound in place onto the ref_feature input.
RunModel ==
  /\ NextOperation("model")
  /\ LET history == Append(device.feature, <<device.x, device.q>>)
     IN device' = [device EXCEPT !.feature = history, !.out = history]
  /\ DeviceOnly

NchwToYuv420 ==
  /\ NextOperation("nchw_to_yuv420")
  /\ device' = [device EXCEPT !.yuv = device.out]
  /\ DeviceOnly

DownloadLatents ==
  /\ NextOperation("download_latents")
  /\ host_result' = [host_result EXCEPT ![Head(stream).slot] = device.out]
  /\ UNCHANGED <<device, completed>>

DownloadYuv ==
  /\ NextOperation("download_yuv")
  /\ host_result' = [host_result EXCEPT ![Head(stream).slot] = device.yuv]
  /\ UNCHANGED <<device, completed>>

ReachEvent ==
  /\ NextOperation("record")
  /\ completed' = [completed EXCEPT ![Head(stream).slot] = TRUE]
  /\ UNCHANGED <<device, host_result>>

\* The operations both graphs use.
CommonOperation == ZeroFeature \/ UploadQ \/ RunModel \/ ReachEvent
EncoderOperation ==
  CommonOperation \/ UploadYuv \/ Yuv420ToNchw \/ DownloadLatents
DecoderOperation ==
  CommonOperation \/ UploadLatents \/ NchwToYuv420 \/ DownloadYuv

-----------------------------------------------------------------------------
(***************************************************************************)
(* Slot ownership, what the loops that drive this executor rely on.        *)
(***************************************************************************)
\* Every queued copy belongs to a slot that is pending and not yet complete.
QueuedCopiesArePending ==
  \A k \in 1..Len(stream) :
    stream[k].op \in Copies =>
      pending[stream[k].slot] /\ ~completed[stream[k].slot]

\* The event of a slot is recorded behind every copy of that slot.
RecordComesLast ==
  \A j, k \in 1..Len(stream) :
    stream[j].op = "record" /\ j < k => stream[k].slot # stream[j].slot

Ownership == QueuedCopiesArePending /\ RecordComesLast

(***************************************************************************)
(* cuda_graph_executor.cpp:402-412: however a call ends, with a frame in   *)
(* flight or not, no copy still queued on the stream reads or writes       *)
(* pinned memory that the destroyed graph has given back.                  *)
(***************************************************************************)
PinnedOutlivesCopies ==
  ~live => \A k \in 1..Len(stream) : stream[k].op \notin Copies
=============================================================================
