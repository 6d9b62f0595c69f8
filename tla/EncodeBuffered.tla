--------------------------- MODULE EncodeBuffered ---------------------------
(***************************************************************************)
(* encode_buffered: the driver_cubin encoder's frame loop.  The thread     *)
(* reads frame n while the device still works on frame n - 1, and entropy  *)
(* codes a frame only when its slot is needed again or the input is over.  *)
(***************************************************************************)
EXTENDS BufferedLoop

ASSUME Encodes == Directions = {TRUE}

Init ==
  /\ SourceInit
  /\ GraphInit(Undefined)
  /\ LoopInit

\* The loop is about to take another frame.
Reading == pc = "loop" /\ ~LimitReached(submitted)

\* All slots are in flight: the oldest is consumed before the next read.
ConsumeOldest ==
  /\ Reading
  /\ Full
  /\ Deliver("loop") \/ ConsumeThrows

(***************************************************************************)
(* encoder_input_yuv hands out the slot's pinned buffer, or throws when    *)
(* the slot is pending; read_yuv420_frame then blocks until the input      *)
(* stream has a frame or has ended.                                        *)
(***************************************************************************)
ReadFrame ==
  /\ Reading
  /\ ~Full
  /\ LET s == SlotOf(submitted) IN
       IF pending[s]
       THEN pc' = "throw" /\ host_frame' = host_frame
       ELSE /\ submitted < Len(input)
            /\ host_frame' = [host_frame EXCEPT ![s] = submitted]
            /\ pc' = IF FrameInGop(Config, submitted) = 0 THEN "reset" ELSE "submit"
  /\ UNCHANGED <<sourceVars, host_q, host_result, pending, completed, stream,
                 device, initialized, captureVars, live, submitted, frames,
                 output, flushed>>

\* The buffer is available and the input has no further complete frame.
InputOver == ~Full /\ ~pending[SlotOf(submitted)] /\ submitted = Len(input)

\* The input ends inside a frame: part of the slot's buffer is overwritten.
ReadTruncated ==
  /\ Reading
  /\ InputOver
  /\ tail = "truncated"
  /\ host_frame' = [host_frame EXCEPT ![SlotOf(submitted)] = Undefined]
  /\ pc' = "throw"
  /\ UNCHANGED <<sourceVars, host_q, host_result, pending, completed, stream,
                 device, initialized, captureVars, live, submitted, frames,
                 output, flushed>>

\* The frame limit, or the end of the input between two frames.
LeaveLoop ==
  /\ pc = "loop"
  /\ LimitReached(submitted) \/ (InputOver /\ tail = "eof")
  /\ pc' = "drain"
  /\ UNCHANGED <<sourceVars, graphVars, submitted, frames, output, flushed>>

\* A GOP begins: backend.reset_state().
BeginGop ==
  /\ pc = "reset"
  /\ ResetState
  /\ pc' = "submit"
  /\ UNCHANGED <<sourceVars, submitted, frames, output, flushed>>

\* The range check of the shifted q-index, and submit_encoder with its guards.
CanSubmitFrame ==
  /\ CanSubmit(SlotOf(submitted))
  /\ ShiftedQ(Config, options.q_index, submitted) \in 0..(Config.total_qp_num - 1)

Submit ==
  /\ pc = "submit"
  /\ IF CanSubmitFrame
     THEN /\ SubmitEncoder(SlotOf(submitted),
                           ShiftedQ(Config, options.q_index, submitted))
          /\ submitted' = submitted + 1
          /\ pc' = "loop"
     ELSE pc' = "throw" /\ UNCHANGED <<graphVars, submitted>>
  /\ UNCHANGED <<sourceVars, frames, output, flushed>>

Host ==
  \/ ConsumeOldest
  \/ ReadFrame
  \/ ReadTruncated
  \/ LeaveLoop
  \/ BeginGop
  \/ Submit
  \/ DrainOne
  \/ Finalize
  \/ Leave

Gpu == EncoderOperation /\ UNCHANGED <<sourceVars, loopVars>>

Next == Host \/ Gpu \/ FeedInput \/ Over

(***************************************************************************)
(* The thread runs whenever it is not blocked, and the device executes     *)
(* what is queued.  Nothing makes the input arrive.                        *)
(***************************************************************************)
Fairness == WF_vars(Host) /\ WF_vars(Gpu)

Spec == Init /\ [][Next]_vars /\ Fairness

-----------------------------------------------------------------------------
(***************************************************************************)
(* Properties.                                                             *)
(***************************************************************************)
TypeOK ==
  /\ SourceType
  /\ GraphType(Content)
  /\ LoopType
  /\ output \in Seq([q_index : Int, latents : History])

(***************************************************************************)
(* backend.hpp:68-69: "a slot must be waited before its host buffers are   *)
(* reused".  A step that writes the frame buffer of a slot finds no queued *)
(* copy of that slot.                                                      *)
(***************************************************************************)
BuffersReusedAfterWait ==
  [][\A s \in SlotIds :
       host_frame'[s] # host_frame[s] =>
         \A k \in 1..Len(stream) : stream[k].slot # s]_vars

(***************************************************************************)
(* cuda_graph_executor.cpp:248-249 and 265-270, pipeline.cpp:408-409: the  *)
(* three internal errors of this loop never happen: the slot is not        *)
(* pending when its buffer is asked for or submitted, the state has been   *)
(* reset before the first submission, the shifted q-index is in range.     *)
(***************************************************************************)
InternalGuardsHold ==
  /\ Reading /\ ~Full => ~pending[SlotOf(submitted)]
  /\ pc = "submit" => CanSubmitFrame

(***************************************************************************)
(* pipeline.cpp:396-412: when the input turns out to be truncated, all     *)
(* frames but the Slots - 1 youngest complete ones have been written.      *)
(***************************************************************************)
InputFault ==
  tail = "truncated" /\ submitted = Len(input)
    /\ ~options.sink_fails /\ \A k \in 1..Len(input) : input[k].codable

LossIsBounded == pc = "failed" /\ InputFault => submitted - frames < Slots

(***************************************************************************)
(* pipeline.cpp:396-415: an input stream that ends makes the call end.     *)
(***************************************************************************)
CallEnds == tail # "open" ~> Ended

(***************************************************************************)
(* pipeline.cpp:387-398: on a pipe, frame n reaches the peer once          *)
(* Slots - 1 more frames have arrived, even if nothing else ever arrives.  *)
(***************************************************************************)
FramesComeOut ==
  \A n \in 1..MaxFrames :
    (options.stream /\ Len(input) >= n + Slots - 1) ~> (flushed >= n \/ Ended)

\* A peer that waits for the answer to good frames on a working pipe.
AllIsWell == ~options.sink_fails /\ \A k \in 1..Len(input) : input[k].codable

(***************************************************************************)
(* pipeline.hpp:16-17: "POSIX named FIFOs are also supported for live      *)
(* frame-by-frame operation": the encoding of a frame reaches a peer that  *)
(* sends its next frame only when it has the answer to the last one.  It   *)
(* does not here: pipeline.cpp:396-402 blocks on the next frame while the  *)
(* last one is finished on the device and not yet written.                 *)
(***************************************************************************)
FrameByFrame ==
  \A n \in 1..MaxFrames :
    (options.stream /\ Len(input) = n /\ AllIsWell) ~> (flushed >= n \/ Ended)

(***************************************************************************)
(* pipeline.cpp:352-424 with cuda_graph_executor.cpp:261-290: the loop     *)
(* implements what encode_video promises, whatever the device's delay: a   *)
(* frame written is the result for the frame of its own position, from the *)
(* features of its own GOP with its own QP phase, although all frames      *)
(* share one set of device buffers; and none of the internal exceptions    *)
(* (slot is pending, state not reset, shifted q-index out of range) is     *)
(* ever the reason of a failure.                                           *)
(***************************************************************************)
SessionSpec == Session!Spec
=============================================================================
