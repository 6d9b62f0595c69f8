--------------------------- MODULE DecodeBuffered ---------------------------
(***************************************************************************)
(* decode_buffered: the driver_cubin decoder's frame loop.  Unlike the     *)
(* encoder it reads an encoded frame first and only then, when all slots   *)
(* are in flight, consumes the oldest; the latents are decoded straight    *)
(* into the pinned buffers of the slot.                                    *)
(***************************************************************************)
EXTENDS BufferedLoop

ASSUME Decodes == Directions = {FALSE}

Init ==
  /\ SourceInit
  /\ GraphInit(Garbage)
  /\ LoopInit

Reading == pc = "loop" /\ ~LimitReached(submitted)

\* The frame read last: `encoded' in the code.
Encoded == input[submitted + 1]

\* read_encoded_frame has filled `encoded'.
ReadFrame ==
  /\ Reading
  /\ submitted < Len(input)
  /\ pc' = "consume"
  /\ UNCHANGED <<sourceVars, graphVars, submitted, frames, output, flushed>>

\* The container ends inside a header or a payload; `encoded' is untouched.
ReadTruncated ==
  /\ Reading
  /\ submitted = Len(input)
  /\ tail = "truncated"
  /\ pc' = "throw"
  /\ UNCHANGED <<sourceVars, graphVars, submitted, frames, output, flushed>>

LeaveLoop ==
  /\ pc = "loop"
  /\ LimitReached(submitted) \/ (submitted = Len(input) /\ tail = "eof")
  /\ pc' = "drain"
  /\ UNCHANGED <<sourceVars, graphVars, submitted, frames, output, flushed>>

\* All slots are in flight: the oldest is consumed before the frame goes on.
ConsumeOldest ==
  /\ pc = "consume"
  /\ Full
  /\ Deliver("consume") \/ ConsumeThrows

\* Mutants: the oldest frame is not consumed first; only the first GOP resets.
CheckFrameEarly ==
  /\ pc = "consume"
  /\ pc' = IF ~ValidQ(Config, Encoded.q) THEN "throw"
           ELSE IF FrameInGop(Config, submitted) = 0 THEN "reset"
           ELSE "submit"
  /\ UNCHANGED <<sourceVars, graphVars, submitted, frames, output, flushed>>

CheckFrameFirstGop ==
  /\ pc = "consume"
  /\ ~Full
  /\ pc' = IF ~ValidQ(Config, Encoded.q) THEN "throw"
           ELSE IF submitted = 0 THEN "reset"
           ELSE "submit"
  /\ UNCHANGED <<sourceVars, graphVars, submitted, frames, output, flushed>>

\* The range check of the container's q-index, and the GOP decision.
CheckFrame ==
  /\ pc = "consume"
  /\ ~Full
  /\ pc' = IF ~ValidQ(Config, Encoded.q) THEN "throw"
           ELSE IF FrameInGop(Config, submitted) = 0 THEN "reset"
           ELSE "submit"
  /\ UNCHANGED <<sourceVars, graphVars, submitted, frames, output, flushed>>

BeginGop ==
  /\ pc = "reset"
  /\ ResetState
  /\ pc' = "submit"
  /\ UNCHANGED <<sourceVars, submitted, frames, output, flushed>>

FrameQ == ShiftedQ(Config, Encoded.q, submitted)

\* The range check of the shifted q-index, and the guard of decoder_inputs.
InputsAvailable ==
  ~pending[SlotOf(submitted)] /\ FrameQ \in 0..(Config.total_qp_num - 1)

(***************************************************************************)
(* entropy.decode_into writes the latents of the frame into the slot and   *)
(* submit_decoder enqueues it.  A payload the coder refuses leaves part of *)
(* the latents in the slot.                                                *)
(***************************************************************************)
Submit ==
  /\ pc = "submit"
  /\ InputsAvailable
  /\ Encoded.codable
  /\ host_frame' = [host_frame EXCEPT ![SlotOf(submitted)] = submitted]
  /\ IF CanSubmit(SlotOf(submitted))
     THEN /\ SubmitDecoder(SlotOf(submitted), FrameQ)
          /\ submitted' = submitted + 1
          /\ pc' = "loop"
     ELSE /\ pc' = "throw"
          /\ UNCHANGED <<host_q, host_result, pending, completed, stream, device,
                         initialized, captureVars, live, submitted>>
  /\ UNCHANGED <<sourceVars, frames, output, flushed>>

SubmitThrows ==
  /\ pc = "submit"
  /\ ~InputsAvailable \/ ~Encoded.codable
  /\ host_frame' = IF InputsAvailable
                   THEN [host_frame EXCEPT ![SlotOf(submitted)] = Undefined]
                   ELSE host_frame
  /\ pc' = "throw"
  /\ UNCHANGED <<sourceVars, host_q, host_result, pending, completed, stream,
                 device, initialized, captureVars, live, submitted, frames,
                 output, flushed>>

Host ==
  \/ ReadFrame
  \/ ReadTruncated
  \/ LeaveLoop
  \/ ConsumeOldest
  \/ CheckFrame
  \/ BeginGop
  \/ Submit
  \/ SubmitThrows
  \/ DrainOne
  \/ Finalize
  \/ Leave

Gpu == DecoderOperation /\ UNCHANGED <<sourceVars, loopVars>>

Next == Host \/ Gpu \/ FeedInput \/ Over

(***************************************************************************)
(* The thread runs whenever it is not blocked, and the device executes     *)
(* what is queued.  Nothing makes the input arrive.                        *)
(***************************************************************************)
Fairness == WF_vars(Host) /\ WF_vars(Gpu)

Spec == Init /\ [][Next]_vars /\ Fairness

-----------------------------------------------------------------------------
(***************************************************************************)
(* Properties.                                                             *)
(***************************************************************************)
TypeOK ==
  /\ SourceType
  /\ GraphType(History)
  /\ LoopType
  /\ output \in Seq(History)

(***************************************************************************)
(* backend.hpp:68-69: "a slot must be waited before its host buffers are   *)
(* reused".  decode_into writes the latents of a slot only when no queued  *)
(* copy of that slot is left.                                              *)
(***************************************************************************)
BuffersReusedAfterWait ==
  [][\A s \in SlotIds :
       host_frame'[s] # host_frame[s] =>
         \A k \in 1..Len(stream) : stream[k].slot # s]_vars

(***************************************************************************)
(* cuda_graph_executor.cpp:320-321 and 340-345, pipeline.cpp:464-465: the  *)
(* internal errors of this loop never happen: the slot is not pending when *)
(* its buffers are asked for or submitted, the state has been reset before *)
(* the first submission, the shifted q-index is in range.                  *)
(***************************************************************************)
InternalGuardsHold ==
  pc = "submit" => InputsAvailable /\ CanSubmit(SlotOf(submitted))

(***************************************************************************)
(* pipeline.cpp:454-477: a frame with a bad q-index or payload is found    *)
(* behind the consume and loses fewer than Slots complete pictures (the    *)
(* frames a truncated container loses may fill all slots).                 *)
(***************************************************************************)
BadFrameRead ==
  submitted < Len(input) /\ FrameFaulty(Encoded) /\ ~options.sink_fails

LossIsBounded == pc = "failed" /\ BadFrameRead => submitted - frames < Slots

(***************************************************************************)
(* pipeline.cpp:454-479: an input stream that ends makes the call end.     *)
(***************************************************************************)
CallEnds == tail # "open" ~> Ended

(***************************************************************************)
(* pipeline.cpp:445-457: on a pipe, picture n reaches the peer once Slots  *)
(* more frames have arrived, even if nothing else ever arrives.            *)
(***************************************************************************)
FramesComeOut ==
  \A n \in 1..MaxFrames :
    (options.stream /\ Len(input) >= n + Slots) ~> (flushed >= n \/ Ended)

(***************************************************************************)
(* pipeline.cpp:426-487 with cuda_graph_executor.cpp:336-373: the loop     *)
(* implements what decode_video promises, whatever the device's delay: a   *)
(* frame written is the result for the frame of its own position, from the *)
(* features of its own GOP with its own QP phase, although all frames      *)
(* share one set of device buffers; and none of the internal exceptions    *)
(* (slot is pending, state not reset, shifted q-index out of range) is     *)
(* ever the reason of a failure.                                           *)
(***************************************************************************)
SessionSpec == Session!Spec
=============================================================================
