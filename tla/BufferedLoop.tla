---------------------------- MODULE BufferedLoop ----------------------------
(***************************************************************************)
(* What encode_buffered and decode_buffered share: the counters of frames  *)
(* submitted and frames delivered, the consume lambda, the drain loop, the *)
(* final flush, and the unwinding of a call that threw.                    *)
(***************************************************************************)
EXTENDS CodecStreams, AotGraph

VARIABLES
  pc,         \* where the calling thread is
  submitted,  \* frames handed to the executor
  frames,     \* stats.frames: frames delivered
  output,     \* frames written to the output stream
  flushed     \* how many of them an explicit flush has pushed out

loopVars == <<pc, submitted, frames, output, flushed>>
vars == <<sourceVars, graphVars, loopVars>>

LoopInit ==
  /\ pc = "loop"
  /\ submitted = 0
  /\ frames = 0
  /\ output = <<>>
  /\ flushed = 0

SlotOf(frame) == frame % Slots

\* Mutant: one frame too many is let in.
FullLate == submitted - frames = Slots + 1

Full == submitted - frames = Slots
Ended == pc \in {"done", "failed"}

\* What consume writes for the frame its slot holds.
Delivered(s) ==
  IF Encoding THEN [q_index |-> options.q_index, latents |-> host_result[s]]
  ELSE host_result[s]

\* entropy.encode throws on latents outside the coder's alphabet.
EntropyRefuses == Encoding /\ ~input[frames + 1].codable

\* Mutant: consume without the flush of a streaming output.
DeliverUnflushed(next) ==
  /\ WaitCodecSlot(SlotOf(frames))
  /\ ~EntropyRefuses
  /\ output' = Append(output, Delivered(SlotOf(frames)))
  /\ frames' = frames + 1
  /\ pc' = next
  /\ UNCHANGED <<sourceVars, host_frame, host_q, host_result, completed, stream,
                 device, initialized, captureVars, live, submitted, flushed>>

(***************************************************************************)
(* The consume lambda on the oldest frame in flight, from wait_codec_slot  *)
(* to ++stats.frames.  A call that throws leaves the frame uncounted.      *)
(***************************************************************************)
Deliver(next) ==
  /\ WaitCodecSlot(SlotOf(frames))
  /\ ~EntropyRefuses
  /\ output' = Append(output, Delivered(SlotOf(frames)))
  /\ flushed' = IF options.stream THEN Len(output') ELSE flushed
  /\ frames' = frames + 1
  /\ pc' = next
  /\ UNCHANGED <<sourceVars, host_frame, host_q, host_result, completed, stream,
                 device, initialized, captureVars, live, submitted>>

ConsumeThrows ==
  /\ WaitCodecSlot(SlotOf(frames))
  /\ EntropyRefuses \/ options.sink_fails
  /\ pc' = "throw"
  /\ UNCHANGED <<sourceVars, host_frame, host_q, host_result, completed, stream,
                 device, initialized, captureVars, live, submitted, frames,
                 output, flushed>>

\* while (stats.frames < submitted) consume(...)
DrainOne ==
  /\ pc = "drain"
  /\ frames < submitted
  /\ Deliver("drain") \/ ConsumeThrows

\* The flush behind the drain loop, and its check of the output stream.
Finalize ==
  /\ pc = "drain"
  /\ frames >= submitted
  /\ \/ pc' = "return" /\ flushed' = Len(output)
     \/ options.sink_fails /\ pc' = "throw" /\ flushed' = flushed
  /\ UNCHANGED <<sourceVars, graphVars, submitted, frames, output>>

\* Leaving encode_video or decode_video, or unwinding it, destroys the backend.
Leave ==
  /\ pc \in {"return", "throw"}
  /\ DestroyGraph
  /\ pc' = IF pc = "return" THEN "done" ELSE "failed"
  /\ UNCHANGED <<sourceVars, submitted, frames, output, flushed>>

FeedInput == Source /\ UNCHANGED <<graphVars, loopVars>>

\* The call is over; its caller goes on with something else.
Over == Ended /\ UNCHANGED vars

LoopType ==
  /\ pc \in {"loop", "reset", "consume", "submit", "drain", "return", "throw",
             "done", "failed"}
  /\ submitted \in Nat
  /\ frames \in Nat
  /\ flushed \in Nat

-----------------------------------------------------------------------------
\* At most Slots frames are in flight, and the counters describe the output.
Accounting ==
  /\ frames <= submitted
  /\ submitted - frames <= Slots
  /\ submitted <= Len(input)
  /\ frames = Len(output)
  /\ flushed <= frames

\* The slots of the frames in flight, and no others, are pending.
InFlight(s) == \E i \in frames..(submitted - 1) : SlotOf(i) = s

InFlightArePending ==
  pc \notin {"throw", "failed"} =>
    \A s \in SlotIds : pending[s] <=> InFlight(s)

(***************************************************************************)
(* pipeline.cpp:396-415 and 454-479 with cuda_graph_executor.cpp:393-400:  *)
(* the counters, the pending flags and the queue agree.  The slots of the  *)
(* frames submitted and not delivered, and no others, are pending; their   *)
(* copies are queued in front of their event; no other slot has a copy     *)
(* queued; and no more frames are in flight than there are slots.          *)
(***************************************************************************)
SlotDiscipline == Accounting /\ InFlightArePending /\ Ownership

\* The session a caller of encode_video or decode_video sees.
SessionStatus == IF Ended THEN pc ELSE "running"

Session == INSTANCE CodecSession WITH status <- SessionStatus
=============================================================================
