--------------------------- MODULE SequentialLoop ---------------------------
(***************************************************************************)
(* The frame loops inside encode_video and decode_video, used when the     *)
(* backend has no codec slots or when --debug-dir is given: one frame is   *)
(* read, run, entropy coded and written before the next is read.           *)
(*                                                                         *)
(* The backend is the contract of InferenceBackend with a state binding:   *)
(* run() appends to its state what the graph was run on.  With --debug-dir *)
(* there is no binding and the loop carries the reference itself.          *)
(***************************************************************************)
EXTENDS CodecStreams

CONSTANT
  Undefined     \* content of memory nobody has written

ASSUME UndefinedAssumption == Undefined \notin Int

VARIABLES
  device_state, \* execution.state_bindings is not empty (never changes)
  pc,         \* where the calling thread is
  frames,     \* stats.frames
  reference,  \* the recurrent feature: the backend's state, or `reference'
  prepared,   \* reset_state() has been called, or the loop owns the reference
  result,     \* what the last run() returned
  output,     \* frames written to the output stream
  flushed     \* how many of them an explicit flush has pushed out

loopVars == <<pc, frames, reference, prepared, result, output, flushed>>
callVars == <<sourceVars, device_state>>
vars == <<callVars, loopVars>>

Garbage == <<<<Undefined, Undefined>>>>

Init ==
  /\ SourceInit
  /\ device_state \in BOOLEAN
  /\ pc = "loop"
  /\ frames = 0
  /\ reference = IF device_state THEN Garbage ELSE <<>>
  /\ prepared = ~device_state
  /\ result = Garbage
  /\ output = <<>>
  /\ flushed = 0

Ended == pc \in {"done", "failed"}
Current == input[frames + 1]

\* The q-index of the frame at hand: the container's, or the option's.
FrameQ == IF Encoding THEN options.q_index ELSE Current.q
RunQ == ShiftedQ(Config, FrameQ, frames)

Reading == pc = "loop" /\ ~LimitReached(frames)

\* Mutant: only the first GOP starts from a zeroed reference.
ReadFrameFirstGop ==
  /\ Reading
  /\ frames < Len(input)
  /\ IF ~Encoding /\ ~ValidQ(Config, FrameQ)
     THEN pc' = "throw" /\ UNCHANGED <<reference, prepared>>
     ELSE /\ pc' = IF RunQ \in 0..(Config.total_qp_num - 1) THEN "run" ELSE "throw"
          /\ reference' = IF frames = 0 THEN <<>> ELSE reference
          /\ prepared' = TRUE
  /\ UNCHANGED <<callVars, frames, result, output, flushed>>

(***************************************************************************)
(* A frame has been read.  The decoder checks its q-index; the first frame *)
(* of a GOP zeroes the reference; the shifted q-index must be in range.    *)
(***************************************************************************)
ReadFrame ==
  /\ Reading
  /\ frames < Len(input)
  /\ IF ~Encoding /\ ~ValidQ(Config, FrameQ)
     THEN pc' = "throw" /\ UNCHANGED <<reference, prepared>>
     ELSE /\ pc' = IF RunQ \in 0..(Config.total_qp_num - 1) THEN "run" ELSE "throw"
          /\ reference' = IF FrameInGop(Config, frames) = 0 THEN <<>> ELSE reference
          /\ prepared' = (prepared \/ FrameInGop(Config, frames) = 0)
  /\ UNCHANGED <<callVars, frames, result, output, flushed>>

\* Mutant: the end of the stream is noticed before its last frames are used.
ReadTruncatedEarly ==
  /\ Reading
  /\ tail = "truncated"
  /\ pc' = "throw"
  /\ UNCHANGED <<callVars, frames, reference, prepared, result, output, flushed>>

ReadTruncated ==
  /\ Reading
  /\ frames = Len(input)
  /\ tail = "truncated"
  /\ pc' = "throw"
  /\ UNCHANGED <<callVars, frames, reference, prepared, result, output, flushed>>

LeaveLoop ==
  /\ pc = "loop"
  /\ LimitReached(frames) \/ (frames = Len(input) /\ tail = "eof")
  /\ pc' = "finish"
  /\ UNCHANGED <<callVars, frames, reference, prepared, result, output, flushed>>

(***************************************************************************)
(* backend->run on the frame, behind entropy.decode in the decoder.  A     *)
(* bound feature stays in the backend; without a binding the loop keeps    *)
(* the returned one, once the frame has been written.                      *)
(***************************************************************************)
Run ==
  /\ pc = "run"
  /\ Encoding \/ Current.codable
  /\ IF prepared
     THEN /\ result' = Append(reference, <<frames, RunQ>>)
          /\ reference' = IF device_state THEN result' ELSE reference
          /\ pc' = "write"
     ELSE pc' = "throw" /\ UNCHANGED <<result, reference>>
  /\ UNCHANGED <<callVars, frames, prepared, output, flushed>>

\* entropy.decode refuses the payload.
DecodeThrows ==
  /\ pc = "run"
  /\ ~Encoding
  /\ ~Current.codable
  /\ pc' = "throw"
  /\ UNCHANGED <<callVars, frames, reference, prepared, result, output, flushed>>

Delivered ==
  IF Encoding THEN [q_index |-> options.q_index, latents |-> result] ELSE result

\* Mutant: the output is not flushed.
WriteUnflushed ==
  /\ pc = "write"
  /\ Encoding => Current.codable
  /\ output' = Append(output, Delivered)
  /\ reference' = IF device_state THEN reference ELSE result
  /\ frames' = frames + 1
  /\ pc' = "loop"
  /\ UNCHANGED <<callVars, prepared, result, flushed>>

\* entropy.encode in the encoder, the write, the flush and ++stats.frames.
Write ==
  /\ pc = "write"
  /\ Encoding => Current.codable
  /\ output' = Append(output, Delivered)
  /\ flushed' = IF options.stream THEN Len(output') ELSE flushed
  /\ reference' = IF device_state THEN reference ELSE result
  /\ frames' = frames + 1
  /\ pc' = "loop"
  /\ UNCHANGED <<callVars, prepared, result>>

WriteThrows ==
  /\ pc = "write"
  /\ (Encoding /\ ~Current.codable) \/ options.sink_fails
  /\ pc' = "throw"
  /\ UNCHANGED <<callVars, frames, reference, prepared, result, output, flushed>>

Finalize ==
  /\ pc = "finish"
  /\ \/ pc' = "done" /\ flushed' = Len(output)
     \/ options.sink_fails /\ pc' = "throw" /\ flushed' = flushed
  /\ UNCHANGED <<callVars, frames, reference, prepared, result, output>>

Unwind ==
  /\ pc = "throw"
  /\ pc' = "failed"
  /\ UNCHANGED <<callVars, frames, reference, prepared, result, output, flushed>>

Host ==
  \/ ReadFrame
  \/ ReadTruncated
  \/ LeaveLoop
  \/ Run
  \/ DecodeThrows
  \/ Write
  \/ WriteThrows
  \/ Finalize
  \/ Unwind

FeedInput == Source /\ UNCHANGED <<device_state, loopVars>>

\* The call is over; its caller goes on with something else.
Over == Ended /\ UNCHANGED vars

Next == Host \/ FeedInput \/ Over

\* The thread runs whenever it is not blocked on the input stream.
Fairness == WF_vars(Host)

Spec == Init /\ [][Next]_vars /\ Fairness

-----------------------------------------------------------------------------
(***************************************************************************)
(* Properties.                                                             *)
(***************************************************************************)
\* The session a caller of encode_video or decode_video sees.
SessionStatus == IF Ended THEN pc ELSE "running"

Session == INSTANCE CodecSession WITH status <- SessionStatus

(***************************************************************************)
(* The sequential loops implement the promise of encode_video and          *)
(* decode_video: right results in order, success only when all frames      *)
(* asked for are out, failure only for an external reason.                 *)
(***************************************************************************)
SessionSpec == Session!Spec

(***************************************************************************)
(* pipeline.cpp:543-606 and 663-713: a call fails only once every complete *)
(* frame in front of the fault has been written (the buffered loops lose   *)
(* frames in flight here).  Holds while the output stream works.           *)
(***************************************************************************)
NothingLost ==
  pc = "failed" /\ ~options.sink_fails =>
    IF frames < Len(input) THEN FrameFaulty(Current) ELSE tail = "truncated"

(***************************************************************************)
(* pipeline.cpp:597-598 and 704-705: on a pipe, every frame that arrives   *)
(* reaches the peer without waiting for the next one.                      *)
(***************************************************************************)
FramesComeOut ==
  \A n \in 1..MaxFrames :
    (options.stream /\ Len(input) >= n) ~> (flushed >= n \/ Ended)
=============================================================================
