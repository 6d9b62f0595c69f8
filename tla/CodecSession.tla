---------------------------- MODULE CodecSession ----------------------------
(***************************************************************************)
(* What one call of encode_video or decode_video promises, whichever loop  *)
(* and backend serve it: the frames of the input stream come out in order, *)
(* each the model's result for that frame in its GOP, and the call returns *)
(* only when every frame asked for has come out.  It fails only for a      *)
(* reason found in the input or in the output stream, and what came out    *)
(* before is still a prefix of the right output.                           *)
(***************************************************************************)
EXTENDS CodecStreams

VARIABLES
  output,   \* the frames written to the output stream
  status    \* "running", "done" or "failed"

sessionVars == <<options, input, tail, output, status>>

Init ==
  /\ SourceInit
  /\ output = <<>>
  /\ status = "running"

Emit ==
  /\ status = "running"
  /\ Len(output) < Len(input)
  /\ ~LimitReached(Len(output))
  /\ ~FrameFaulty(input[Len(output) + 1])
  /\ output' = Append(output, Result(Len(output)))
  /\ UNCHANGED <<sourceVars, status>>

Return ==
  /\ status = "running"
  /\ LimitReached(Len(output)) \/ (tail = "eof" /\ Len(output) = Len(input))
  /\ status' = "done"
  /\ UNCHANGED <<sourceVars, output>>

Fail ==
  /\ status = "running"
  /\ Excuse
  /\ status' = "failed"
  /\ UNCHANGED <<sourceVars, output>>

Next ==
  \/ Source /\ UNCHANGED <<output, status>>
  \/ Emit
  \/ Return
  \/ Fail

Spec == Init /\ [][Next]_sessionVars
=============================================================================
