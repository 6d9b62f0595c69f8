------------------------ MODULE DecodeBufferedProofs ------------------------
(***************************************************************************)
(* decode_buffered, for every bundle, number of slots, container and delay *)
(* of the device: types, slot ownership, the absence of internal errors,   *)
(* the bound on what a bad frame costs, and the session it implements.     *)
(* The container's q-index is data of the input: what the range check      *)
(* established has to survive until the frame is submitted.                *)
(***************************************************************************)
EXTENDS DecodeBuffered, BufferedLoopProofs

LoopInv == BufferedInv(History, History)

\* CheckFrame let the frame pass that is being prepared.
QChecked == pc \in {"reset", "submit"} => ValidQ(Config, Encoded.q)

Inv == LoopInv /\ QChecked

LEMMA DeliveredType ==
  ASSUME LoopInv
  PROVE  Delivered(SlotOf(frames)) \in History
<1>1. SlotOf(frames) \in SlotIds
  BY LengthTypes, SlotOfIsSlot DEF LoopInv, BufferedInv
<1>2. host_result[SlotOf(frames)] \in History
  BY <1>1 DEF LoopInv, BufferedInv, LoopState, GraphType
<1>3. ~Encoding
  BY Decodes DEF LoopInv, BufferedInv, LoopState, SourceType, Options, Encoding
<1> QED BY <1>2, <1>3 DEF Delivered

LEMMA FrameCanBeSubmitted ==
  ASSUME Inv, pc = "submit"
  PROVE  /\ InputsAvailable
         /\ CanSubmit(SlotOf(submitted))
         /\ FrameQ \in Int
<1> USE DEF Inv, LoopInv, BufferedInv
<1>1. /\ SlotOf(submitted) \in SlotIds
      /\ ~pending[SlotOf(submitted)]
      /\ initialized
      /\ submitted < Len(input)
  BY NextSlotIsFree DEF Control, SlotDiscipline
<1>2. Encoded.q \in Int /\ ValidQ(Config, Encoded.q)
  <2>1. submitted + 1 \in 1..Len(input)
    BY <1>1, LengthTypes
  <2>2. Encoded \in Frame
    BY <2>1 DEF Encoded, LoopState, SourceType
  <2> QED BY <2>2, SourceAssumption DEF QChecked, Frame
<1>3. FrameQ \in 0..(Config.total_qp_num - 1)
  BY <1>2, LengthTypes, ConfigAssumption, ScheduleInRange DEF FrameQ
<1> QED BY <1>1, <1>3 DEF InputsAvailable, CanSubmit

-----------------------------------------------------------------------------
(***************************************************************************)
(* One lemma for each step of the thread that is not BufferedLoop's.       *)
(***************************************************************************)
LEMMA ReadFrameKeeps ==
  ASSUME LoopInv, ReadFrame
  PROVE  LoopInv'
<1>1. /\ pc = "loop" /\ pc' = "consume" /\ submitted < Len(input)
      /\ UNCHANGED <<sourceVars, graphVars, submitted, frames, output, flushed>>
  BY DEF ReadFrame, Reading
<1>2. ~Ended
  BY <1>1 DEF Ended
<1> QED BY <1>1, <1>2, MoveKeeps DEF LoopInv

LEMMA StopReadingKeeps ==
  ASSUME LoopInv, ReadTruncated \/ LeaveLoop
  PROVE  LoopInv'
<1>1. /\ pc = "loop" /\ pc' \in {"throw", "drain"}
      /\ UNCHANGED <<sourceVars, graphVars, submitted, frames, output, flushed>>
  BY DEF ReadTruncated, LeaveLoop, Reading
<1>2. ~Ended
  BY <1>1 DEF Ended
<1> QED BY <1>1, <1>2, MoveKeeps DEF LoopInv

LEMMA ConsumeOldestKeeps ==
  ASSUME LoopInv, ConsumeOldest
  PROVE  LoopInv'
<1> USE DEF LoopInv
<1>1. pc = "consume" /\ Full
  BY DEF ConsumeOldest
<1>2. frames < submitted
  BY <1>1, LengthTypes DEF BufferedInv, Full
<1>3. CASE Deliver("consume")
  BY <1>1, <1>2, <1>3, DeliveredType, DeliverKeeps
<1>4. CASE ConsumeThrows
  BY <1>1, <1>4, ConsumeThrowsKeeps DEF Ended
<1> QED BY <1>3, <1>4 DEF ConsumeOldest

LEMMA CheckFrameKeeps ==
  ASSUME LoopInv, CheckFrame
  PROVE  Inv'
<1>1. /\ pc = "consume" /\ ~Full
      /\ pc' = IF ~ValidQ(Config, Encoded.q) THEN "throw"
               ELSE IF FrameInGop(Config, submitted) = 0 THEN "reset"
               ELSE "submit"
      /\ UNCHANGED <<sourceVars, graphVars, submitted, frames, output, flushed>>
  BY DEF CheckFrame
<1>2. ~Ended /\ submitted < Len(input)
  BY <1>1 DEF Ended, LoopInv, BufferedInv, Control
<1>3. FrameInGop(Config, submitted) # 0 => initialized
  <2>1. FrameInGop(Config, submitted) # 0 => submitted > 0
    BY LengthTypes, FirstFrameBeginsGop DEF LoopInv, BufferedInv
  <2> QED BY <2>1 DEF LoopInv, BufferedInv, Control
<1>4. \/ pc' = "throw"
      \/ pc' = "reset"
      \/ pc' = "submit" /\ initialized
  BY <1>1, <1>3
<1>5. LoopInv'
  BY <1>1, <1>2, <1>4, MoveKeeps DEF LoopInv
<1>6. QChecked'
  BY <1>1 DEF QChecked, Encoded, sourceVars
<1> QED BY <1>5, <1>6 DEF Inv

LEMMA SubmitStepKeeps ==
  ASSUME Inv, Submit
  PROVE  LoopInv'
<1>1. pc = "submit"
  BY DEF Submit
<1>2. CanSubmit(SlotOf(submitted)) /\ FrameQ \in Int
  BY <1>1, FrameCanBeSubmitted
<1>3. /\ SubmitDecoder(SlotOf(submitted), FrameQ)
      /\ host_frame' = [host_frame EXCEPT ![SlotOf(submitted)] = submitted]
      /\ submitted' = submitted + 1
      /\ pc' = "loop"
      /\ UNCHANGED <<sourceVars, frames, output, flushed>>
  BY <1>2 DEF Submit
<1>4. host_frame' \in [SlotIds -> Content]
  <2>1. submitted \in Content
    BY LengthTypes DEF Inv, LoopInv, BufferedInv, Content
  <2> QED BY <1>3, <2>1 DEF Inv, LoopInv, BufferedInv, LoopState, GraphType
<1> QED BY <1>1, <1>2, <1>3, <1>4, SubmitFrameKeeps DEF Inv, LoopInv

LEMMA SubmitThrowsKeeps ==
  ASSUME LoopInv, SubmitThrows
  PROVE  LoopInv'
<1>1. /\ pc = "submit" /\ pc' = "throw"
      /\ UNCHANGED <<sourceVars, host_q, host_result, pending, completed, stream,
                     device, initialized, captureVars, live, submitted, frames,
                     output, flushed>>
  BY DEF SubmitThrows
<1>2. host_frame' \in [SlotIds -> Content]
  BY DEF SubmitThrows, LoopInv, BufferedInv, LoopState, GraphType, Content
<1>3. ~Ended
  BY <1>1 DEF Ended
<1> QED BY <1>1, <1>2, <1>3, FillFrameKeeps DEF LoopInv

LEMMA GpuKeeps ==
  ASSUME LoopInv, Gpu
  PROVE  LoopInv'
<1>1. DeviceStep /\ DecoderOperation /\ UNCHANGED <<sourceVars, loopVars>>
  BY DEF Gpu, DecoderOperation, DeviceStep
<1>2. GraphType(History)' /\ Ownership'
  BY <1>1, DecoderOperationKeeps DEF LoopInv, BufferedInv, LoopState, SlotDiscipline
<1> QED BY <1>1, <1>2, DeviceKeeps DEF LoopInv

(***************************************************************************)
(* The frame that passed the range check stays the one that is prepared,   *)
(* while more of the container arrives behind it.                          *)
(***************************************************************************)
LEMMA QStaysChecked ==
  ASSUME Inv, Source, pc' = pc, submitted' = submitted
  PROVE  QChecked'
<1> SUFFICES ASSUME pc \in {"reset", "submit"}
             PROVE  Encoded' = Encoded
  BY DEF Inv, QChecked
<1>1. submitted + 1 \in 1..Len(input) /\ input \in Seq(Frame)
  BY LengthTypes DEF Inv, LoopInv, BufferedInv, Control, LoopState, SourceType
<1>2. CASE Produce
  <2>1. PICK f \in Frame : input' = Append(input, f)
    BY <1>2 DEF Produce
  <2> QED BY <1>1, <2>1 DEF Encoded
<1>3. CASE Close
  BY <1>3 DEF Close, Encoded
<1> QED BY <1>2, <1>3 DEF Source

-----------------------------------------------------------------------------
LEMMA InductiveInv == Spec => []Inv
<1>1. Init => Inv
  <2>1. Garbage \in History
    BY DEF Garbage, History, Content, QValue
  <2>2. Init => LoopInv
    BY <2>1, InitialInv DEF Init, LoopInv
  <2>3. Init => QChecked
    BY DEF Init, LoopInit, QChecked
  <2> QED BY <2>2, <2>3 DEF Inv
<1>2. Inv /\ [Next]_vars => Inv'
  <2> SUFFICES ASSUME Inv, [Next]_vars
               PROVE  Inv'
    OBVIOUS
  <2> USE DEF Inv
  <2>1. CASE ReadFrame
    BY <2>1, ReadFrameKeeps DEF ReadFrame, QChecked
  <2>2. CASE ReadTruncated \/ LeaveLoop
    BY <2>2, StopReadingKeeps DEF ReadTruncated, LeaveLoop, QChecked
  <2>3. CASE ConsumeOldest
    BY <2>3, ConsumeOldestKeeps DEF ConsumeOldest, Deliver, ConsumeThrows, QChecked
  <2>4. CASE CheckFrame
    BY <2>4, CheckFrameKeeps
  <2>5. CASE BeginGop
    <3>1. LoopInv'
      BY <2>5, BeginGopKeeps DEF BeginGop, LoopInv
    <3>2. QChecked'
      BY <2>5 DEF BeginGop, QChecked, Encoded, sourceVars
    <3> QED BY <3>1, <3>2
  <2>6. CASE Submit
    <3>1. pc' = "loop"
      BY <2>6, FrameCanBeSubmitted DEF Submit
    <3> QED BY <2>6, <3>1, SubmitStepKeeps DEF QChecked
  <2>7. CASE SubmitThrows
    BY <2>7, SubmitThrowsKeeps DEF SubmitThrows, QChecked
  <2>8. CASE DrainOne
    <3>1. LoopInv'
      BY <2>8, DrainOneKeeps, DeliveredType DEF LoopInv
    <3>2. pc' \in {"drain", "throw"}
      BY <2>8 DEF DrainOne, Deliver, ConsumeThrows
    <3> QED BY <3>1, <3>2 DEF QChecked
  <2>9. CASE Finalize
    BY <2>9, FinalizeKeeps DEF LoopInv, Finalize, QChecked
  <2>10. CASE Leave
    BY <2>10, LeaveKeeps DEF LoopInv, Leave, QChecked
  <2>11. CASE Gpu
    <3>1. UNCHANGED <<pc, submitted, input>>
      BY <2>11 DEF Gpu, loopVars, sourceVars
    <3>2. QChecked'
      BY <3>1 DEF QChecked, Encoded
    <3> QED BY <2>11, <3>2, GpuKeeps
  <2>12. CASE FeedInput
    <3>1. LoopInv'
      BY <2>12, FeedInputKeeps DEF LoopInv
    <3>2. QChecked'
      BY <2>12, QStaysChecked DEF FeedInput, loopVars
    <3> QED BY <3>1, <3>2
  <2>13. CASE Over \/ UNCHANGED vars
    <3>1. LoopInv'
      BY <2>13, StutterKeeps DEF LoopInv, Over
    <3>2. QChecked'
      BY <2>13 DEF Over, vars, loopVars, sourceVars, QChecked, Encoded
    <3> QED BY <3>1, <3>2
  <2> QED BY <2>1, <2>2, <2>3, <2>4, <2>5, <2>6, <2>7, <2>8, <2>9, <2>10,
             <2>11, <2>12, <2>13 DEF Next, Host
<1> QED BY <1>1, <1>2, PTL DEF Spec

(***************************************************************************)
(* Every variable keeps its type, for any bundle and number of slots.      *)
(***************************************************************************)
THEOREM TypeCorrect == Spec => []TypeOK
<1>1. Inv => TypeOK
  BY DEF Inv, LoopInv, BufferedInv, LoopState, TypeOK
<1> QED BY <1>1, InductiveInv, PTL

(***************************************************************************)
(* pipeline.cpp:454-479 with cuda_graph_executor.cpp:336-373 and 393-400:  *)
(* counters, pending flags and queued copies agree at every moment.        *)
(***************************************************************************)
THEOREM SlotsAreOwned == Spec => []SlotDiscipline
<1>1. Inv => SlotDiscipline
  BY DEF Inv, LoopInv, BufferedInv
<1> QED BY <1>1, InductiveInv, PTL

(***************************************************************************)
(* cuda_graph_executor.cpp:402-412: no copy is queued on pinned memory     *)
(* that has been given back, whether the call returns or throws.           *)
(***************************************************************************)
THEOREM DestructionIsSafe == Spec => []PinnedOutlivesCopies
<1>1. Inv => PinnedOutlivesCopies
  BY DEF Inv, LoopInv, BufferedInv
<1> QED BY <1>1, InductiveInv, PTL

(***************************************************************************)
(* cuda_graph_executor.cpp:320-321 and 340-345, pipeline.cpp:464-465: none *)
(* of the loop's internal errors is ever raised.                           *)
(***************************************************************************)
THEOREM NoInternalError == Spec => []InternalGuardsHold
<1>1. Inv => InternalGuardsHold
  BY FrameCanBeSubmitted DEF InternalGuardsHold
<1> QED BY <1>1, InductiveInv, PTL

(***************************************************************************)
(* backend.hpp:68-69: decode_into writes a slot's latents only when no     *)
(* queued copy of that slot is left.                                       *)
(***************************************************************************)
LEMMA WriterOwnsSlot ==
  ASSUME Inv, Submit \/ SubmitThrows, NEW s \in SlotIds,
         host_frame'[s] # host_frame[s], NEW k \in 1..Len(stream)
  PROVE  stream[k].slot # s
<1>1. InputsAvailable
  BY DEF Submit, SubmitThrows
<1>2. s = SlotOf(submitted)
  BY DEF Submit, SubmitThrows, Inv, LoopInv, BufferedInv, LoopState, GraphType
<1>3. SlotReady(s)
  BY <1>1, <1>2 DEF InputsAvailable, SlotReady
<1>4. SlotTypes /\ Ownership
  BY GraphTypeGivesSlotTypes DEF Inv, LoopInv, BufferedInv, LoopState, SlotDiscipline
<1> QED BY <1>3, <1>4, ReadySlotIsIdle

LEMMA OthersLeaveFramesAlone ==
  ASSUME [Next]_vars, ~Submit, ~SubmitThrows
  PROVE  host_frame' = host_frame
<1>1. CASE ConsumeOldest \/ DrainOne
  BY <1>1 DEF ConsumeOldest, DrainOne, Deliver, ConsumeThrows
<1>2. CASE ReadFrame \/ ReadTruncated \/ LeaveLoop \/ CheckFrame \/ Finalize
  BY <1>2 DEF ReadFrame, ReadTruncated, LeaveLoop, CheckFrame, Finalize,
              graphVars, slotVars
<1>3. CASE BeginGop \/ Leave
  BY <1>3 DEF BeginGop, Leave, ResetState, DestroyGraph, slotVars
<1>4. CASE Gpu
  BY <1>4, DeviceStepOnQueue DEF Gpu, DecoderOperation, DeviceStep
<1>5. CASE FeedInput \/ Over \/ UNCHANGED vars
  BY <1>5 DEF FeedInput, Over, vars, graphVars, slotVars
<1> QED BY <1>1, <1>2, <1>3, <1>4, <1>5 DEF Next, Host

THEOREM HostWaitsBeforeReuse == Spec => BuffersReusedAfterWait
<1>1. Inv /\ [Next]_vars =>
        [\A s \in SlotIds :
           host_frame'[s] # host_frame[s] =>
             \A k \in 1..Len(stream) : stream[k].slot # s]_vars
  BY WriterOwnsSlot, OthersLeaveFramesAlone
<1> QED BY <1>1, InductiveInv, PTL DEF Spec, BuffersReusedAfterWait

-----------------------------------------------------------------------------
(***************************************************************************)
(* The device replays the order of submission (BufferedLoopProofs): what   *)
(* the thread's own steps contribute to SessionInv.                        *)
(***************************************************************************)
LEMMA DirectionIsDecoding ==
  ASSUME LoopInv
  PROVE  ~Encoding
BY Decodes DEF LoopInv, BufferedInv, LoopState, SourceType, Options, Encoding

LEMMA ReadFrameKeepsSession ==
  ASSUME Inv, SessionInv, ReadFrame \/ LeaveLoop
  PROVE  SessionInv'
<1>1. /\ pc = "loop"
      /\ UNCHANGED <<sourceVars, graphVars, submitted, frames, output, flushed>>
  BY DEF ReadFrame, LeaveLoop, Reading
<1>2. UNCHANGED <<stream, device, host_q, host_result, completed, host_frame>>
  BY <1>1 DEF graphVars, slotVars
<1>3. \/ pc' = "consume" /\ ~LimitReached(submitted)
      \/ /\ pc' = "drain"
         /\ LimitReached(submitted) \/ (tail = "eof" /\ submitted = Len(input))
  BY DEF ReadFrame, LeaveLoop, Reading
<1>4. Active
  BY <1>1 DEF Active
<1> QED BY <1>1, <1>2, <1>3, <1>4, MoveKeepsSession DEF Inv, LoopInv

\* pipeline.cpp:454-455: the container ends inside a frame.
LEMMA ReadTruncatedKeepsSession ==
  ASSUME Inv, SessionInv, ReadTruncated
  PROVE  SessionInv'
<1>1. /\ pc' = "throw"
      /\ UNCHANGED <<sourceVars, submitted, frames>>
      /\ Excuse
      /\ tail # "open" /\ submitted = Len(input)
  BY DEF ReadTruncated, Excuse
<1>2. WholeLoss
  BY <1>1, DirectionIsDecoding DEF WholeLoss, Inv
<1> QED BY <1>1, <1>2, ThrowKeepsSession DEF Inv, LoopInv

\* pipeline.cpp:456-457: the oldest frame in flight is consumed.
LEMMA ConsumeOldestKeepsSession ==
  ASSUME Inv, SessionInv, ConsumeOldest
  PROVE  SessionInv'
<1>1. pc = "consume" /\ Full
  BY DEF ConsumeOldest
<1>2. frames < submitted
  BY <1>1, LengthTypes DEF Inv, LoopInv, BufferedInv, Full
<1>3. CASE Deliver("consume")
  BY <1>1, <1>2, <1>3, DeliverKeepsSession DEF Inv, LoopInv
<1>4. CASE ConsumeThrows
  BY <1>2, <1>4, ConsumeThrowsKeepsSession DEF Inv, LoopInv
<1> QED BY <1>3, <1>4 DEF ConsumeOldest

(***************************************************************************)
(* A frame the loop refuses is one the session may fail for.               *)
(***************************************************************************)
LEMMA FaultyFrameIsExcuse ==
  ASSUME Inv, submitted < Len(input), ~ValidQ(Config, Encoded.q) \/ ~Encoded.codable
  PROVE  Excuse
<1>1. submitted + 1 \in 1..Len(input)
  BY LengthTypes DEF Inv, LoopInv, BufferedInv
<1>2. FrameFaulty(input[submitted + 1])
  BY DEF Encoded, FrameFaulty
<1> QED BY <1>1, <1>2 DEF Excuse

\* pipeline.cpp:458-461: the q-index of the frame is checked behind the consume.
LEMMA CheckFrameKeepsSession ==
  ASSUME Inv, SessionInv, CheckFrame
  PROVE  SessionInv'
<1>1. /\ pc = "consume" /\ ~Full
      /\ pc' = IF ~ValidQ(Config, Encoded.q) THEN "throw"
               ELSE IF FrameInGop(Config, submitted) = 0 THEN "reset"
               ELSE "submit"
      /\ UNCHANGED <<sourceVars, graphVars, submitted, frames, output, flushed>>
  BY DEF CheckFrame
<1>2. submitted < Len(input) /\ ~LimitReached(submitted)
  BY <1>1 DEF Inv, LoopInv, BufferedInv, Control, SessionInv, Progress
<1>3. CASE ~ValidQ(Config, Encoded.q)
  <2>1. Excuse
    BY <1>2, <1>3, FaultyFrameIsExcuse
  <2> QED BY <1>1, <1>3, <2>1, ThrowKeepsSession DEF Inv, LoopInv
<1>4. CASE ValidQ(Config, Encoded.q)
  <2>1. UNCHANGED <<stream, device, host_q, host_result, completed, host_frame>>
    BY <1>1 DEF graphVars, slotVars
  <2>2. Active /\ ~Encoding
    BY <1>1, DirectionIsDecoding DEF Active, Inv
  <2> QED BY <1>1, <1>2, <1>4, <2>1, <2>2, MoveKeepsSession DEF Inv, LoopInv
<1> QED BY <1>3, <1>4

(***************************************************************************)
(* pipeline.cpp:463-476: the latents go to the device with the QP phase of *)
(* the frame's own position in its GOP.                                    *)
(***************************************************************************)
LEMMA SubmitStepKeepsSession ==
  ASSUME Inv, SessionInv, Submit
  PROVE  SessionInv'
<1>1. pc = "submit" /\ Encoded.codable
  BY DEF Submit
<1>2. CanSubmit(SlotOf(submitted))
  BY <1>1, FrameCanBeSubmitted
<1>3. ValidQ(Config, Encoded.q) /\ ~Encoding
  BY <1>1, DirectionIsDecoding DEF Inv, QChecked
<1>4. Step(submitted)[2] = FrameQ
  BY DEF Step, FrameQ, Encoded
<1>5. /\ SubmitDecoder(SlotOf(submitted), Step(submitted)[2])
      /\ host_frame' = [host_frame EXCEPT ![SlotOf(submitted)] = submitted]
      /\ submitted' = submitted + 1
      /\ pc' = "loop"
      /\ UNCHANGED <<sourceVars, frames>>
  BY <1>2, <1>4 DEF Submit
<1> QED BY <1>1, <1>3, <1>5, SubmitKeepsSession DEF Inv, LoopInv, Encoded

\* pipeline.cpp:468-473: decode_into throws, and only on a bad payload.
LEMMA SubmitThrowsKeepsSession ==
  ASSUME Inv, SessionInv, SubmitThrows
  PROVE  SessionInv'
<1>1. /\ pc = "submit" /\ pc' = "throw"
      /\ UNCHANGED <<sourceVars, submitted, frames>>
  BY DEF SubmitThrows
<1>2. ~Encoded.codable
  BY <1>1, FrameCanBeSubmitted DEF SubmitThrows
<1>3. submitted < Len(input) /\ ~Full
  BY <1>1 DEF Inv, LoopInv, BufferedInv, Control
<1>4. Excuse
  BY <1>2, <1>3, FaultyFrameIsExcuse
<1> QED BY <1>1, <1>3, <1>4, ThrowKeepsSession DEF Inv, LoopInv

LEMMA SessionInductive == Spec => []SessionInv
<1>1. Init => SessionInv
  BY InitialSession DEF Init
<1>2. Inv /\ SessionInv /\ [Next]_vars => SessionInv'
  <2> SUFFICES ASSUME Inv, SessionInv, [Next]_vars
               PROVE  SessionInv'
    OBVIOUS
  <2>1. CASE ReadFrame \/ LeaveLoop
    BY <2>1, ReadFrameKeepsSession
  <2>2. CASE ReadTruncated
    BY <2>2, ReadTruncatedKeepsSession
  <2>3. CASE ConsumeOldest
    BY <2>3, ConsumeOldestKeepsSession
  <2>4. CASE CheckFrame
    BY <2>4, CheckFrameKeepsSession
  <2>5. CASE BeginGop
    BY <2>5, ResetKeepsSession DEF BeginGop, Inv, LoopInv
  <2>6. CASE Submit
    BY <2>6, SubmitStepKeepsSession
  <2>7. CASE SubmitThrows
    BY <2>7, SubmitThrowsKeepsSession
  <2>8. CASE DrainOne
    BY <2>8, DrainOneKeepsSession DEF Inv, LoopInv
  <2>9. CASE Finalize
    BY <2>9, FinalizeKeepsSession DEF Inv, LoopInv
  <2>10. CASE Leave
    BY <2>10, LeaveKeepsSession DEF Inv, LoopInv
  <2>11. CASE Gpu
    BY <2>11, DeviceKeepsSession DEF Gpu, DecoderOperation, DeviceStep, Inv, LoopInv
  <2>12. CASE FeedInput
    BY <2>12, FeedInputKeepsSession DEF Inv, LoopInv
  <2>13. CASE Over \/ UNCHANGED vars
    BY <2>13, StutterKeepsSession DEF Inv, LoopInv, Over
  <2> QED BY <2>1, <2>2, <2>3, <2>4, <2>5, <2>6, <2>7, <2>8, <2>9, <2>10,
             <2>11, <2>12, <2>13 DEF Next, Host
<1> QED BY <1>1, <1>2, InductiveInv, PTL DEF Spec

(***************************************************************************)
(* pipeline.cpp:454-477: a bad frame is found behind the consume, so fewer *)
(* complete pictures are lost than there are slots.                        *)
(***************************************************************************)
THEOREM BadFrameLosesLittle == Spec => []LossIsBounded
<1>1. Inv /\ SessionInv => LossIsBounded
  <2> SUFFICES ASSUME Inv, SessionInv, pc = "failed", BadFrameRead
               PROVE  submitted - frames < Slots
    BY DEF LossIsBounded
  <2>1. ~WholeLoss
    BY LengthTypes, DirectionIsDecoding
       DEF WholeLoss, BadFrameRead, Inv, LoopInv, BufferedInv
  <2>2. ~Full
    BY <2>1 DEF SessionInv, FailureExplained
  <2> QED BY <2>2, LengthTypes
          DEF Full, Inv, LoopInv, BufferedInv, SlotDiscipline, Accounting
<1> QED BY <1>1, InductiveInv, SessionInductive, PTL

(***************************************************************************)
(* Every step of the buffered loop is a step of the session, or one the    *)
(* caller does not see.                                                    *)
(***************************************************************************)
LEMMA StepImplementsSession ==
  ASSUME Inv, SessionInv, [Next]_vars
  PROVE  [Session!Next]_(Session!sessionVars)
<1>1. CASE ConsumeOldest
  <2>1. pc = "consume" /\ Full
    BY <1>1 DEF ConsumeOldest
  <2>2. frames < submitted
    BY <2>1, LengthTypes DEF Inv, LoopInv, BufferedInv, Full
  <2>3. CASE Deliver("consume")
    BY <2>1, <2>2, <2>3, SessionEmits DEF Inv, LoopInv
  <2>4. CASE ConsumeThrows
    BY <2>1, <2>4, SessionRests DEF ConsumeThrows, Ended
  <2> QED BY <1>1, <2>3, <2>4 DEF ConsumeOldest
<1>2. CASE ReadFrame \/ ReadTruncated \/ LeaveLoop \/ CheckFrame \/ BeginGop
  <2>1. UNCHANGED <<sourceVars, output>>
    BY <1>2 DEF ReadFrame, ReadTruncated, LeaveLoop, CheckFrame, BeginGop
  <2>2. ~Ended /\ ~Ended'
    BY <1>2 DEF ReadFrame, ReadTruncated, LeaveLoop, CheckFrame, BeginGop, Reading,
                Ended
  <2> QED BY <2>1, <2>2, SessionRests
<1>3. CASE Submit \/ SubmitThrows \/ Finalize
  BY <1>3, SessionRests DEF Submit, SubmitThrows, Finalize, Ended
<1>4. CASE DrainOne
  <2>1. CASE Deliver("drain")
    BY <1>4, <2>1, SessionEmits DEF Inv, LoopInv, DrainOne
  <2>2. CASE ConsumeThrows
    BY <1>4, <2>2, SessionRests DEF ConsumeThrows, DrainOne, Ended
  <2> QED BY <1>4, <2>1, <2>2 DEF DrainOne
<1>5. CASE Leave
  BY <1>5, SessionEnds DEF Inv, LoopInv
<1>6. CASE Gpu
  <2>1. UNCHANGED <<sourceVars, output, pc>>
    BY <1>6 DEF Gpu, loopVars
  <2> QED BY <2>1 DEF Session!sessionVars, sourceVars, SessionStatus, Ended
<1>7. CASE FeedInput
  BY <1>7, SessionIsFed
<1>8. CASE Over \/ UNCHANGED vars
  BY <1>8, SessionStutters DEF Over
<1> QED BY <1>1, <1>2, <1>3, <1>4, <1>5, <1>6, <1>7, <1>8 DEF Next, Host

(***************************************************************************)
(* pipeline.cpp:426-487 with cuda_graph_executor.cpp:336-373: the pictures *)
(* come out in order, each from the features of its own GOP, for any       *)
(* bundle, number of slots and delay of the device.                        *)
(***************************************************************************)
THEOREM ImplementsSession == Spec => SessionSpec
<1>1. Init => Session!Init
  BY SessionBegins DEF Init
<1>2. Inv /\ SessionInv /\ [Next]_vars => [Session!Next]_(Session!sessionVars)
  BY StepImplementsSession
<1> QED BY <1>1, <1>2, InductiveInv, SessionInductive, PTL
        DEF Spec, SessionSpec, Session!Spec
=============================================================================
