------------------------ MODULE EncodeBufferedProofs ------------------------
(***************************************************************************)
(* encode_buffered, for every bundle, number of slots, input and delay of  *)
(* the device: types, slot ownership, the absence of internal errors, the  *)
(* bound on what a truncated input costs, and the session it implements.   *)
(***************************************************************************)
EXTENDS EncodeBuffered, BufferedLoopProofs

EncodedFrame == [q_index : Int, latents : History]

Inv == BufferedInv(Content, EncodedFrame)

LEMMA OptionsAreTheEncoders ==
  ASSUME SourceType
  PROVE  Encoding /\ options.q_index \in Int /\ ValidQ(Config, options.q_index)
<1>1. Encoding
  BY Encodes DEF SourceType, Options, Encoding
<1> QED
  BY <1>1, SourceAssumption DEF SourceType, Options, QOptions, Encoding

LEMMA DeliveredType ==
  ASSUME Inv
  PROVE  Delivered(SlotOf(frames)) \in EncodedFrame
<1>1. SlotOf(frames) \in SlotIds
  BY LengthTypes, SlotOfIsSlot DEF Inv, BufferedInv
<1>2. host_result[SlotOf(frames)] \in History
  BY <1>1 DEF Inv, BufferedInv, LoopState, GraphType
<1>3. Encoding /\ options.q_index \in Int
  BY OptionsAreTheEncoders DEF Inv, BufferedInv, LoopState
<1> QED BY <1>2, <1>3 DEF Delivered, EncodedFrame

(***************************************************************************)
(* The shifted q-index that Submit computes, and CanSubmitFrame's truth.   *)
(***************************************************************************)
LEMMA FrameCanBeSubmitted ==
  ASSUME Inv, pc = "submit"
  PROVE  /\ CanSubmitFrame
         /\ ShiftedQ(Config, options.q_index, submitted) \in Int
<1> USE DEF Inv, BufferedInv
<1>1. /\ SlotOf(submitted) \in SlotIds
      /\ ~pending[SlotOf(submitted)]
      /\ initialized
  BY NextSlotIsFree DEF Control, SlotDiscipline
<1>2. options.q_index \in Int /\ ValidQ(Config, options.q_index)
  BY OptionsAreTheEncoders DEF LoopState
<1>3. ShiftedQ(Config, options.q_index, submitted) \in 0..(Config.total_qp_num - 1)
  BY <1>2, LengthTypes, ConfigAssumption, ScheduleInRange
<1> QED BY <1>1, <1>3 DEF CanSubmitFrame, CanSubmit

-----------------------------------------------------------------------------
(***************************************************************************)
(* One lemma for each step of the thread that is not BufferedLoop's.       *)
(***************************************************************************)
LEMMA ConsumeOldestKeeps ==
  ASSUME Inv, ConsumeOldest
  PROVE  Inv'
<1> USE DEF Inv
<1>1. pc = "loop" /\ Full
  BY DEF ConsumeOldest, Reading
<1>2. frames < submitted
  BY <1>1, LengthTypes DEF BufferedInv, Full
<1>3. CASE Deliver("loop")
  BY <1>1, <1>2, <1>3, DeliveredType, DeliverKeeps
<1>4. CASE ConsumeThrows
  BY <1>1, <1>4, ConsumeThrowsKeeps DEF Ended
<1> QED BY <1>3, <1>4 DEF ConsumeOldest

LEMMA ReadFrameKeeps ==
  ASSUME Inv, ReadFrame
  PROVE  Inv'
<1> USE DEF Inv
<1> DEFINE s == SlotOf(submitted)
<1>1. /\ pc = "loop"
      /\ ~Full
      /\ UNCHANGED <<sourceVars, host_q, host_result, pending, completed, stream,
                     device, initialized, captureVars, live, submitted, frames,
                     output, flushed>>
  BY DEF ReadFrame, Reading
<1>2. s \in SlotIds /\ ~pending[s]
  BY <1>1, NextSlotIsFree DEF BufferedInv, SlotDiscipline
<1>3. /\ submitted < Len(input)
      /\ host_frame' = [host_frame EXCEPT ![s] = submitted]
      /\ pc' = IF FrameInGop(Config, submitted) = 0 THEN "reset" ELSE "submit"
  BY <1>2 DEF ReadFrame
<1>4. host_frame' \in [SlotIds -> Content]
  <2>1. submitted \in Content
    BY LengthTypes DEF BufferedInv, Content
  <2> QED BY <1>3, <2>1 DEF BufferedInv, LoopState, GraphType
<1>5. FrameInGop(Config, submitted) # 0 => initialized
  <2>1. FrameInGop(Config, submitted) # 0 => submitted > 0
    BY LengthTypes, FirstFrameBeginsGop DEF BufferedInv
  <2> QED BY <2>1 DEF BufferedInv, Control
<1>6. ~Ended
  BY <1>1 DEF Ended
<1>7. \/ pc' = "reset" /\ submitted < Len(input) /\ ~Full
      \/ pc' = "submit" /\ submitted < Len(input) /\ ~Full /\ initialized
  BY <1>1, <1>3, <1>5
<1>8. pc # "throw"
  BY <1>1
<1> QED BY <1>1, <1>4, <1>6, <1>7, <1>8, FillFrameKeeps

LEMMA ReadTruncatedKeeps ==
  ASSUME Inv, ReadTruncated
  PROVE  Inv'
<1> USE DEF Inv
<1>1. /\ pc = "loop" /\ pc' = "throw"
      /\ host_frame' = [host_frame EXCEPT ![SlotOf(submitted)] = Undefined]
      /\ UNCHANGED <<sourceVars, host_q, host_result, pending, completed, stream,
                     device, initialized, captureVars, live, submitted, frames,
                     output, flushed>>
  BY DEF ReadTruncated, Reading
<1>2. host_frame' \in [SlotIds -> Content]
  BY <1>1 DEF BufferedInv, LoopState, GraphType, Content
<1>3. ~Ended
  BY <1>1 DEF Ended
<1> QED BY <1>1, <1>2, <1>3, FillFrameKeeps

LEMMA LeaveLoopKeeps ==
  ASSUME Inv, LeaveLoop
  PROVE  Inv'
<1>1. /\ pc = "loop" /\ pc' = "drain"
      /\ UNCHANGED <<sourceVars, graphVars, submitted, frames, output, flushed>>
  BY DEF LeaveLoop
<1>2. ~Ended
  BY <1>1 DEF Ended
<1> QED BY <1>1, <1>2, MoveKeeps DEF Inv

LEMMA SubmitStepKeeps ==
  ASSUME Inv, Submit
  PROVE  Inv'
<1> DEFINE q == ShiftedQ(Config, options.q_index, submitted)
<1>1. pc = "submit"
  BY DEF Submit
<1>2. CanSubmitFrame /\ q \in Int
  BY <1>1, FrameCanBeSubmitted
<1>3. /\ SubmitEncoder(SlotOf(submitted), q)
      /\ submitted' = submitted + 1
      /\ pc' = "loop"
      /\ UNCHANGED <<sourceVars, frames, output, flushed>>
  BY <1>2 DEF Submit
<1>4. host_frame' \in [SlotIds -> Content]
  BY <1>3 DEF SubmitEncoder, Inv, BufferedInv, LoopState, GraphType
<1> HIDE DEF q
<1> QED BY <1>1, <1>2, <1>3, <1>4, SubmitFrameKeeps DEF Inv

LEMMA GpuKeeps ==
  ASSUME Inv, Gpu
  PROVE  Inv'
<1>1. DeviceStep /\ EncoderOperation /\ UNCHANGED <<sourceVars, loopVars>>
  BY DEF Gpu, EncoderOperation, DeviceStep
<1>2. GraphType(Content)' /\ Ownership'
  BY <1>1, EncoderOperationKeeps DEF Inv, BufferedInv, LoopState, SlotDiscipline
<1> QED BY <1>1, <1>2, DeviceKeeps DEF Inv

-----------------------------------------------------------------------------
LEMMA InductiveInv == Spec => []Inv
<1>1. Init => Inv
  BY InitialInv DEF Init, Inv, Content
<1>2. Inv /\ [Next]_vars => Inv'
  <2> SUFFICES ASSUME Inv, [Next]_vars
               PROVE  Inv'
    OBVIOUS
  <2>1. CASE ConsumeOldest
    BY <2>1, ConsumeOldestKeeps
  <2>2. CASE ReadFrame
    BY <2>2, ReadFrameKeeps
  <2>3. CASE ReadTruncated
    BY <2>3, ReadTruncatedKeeps
  <2>4. CASE LeaveLoop
    BY <2>4, LeaveLoopKeeps
  <2>5. CASE BeginGop
    BY <2>5, BeginGopKeeps DEF BeginGop, Inv
  <2>6. CASE Submit
    BY <2>6, SubmitStepKeeps
  <2>7. CASE DrainOne
    BY <2>7, DrainOneKeeps, DeliveredType DEF Inv
  <2>8. CASE Finalize
    BY <2>8, FinalizeKeeps DEF Inv
  <2>9. CASE Leave
    BY <2>9, LeaveKeeps DEF Inv
  <2>10. CASE Gpu
    BY <2>10, GpuKeeps
  <2>11. CASE FeedInput
    BY <2>11, FeedInputKeeps DEF Inv
  <2>12. CASE Over \/ UNCHANGED vars
    BY <2>12, StutterKeeps DEF Inv, Over
  <2> QED BY <2>1, <2>2, <2>3, <2>4, <2>5, <2>6, <2>7, <2>8, <2>9, <2>10,
             <2>11, <2>12 DEF Next, Host
<1> QED BY <1>1, <1>2, PTL DEF Spec

(***************************************************************************)
(* Every variable keeps its type, for any bundle and number of slots.      *)
(***************************************************************************)
THEOREM TypeCorrect == Spec => []TypeOK
<1>1. Inv => TypeOK
  BY DEF Inv, BufferedInv, LoopState, TypeOK, EncodedFrame
<1> QED BY <1>1, InductiveInv, PTL

(***************************************************************************)
(* pipeline.cpp:396-415 with cuda_graph_executor.cpp:261-290 and 393-400:  *)
(* counters, pending flags and queued copies agree at every moment.        *)
(***************************************************************************)
THEOREM SlotsAreOwned == Spec => []SlotDiscipline
<1>1. Inv => SlotDiscipline
  BY DEF Inv, BufferedInv
<1> QED BY <1>1, InductiveInv, PTL

(***************************************************************************)
(* cuda_graph_executor.cpp:402-412: no copy is queued on pinned memory     *)
(* that has been given back, whether the call returns or throws.           *)
(***************************************************************************)
THEOREM DestructionIsSafe == Spec => []PinnedOutlivesCopies
<1>1. Inv => PinnedOutlivesCopies
  BY DEF Inv, BufferedInv
<1> QED BY <1>1, InductiveInv, PTL

(***************************************************************************)
(* cuda_graph_executor.cpp:248-249 and 265-270, pipeline.cpp:408-409: none *)
(* of the loop's internal errors is ever raised.                           *)
(***************************************************************************)
THEOREM NoInternalError == Spec => []InternalGuardsHold
<1>1. Inv => InternalGuardsHold
  <2> SUFFICES ASSUME Inv
               PROVE  InternalGuardsHold
    OBVIOUS
  <2>1. ASSUME Reading, ~Full
        PROVE  ~pending[SlotOf(submitted)]
    BY <2>1, NextSlotIsFree DEF Inv, BufferedInv, SlotDiscipline, Reading
  <2>2. ASSUME pc = "submit"
        PROVE  CanSubmitFrame
    BY <2>2, FrameCanBeSubmitted
  <2> QED BY <2>1, <2>2 DEF InternalGuardsHold
<1> QED BY <1>1, InductiveInv, PTL

(***************************************************************************)
(* backend.hpp:68-69: the thread writes a slot's frame buffer only when no *)
(* queued copy of that slot is left.                                       *)
(***************************************************************************)
LEMMA WriterOwnsSlot ==
  ASSUME Inv, ReadFrame \/ ReadTruncated, NEW s \in SlotIds,
         host_frame'[s] # host_frame[s]
  PROVE  \A k \in 1..Len(stream) : stream[k].slot # s
<1> USE DEF Inv, BufferedInv
<1>1. pc = "loop" /\ ~Full
  BY DEF ReadFrame, ReadTruncated, Reading, InputOver
<1>2. ~pending[SlotOf(submitted)]
  BY <1>1, NextSlotIsFree DEF SlotDiscipline
<1>3. s = SlotOf(submitted)
  BY DEF ReadFrame, ReadTruncated, LoopState, GraphType
<1>4. SlotTypes /\ Ownership
  BY GraphTypeGivesSlotTypes DEF LoopState, SlotDiscipline
<1> QED BY <1>2, <1>3, <1>4, ReadySlotIsIdle DEF SlotReady

LEMMA OthersLeaveFramesAlone ==
  ASSUME [Next]_vars, ~ReadFrame, ~ReadTruncated
  PROVE  host_frame' = host_frame
<1>1. CASE ConsumeOldest \/ DrainOne
  BY <1>1 DEF ConsumeOldest, DrainOne, Deliver, ConsumeThrows
<1>2. CASE LeaveLoop \/ Finalize
  BY <1>2 DEF LeaveLoop, Finalize, graphVars, slotVars
<1>3. CASE BeginGop \/ Leave
  BY <1>3 DEF BeginGop, Leave, ResetState, DestroyGraph, slotVars
<1>4. CASE Submit
  BY <1>4 DEF Submit, SubmitEncoder, graphVars, slotVars
<1>5. CASE Gpu
  BY <1>5, DeviceStepOnQueue DEF Gpu, EncoderOperation, DeviceStep
<1>6. CASE FeedInput \/ Over \/ UNCHANGED vars
  BY <1>6 DEF FeedInput, Over, vars, graphVars, slotVars
<1> QED BY <1>1, <1>2, <1>3, <1>4, <1>5, <1>6 DEF Next, Host

THEOREM HostWaitsBeforeReuse == Spec => BuffersReusedAfterWait
<1>1. Inv /\ [Next]_vars =>
        [\A s \in SlotIds :
           host_frame'[s] # host_frame[s] =>
             \A k \in 1..Len(stream) : stream[k].slot # s]_vars
  BY WriterOwnsSlot, OthersLeaveFramesAlone
<1> QED BY <1>1, InductiveInv, PTL DEF Spec, BuffersReusedAfterWait

-----------------------------------------------------------------------------
(***************************************************************************)
(* The device replays the order of submission (BufferedLoopProofs): what   *)
(* the thread's own steps contribute to SessionInv.                        *)
(*                                                                         *)
(* pipeline.cpp:399-402: the frame is read into the buffer of its own      *)
(* slot, which no frame in flight shares.                                  *)
(***************************************************************************)
LEMMA ReadFrameKeepsSession ==
  ASSUME Inv, SessionInv, ReadFrame
  PROVE  SessionInv'
<1> USE DEF Inv
<1> DEFINE s == SlotOf(submitted)
<1>1. /\ pc = "loop" /\ ~LimitReached(submitted) /\ ~Full
      /\ UNCHANGED <<sourceVars, stream, device, host_q, host_result, completed,
                     submitted, frames>>
  BY DEF ReadFrame, Reading
<1>2. s \in SlotIds /\ ~pending[s] /\ submitted - frames < Slots
  BY <1>1, NextSlotIsFree DEF BufferedInv, SlotDiscipline
<1>3. /\ host_frame' = [host_frame EXCEPT ![s] = submitted]
      /\ pc' = IF FrameInGop(Config, submitted) = 0 THEN "reset" ELSE "submit"
  BY <1>2 DEF ReadFrame
<1>4. host_frame \in [SlotIds -> Content]
  BY DEF BufferedInv, LoopState, GraphType
<1>5. host_frame'[s] = submitted
  BY <1>2, <1>3, <1>4
<1>6. ASSUME NEW i \in frames..(submitted - 1)
      PROVE  host_frame'[SlotOf(i)] = host_frame[SlotOf(i)]
  <2>1. i \in Nat /\ i < submitted /\ submitted < i + Slots
    BY <1>2, LengthTypes DEF BufferedInv
  <2>2. SlotOf(i) # s /\ SlotOf(i) \in SlotIds
    BY <2>1, LengthTypes, SlotOfDistinct, SlotOfIsSlot DEF BufferedInv
  <2> QED BY <1>2, <1>3, <1>4, <2>2
<1>7. Active /\ pc # "submit" /\ pc' # pc
  BY <1>1, <1>3 DEF Active
<1> QED BY <1>1, <1>3, <1>5, <1>6, <1>7, MoveKeepsSession

\* pipeline.cpp:401-402: the input ends inside a frame.
LEMMA ReadTruncatedKeepsSession ==
  ASSUME Inv, SessionInv, ReadTruncated
  PROVE  SessionInv'
<1>1. /\ pc' = "throw" /\ UNCHANGED <<sourceVars, submitted, frames>>
      /\ Excuse /\ ~Full
  BY DEF ReadTruncated, InputOver, Excuse
<1> QED BY <1>1, ThrowKeepsSession DEF Inv

\* pipeline.cpp:397-398: the oldest frame in flight is consumed.
LEMMA ConsumeOldestKeepsSession ==
  ASSUME Inv, SessionInv, ConsumeOldest
  PROVE  SessionInv'
<1>1. pc = "loop" /\ Full
  BY DEF ConsumeOldest, Reading
<1>2. frames < submitted
  BY <1>1, LengthTypes DEF Inv, BufferedInv, Full
<1>3. CASE Deliver("loop")
  BY <1>1, <1>2, <1>3, DeliverKeepsSession DEF Inv
<1>4. CASE ConsumeThrows
  BY <1>2, <1>4, ConsumeThrowsKeepsSession DEF Inv
<1> QED BY <1>3, <1>4 DEF ConsumeOldest

LEMMA LeaveLoopKeepsSession ==
  ASSUME Inv, SessionInv, LeaveLoop
  PROVE  SessionInv'
<1>1. /\ pc = "loop" /\ pc' = "drain"
      /\ UNCHANGED <<sourceVars, graphVars, submitted, frames, output, flushed>>
      /\ LimitReached(submitted) \/ (tail = "eof" /\ submitted = Len(input))
  BY DEF LeaveLoop, InputOver
<1>2. UNCHANGED <<stream, device, host_q, host_result, completed, host_frame>>
  BY <1>1 DEF graphVars, slotVars
<1>3. Active
  BY <1>1 DEF Active
<1> QED BY <1>1, <1>2, <1>3, MoveKeepsSession DEF Inv

(***************************************************************************)
(* pipeline.cpp:404-411: the frame goes to the device with the QP phase of *)
(* its own position in its GOP.                                            *)
(***************************************************************************)
LEMMA SubmitStepKeepsSession ==
  ASSUME Inv, SessionInv, Submit
  PROVE  SessionInv'
<1>1. pc = "submit"
  BY DEF Submit
<1>2. CanSubmitFrame
  BY <1>1, FrameCanBeSubmitted
<1>3. submitted + 1 \in 1..Len(input)
  BY <1>1, LengthTypes DEF Inv, BufferedInv, Control
<1>4. Encoding /\ ValidQ(Config, options.q_index)
  BY OptionsAreTheEncoders DEF Inv, BufferedInv, LoopState
<1>5. input[submitted + 1].q = options.q_index
  BY <1>3, <1>4 DEF SessionInv, InputSound
<1>6. Step(submitted)[2] = ShiftedQ(Config, options.q_index, submitted)
  BY <1>5 DEF Step
<1>7. /\ SubmitEncoder(SlotOf(submitted), Step(submitted)[2])
      /\ submitted' = submitted + 1
      /\ pc' = "loop"
      /\ UNCHANGED <<sourceVars, frames>>
  BY <1>2, <1>6 DEF Submit
<1> QED BY <1>1, <1>4, <1>5, <1>7, SubmitKeepsSession DEF Inv

LEMMA SessionInductive == Spec => []SessionInv
<1>1. Init => SessionInv
  BY InitialSession DEF Init
<1>2. Inv /\ SessionInv /\ [Next]_vars => SessionInv'
  <2> SUFFICES ASSUME Inv, SessionInv, [Next]_vars
               PROVE  SessionInv'
    OBVIOUS
  <2>1. CASE ConsumeOldest
    BY <2>1, ConsumeOldestKeepsSession
  <2>2. CASE ReadFrame
    BY <2>2, ReadFrameKeepsSession
  <2>3. CASE ReadTruncated
    BY <2>3, ReadTruncatedKeepsSession
  <2>4. CASE LeaveLoop
    BY <2>4, LeaveLoopKeepsSession
  <2>5. CASE BeginGop
    BY <2>5, ResetKeepsSession DEF BeginGop, Inv
  <2>6. CASE Submit
    BY <2>6, SubmitStepKeepsSession
  <2>7. CASE DrainOne
    BY <2>7, DrainOneKeepsSession DEF Inv
  <2>8. CASE Finalize
    BY <2>8, FinalizeKeepsSession DEF Inv
  <2>9. CASE Leave
    BY <2>9, LeaveKeepsSession DEF Inv
  <2>10. CASE Gpu
    BY <2>10, DeviceKeepsSession DEF Gpu, EncoderOperation, DeviceStep, Inv
  <2>11. CASE FeedInput
    BY <2>11, FeedInputKeepsSession DEF Inv
  <2>12. CASE Over \/ UNCHANGED vars
    BY <2>12, StutterKeepsSession DEF Inv, Over
  <2> QED BY <2>1, <2>2, <2>3, <2>4, <2>5, <2>6, <2>7, <2>8, <2>9, <2>10,
             <2>11, <2>12 DEF Next, Host
<1> QED BY <1>1, <1>2, InductiveInv, PTL DEF Spec

(***************************************************************************)
(* pipeline.cpp:396-412: a truncated input is found only with a free slot, *)
(* so fewer complete frames are lost than there are slots.                 *)
(***************************************************************************)
THEOREM TruncationLosesLittle == Spec => []LossIsBounded
<1>1. Inv /\ SessionInv => LossIsBounded
  <2> SUFFICES ASSUME Inv, SessionInv, pc = "failed", InputFault
               PROVE  submitted - frames < Slots
    BY DEF LossIsBounded
  <2>1. ~WholeLoss
    BY OptionsAreTheEncoders DEF WholeLoss, InputFault, Inv, BufferedInv, LoopState
  <2>2. ~Full
    BY <2>1 DEF SessionInv, FailureExplained
  <2> QED BY <2>2, LengthTypes
          DEF Full, Inv, BufferedInv, SlotDiscipline, Accounting
<1> QED BY <1>1, InductiveInv, SessionInductive, PTL

(***************************************************************************)
(* Every step of the buffered loop is a step of the session, or one the    *)
(* caller does not see.                                                    *)
(***************************************************************************)
LEMMA StepImplementsSession ==
  ASSUME Inv, SessionInv, [Next]_vars
  PROVE  [Session!Next]_(Session!sessionVars)
<1>1. CASE ConsumeOldest
  <2>1. pc = "loop" /\ Full
    BY <1>1 DEF ConsumeOldest, Reading
  <2>2. frames < submitted
    BY <2>1, LengthTypes DEF Inv, BufferedInv, Full
  <2>3. CASE Deliver("loop")
    BY <2>1, <2>2, <2>3, SessionEmits DEF Inv
  <2>4. CASE ConsumeThrows
    BY <2>1, <2>4, SessionRests DEF ConsumeThrows, Ended
  <2> QED BY <1>1, <2>3, <2>4 DEF ConsumeOldest
<1>2. CASE ReadFrame \/ ReadTruncated \/ LeaveLoop \/ BeginGop
  <2>1. UNCHANGED <<sourceVars, output>>
    BY <1>2 DEF ReadFrame, ReadTruncated, LeaveLoop, BeginGop
  <2>2. ~Ended /\ ~Ended'
    BY <1>2 DEF ReadFrame, ReadTruncated, LeaveLoop, BeginGop, Reading, Ended
  <2> QED BY <2>1, <2>2, SessionRests
<1>3. CASE Submit \/ Finalize
  BY <1>3, SessionRests DEF Submit, Finalize, Ended
<1>4. CASE DrainOne
  <2>1. CASE Deliver("drain")
    BY <1>4, <2>1, SessionEmits DEF Inv, DrainOne
  <2>2. CASE ConsumeThrows
    BY <1>4, <2>2, SessionRests DEF ConsumeThrows, DrainOne, Ended
  <2> QED BY <1>4, <2>1, <2>2 DEF DrainOne
<1>5. CASE Leave
  BY <1>5, SessionEnds DEF Inv
<1>6. CASE Gpu
  <2>1. UNCHANGED <<sourceVars, output, pc>>
    BY <1>6 DEF Gpu, loopVars
  <2> QED BY <2>1 DEF Session!sessionVars, sourceVars, SessionStatus, Ended
<1>7. CASE FeedInput
  BY <1>7, SessionIsFed
<1>8. CASE Over \/ UNCHANGED vars
  BY <1>8, SessionStutters DEF Over
<1> QED BY <1>1, <1>2, <1>3, <1>4, <1>5, <1>6, <1>7, <1>8 DEF Next, Host

(***************************************************************************)
(* pipeline.cpp:352-424 with cuda_graph_executor.cpp:261-290: what comes   *)
(* out is, frame by frame and in order, the model's result for the frames  *)
(* of the input, for any bundle, number of slots and delay of the device.  *)
(***************************************************************************)
THEOREM ImplementsSession == Spec => SessionSpec
<1>1. Init => Session!Init
  BY SessionBegins DEF Init
<1>2. Inv /\ SessionInv /\ [Next]_vars => [Session!Next]_(Session!sessionVars)
  BY StepImplementsSession
<1> QED BY <1>1, <1>2, InductiveInv, SessionInductive, PTL
        DEF Spec, SessionSpec, Session!Spec
=============================================================================
