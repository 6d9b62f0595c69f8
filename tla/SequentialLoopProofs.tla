------------------------ MODULE SequentialLoopProofs ------------------------
(***************************************************************************)
(* The sequential frame loops, for every bundle, input and direction, with *)
(* and without a state binding: they implement the session, and a call     *)
(* that fails has written every complete frame in front of the fault.      *)
(***************************************************************************)
EXTENDS SequentialLoop, ModelConfigProofs

Value == Int \cup {Undefined}
History == Seq(Value \X Value)
Written == History \cup [q_index : Int, latents : History]

LoopType ==
  /\ SourceType
  /\ device_state \in BOOLEAN
  /\ pc \in {"loop", "run", "write", "finish", "throw", "done", "failed"}
  /\ frames \in Nat
  /\ prepared \in BOOLEAN
  /\ reference \in History
  /\ result \in History
  /\ output \in Seq(Written)

Accounting ==
  /\ frames = Len(output)
  /\ frames <= Len(input)
  /\ options.frames # 0 => frames <= options.frames
  /\ Encoding => \A k \in 1..Len(input) : input[k].q = options.q_index

\* The feature the graph must find for frame i.
Before(i) == IF FrameInGop(Config, i) = 0 THEN <<>> ELSE Chain(i - 1)

\* What has been done to the frame at hand when the thread is at pc.
Control ==
  /\ pc \in {"run", "write"} =>
       /\ frames < Len(input)
       /\ ~LimitReached(frames)
       /\ ValidQ(Config, Current.q)
       /\ prepared
  /\ pc \in {"finish", "done"} =>
       LimitReached(frames) \/ (tail = "eof" /\ frames = Len(input))

(***************************************************************************)
(* The reference is the feature of the GOP so far, wherever it is kept.    *)
(***************************************************************************)
ReferenceFollows ==
  /\ pc = "loop" /\ FrameInGop(Config, frames) # 0 =>
       prepared /\ reference = Chain(frames - 1)
  /\ pc = "run" => reference = Before(frames)
  /\ pc = "write" =>
       /\ result = Chain(frames)
       /\ device_state => reference = Chain(frames)
       /\ ~Encoding => Current.codable

\* The fault a call that is failing has run into.
AtFault == IF frames < Len(input) THEN FrameFaulty(Current) ELSE tail = "truncated"

FailureExplained ==
  pc \in {"throw", "failed"} => options.sink_fails \/ AtFault

Inv == LoopType /\ Accounting /\ Control /\ ReferenceFollows /\ FailureExplained

(***************************************************************************)
(* The right results: one frame more each, whatever arrives later.         *)
(***************************************************************************)
LEMMA ChainGrows ==
  ASSUME NEW i \in Nat
  PROVE  Append(Before(i), Step(i)) = Chain(i)
<1> DEFINE S == {Step(m) : m \in Nat}
           f == [m \in Nat |-> Step(m)]
<1>1. f \in [Nat -> S] /\ f[i] = Step(i)
  OBVIOUS
<1>2. ASSUME NEW j \in Nat
      PROVE  Chain(j) = GopRun(Config, f, j)
  <2> DEFINE g == FrameInGop(Config, j)
  <2>1. g \in Nat /\ g <= j
    BY ConfigAssumption, FrameInGopIsNat, GopCounts
  <2>2. /\ Chain(j) = [k \in 1..(g + 1) |-> Step(j - g + k - 1)]
        /\ GopRun(Config, f, j) = [k \in 1..(g + 1) |-> f[j - g + k - 1]]
    BY DEF Chain, GopRun
  <2> HIDE DEF g
  <2>3. \A k \in 1..(g + 1) : j - g + k - 1 \in Nat
    BY <2>1
  <2>4. \A k \in 1..(g + 1) : f[j - g + k - 1] = Step(j - g + k - 1)
    BY <2>3
  <2> QED BY <2>2, <2>4
<1>3. FrameInGop(Config, i) # 0 => i - 1 \in Nat
  BY ConfigAssumption, GopCounts
<1>4. GopRun(Config, f, i)
        = Append(IF FrameInGop(Config, i) = 0 THEN <<>> ELSE GopRun(Config, f, i - 1), f[i])
  BY <1>1, ConfigAssumption, GopRunGrows
<1> HIDE DEF f
<1> QED BY <1>1, <1>2, <1>3, <1>4 DEF Before

LEMMA ResultsStay ==
  ASSUME SourceType, Source \/ UNCHANGED sourceVars
  PROVE  /\ Encoding' = Encoding /\ options' = options
         /\ \A k \in 1..Len(input) : input'[k] = input[k]
         /\ \A i \in Nat : i < Len(input) => Step(i)' = Step(i) /\ Chain(i)' = Chain(i)
         /\ \A i \in Nat : i <= Len(input) => Before(i)' = Before(i)
<1>1. options' = options /\ Encoding' = Encoding
  BY DEF Source, Produce, Close, sourceVars, Encoding
<1>2. ASSUME NEW k \in 1..Len(input)
      PROVE  input'[k] = input[k]
  <2>1. CASE Produce
    <3>1. PICK f \in Frame : input' = Append(input, f)
      BY <2>1 DEF Produce
    <3> QED BY <3>1 DEF SourceType
  <2>2. CASE Close \/ UNCHANGED sourceVars
    BY <2>2 DEF Close, sourceVars
  <2> QED BY <2>1, <2>2 DEF Source
<1>3. Len(input) \in Nat
  BY DEF SourceType
<1>4. ASSUME NEW i \in Nat, i < Len(input)
      PROVE  Step(i)' = Step(i)
  <2>1. i + 1 \in 1..Len(input)
    BY <1>3, <1>4
  <2> QED BY <1>2, <2>1 DEF Step
<1>5. ASSUME NEW i \in Nat, i < Len(input)
      PROVE  Chain(i)' = Chain(i)
  <2> DEFINE g == FrameInGop(Config, i)
  <2>1. g \in Nat /\ g <= i
    BY ConfigAssumption, FrameInGopIsNat, GopCounts
  <2>2. \A k \in 1..(g + 1) : i - g + k - 1 \in Nat /\ i - g + k - 1 < Len(input)
    <3> HIDE DEF g
    <3> QED BY <1>3, <1>5, <2>1
  <2>3. \A k \in 1..(g + 1) : Step(i - g + k - 1)' = Step(i - g + k - 1)
    BY <1>4, <2>2
  <2>4. /\ Chain(i) = [k \in 1..(g + 1) |-> Step(i - g + k - 1)]
        /\ Chain(i)' = [k \in 1..(g + 1) |-> Step(i - g + k - 1)']
    BY DEF Chain
  <2> HIDE DEF g
  <2> QED BY <2>3, <2>4
<1>6. ASSUME NEW i \in Nat, i <= Len(input)
      PROVE  Before(i)' = Before(i)
  <2>1. FrameInGop(Config, i) # 0 => i - 1 \in Nat /\ i - 1 < Len(input)
    BY <1>3, <1>6, ConfigAssumption, GopCounts
  <2> QED BY <1>5, <2>1 DEF Before
<1> QED BY <1>1, <1>2, <1>4, <1>5, <1>6

-----------------------------------------------------------------------------
LEMMA LengthTypes ==
  ASSUME Inv
  PROVE  /\ Len(input) \in Nat /\ Len(output) \in Nat
         /\ options.frames \in Nat /\ options.q_index \in Int
         /\ frames \in Nat
         /\ frames < Len(input) => frames + 1 \in 1..Len(input)
<1>1. input \in Seq(Frame) /\ output \in Seq(Written) /\ frames \in Nat
  BY DEF Inv, LoopType, SourceType
<1>2. options.frames \in Nat /\ options.q_index \in Int
  <2>1. options \in Options
    BY DEF Inv, LoopType, SourceType
  <2>2. options.frames \in FrameLimits /\ options.q_index \in QChoices \cup {0}
    BY <2>1 DEF Options
  <2>3. QChoices \cup {0} \subseteq Int /\ FrameLimits \subseteq Nat
    BY SourceAssumption
  <2> QED BY <2>2, <2>3
<1> QED BY <1>1, <1>2

LEMMA InitialInv ==
  ASSUME Init
  PROVE  Inv
<1>1. SourceType /\ Len(input) = 0 /\ Len(output) = 0
  BY DEF Init, SourceInit, SourceType
<1>2. Garbage \in History /\ <<>> \in History
  BY DEF Garbage, History, Value
<1>3. LoopType
  BY <1>1, <1>2 DEF Init, LoopType
<1>4. options.frames \in Nat
  BY <1>1, SourceAssumption DEF SourceType, Options
<1>5. Accounting
  BY <1>1, <1>4 DEF Init, Accounting
<1>6. Control /\ FailureExplained
  BY DEF Init, Control, FailureExplained
<1>7. ReferenceFollows
  <2>1. FrameInGop(Config, 0) = 0
    BY ConfigAssumption, GopCounts
  <2> QED BY <2>1 DEF Init, ReferenceFollows
<1> QED BY <1>3, <1>5, <1>6, <1>7 DEF Inv

(***************************************************************************)
(* The q-index a frame is run with: the option's or the container's, with  *)
(* the phase of the frame's own position in its GOP; and the range check   *)
(* of it never fails.                                                      *)
(***************************************************************************)
LEMMA QOfCurrent ==
  ASSUME Inv, frames < Len(input)
  PROVE  /\ Current \in Frame
         /\ FrameQ = Current.q
         /\ RunQ = Step(frames)[2]
         /\ Encoding => ValidQ(Config, FrameQ)
         /\ ValidQ(Config, FrameQ) => RunQ \in 0..(Config.total_qp_num - 1) /\ RunQ \in Int
<1>1. frames + 1 \in 1..Len(input) /\ frames \in Nat
  BY LengthTypes
<1>2. Current \in Frame
  BY <1>1 DEF Current, Inv, LoopType, SourceType
<1>3. FrameQ = Current.q
  BY <1>1 DEF FrameQ, Current, Inv, Accounting
<1>4. RunQ = Step(frames)[2]
  BY <1>3 DEF RunQ, Step, Current
<1>5. Encoding => ValidQ(Config, FrameQ)
  BY DEF Inv, LoopType, SourceType, Options, QOptions, Encoding, FrameQ
<1>6. FrameQ \in Int
  BY <1>2, <1>3, SourceAssumption DEF Frame
<1>7. ASSUME ValidQ(Config, FrameQ)
      PROVE  RunQ \in 0..(Config.total_qp_num - 1)
  BY <1>1, <1>6, <1>7, ConfigAssumption, ScheduleInRange DEF RunQ
<1>8. ASSUME ValidQ(Config, FrameQ)
      PROVE  RunQ \in Int
  <2>1. RunQ \in 0..(Config.total_qp_num - 1)
    BY <1>7, <1>8
  <2>2. Config.total_qp_num \in Int
    BY ConfigAssumption, ConfigTypes
  <2> QED BY <2>1, <2>2
<1> QED BY <1>2, <1>3, <1>4, <1>5, <1>7, <1>8

LEMMA ResultsUnchanged ==
  ASSUME Inv, UNCHANGED callVars
  PROVE  /\ \A i \in Nat : i < Len(input) => Step(i)' = Step(i) /\ Chain(i)' = Chain(i)
         /\ \A i \in Nat : i <= Len(input) => Before(i)' = Before(i)
         /\ UNCHANGED <<options, input, tail, device_state, Encoding>>
         /\ frames' = frames => Current' = Current /\ AtFault' = AtFault
<1>1. UNCHANGED <<options, input, tail, device_state, Encoding>>
  BY DEF callVars, sourceVars, Encoding
<1>2. UNCHANGED sourceVars /\ SourceType
  BY DEF callVars, Inv, LoopType
<1> QED BY <1>1, <1>2, ResultsStay DEF Current, AtFault, FrameFaulty

-----------------------------------------------------------------------------
(***************************************************************************)
(* Steps that move the thread on and leave the frame at hand alone.        *)
(***************************************************************************)
LEMMA MoveKeeps ==
  ASSUME Inv,
         UNCHANGED <<callVars, frames, reference, prepared, result, output>>,
         \/ pc' \in {"finish", "done"}
            /\ (LimitReached(frames) \/ (tail = "eof" /\ frames = Len(input)))
         \/ pc' \in {"throw", "failed"} /\ (options.sink_fails \/ AtFault)
  PROVE  Inv'
<1>1. /\ UNCHANGED <<options, input, tail, device_state, Encoding>>
      /\ Current' = Current /\ AtFault' = AtFault
  BY ResultsUnchanged
<1>2. LoopType'
  BY <1>1 DEF Inv, LoopType, SourceType
<1>3. Accounting'
  BY <1>1 DEF Inv, Accounting
<1>4. Control' /\ ReferenceFollows' /\ FailureExplained'
  BY <1>1 DEF Control, ReferenceFollows, FailureExplained, LimitReached
<1> QED BY <1>2, <1>3, <1>4 DEF Inv

(***************************************************************************)
(* pipeline.cpp:543-555 and 663-677: the frame is read, its q-index is     *)
(* checked, and the reference is zeroed at the start of a GOP.             *)
(***************************************************************************)
LEMMA ReadFrameKeeps ==
  ASSUME Inv, ReadFrame
  PROVE  Inv'
<1>1. /\ pc = "loop" /\ ~LimitReached(frames) /\ frames < Len(input)
      /\ UNCHANGED <<callVars, frames, result, output, flushed>>
  BY DEF ReadFrame, Reading
<1>2. FrameQ = Current.q /\ (Encoding => ValidQ(Config, FrameQ))
  BY <1>1, QOfCurrent
<1>3. CASE ~ValidQ(Config, FrameQ)
  <2>1. pc' = "throw" /\ UNCHANGED <<reference, prepared>>
    BY <1>2, <1>3 DEF ReadFrame
  <2>2. AtFault
    BY <1>1, <1>2, <1>3 DEF AtFault, FrameFaulty
  <2> QED BY <1>1, <2>1, <2>2, MoveKeeps
<1>4. CASE ValidQ(Config, FrameQ)
  <2>1. /\ pc' = "run"
        /\ reference' = IF FrameInGop(Config, frames) = 0 THEN <<>> ELSE reference
        /\ prepared' = (prepared \/ FrameInGop(Config, frames) = 0)
    BY <1>1, <1>4, QOfCurrent DEF ReadFrame
  <2>2. reference' = Before(frames) /\ prepared' = TRUE
    BY <1>1, <2>1 DEF Inv, ReferenceFollows, Before, LoopType
  <2>3. /\ UNCHANGED <<options, input, tail, device_state, Encoding>>
        /\ Current' = Current
        /\ Before(frames)' = Before(frames)
    <3>1. frames \in Nat /\ frames <= Len(input)
      BY <1>1, LengthTypes
    <3>2. \A i \in Nat : i <= Len(input) => Before(i)' = Before(i)
      BY <1>1, ResultsUnchanged
    <3> QED BY <1>1, <3>1, <3>2, ResultsUnchanged
  <2>4. reference' \in History
    <3>1. <<>> \in History
      BY DEF History
    <3> QED BY <2>1, <3>1 DEF Inv, LoopType
  <2>5. LoopType'
    BY <1>1, <2>1, <2>2, <2>3, <2>4 DEF Inv, LoopType, SourceType
  <2>6. Accounting'
    BY <1>1, <2>3 DEF Inv, Accounting
  <2>7. Control'
    BY <1>1, <1>2, <1>4, <2>1, <2>2, <2>3 DEF Control, LimitReached
  <2>8. ReferenceFollows' /\ FailureExplained'
    BY <2>1, <2>2, <2>3 DEF ReferenceFollows, FailureExplained
  <2> QED BY <2>5, <2>6, <2>7, <2>8 DEF Inv
<1> QED BY <1>3, <1>4

(***************************************************************************)
(* pipeline.cpp:557-589 and 679-701: the graph is run on the frame, with   *)
(* the feature of the frames before it in its GOP.                         *)
(***************************************************************************)
LEMMA RunKeeps ==
  ASSUME Inv, Run
  PROVE  Inv'
<1>1. /\ pc = "run" /\ (Encoding \/ Current.codable)
      /\ UNCHANGED <<callVars, frames, prepared, output, flushed>>
  BY DEF Run
<1>2. frames < Len(input) /\ ~LimitReached(frames) /\ ValidQ(Config, Current.q) /\ prepared
  BY <1>1 DEF Inv, Control
<1>3. /\ result' = Append(reference, <<frames, RunQ>>)
      /\ reference' = IF device_state THEN result' ELSE reference
      /\ pc' = "write"
  BY <1>2 DEF Run
<1>4. RunQ = Step(frames)[2] /\ RunQ \in Int /\ frames \in Nat
  BY <1>2, QOfCurrent, LengthTypes
<1>5. result' = Chain(frames)
  <2>1. <<frames, RunQ>> = Step(frames)
    BY <1>4 DEF Step
  <2>2. reference = Before(frames)
    BY <1>1 DEF Inv, ReferenceFollows
  <2> QED BY <1>3, <1>4, <2>1, <2>2, ChainGrows
<1>6. result' \in History /\ reference' \in History
  <2>1. <<frames, RunQ>> \in Value \X Value
    BY <1>4 DEF Value
  <2>2. reference \in History
    BY DEF Inv, LoopType
  <2>3. result' \in History
    BY <1>3, <2>1, <2>2 DEF History
  <2> QED BY <1>3, <2>2, <2>3
<1>7. /\ UNCHANGED <<options, input, tail, device_state, Encoding>>
      /\ Current' = Current
      /\ Chain(frames)' = Chain(frames)
  <2>1. \A i \in Nat : i < Len(input) => Chain(i)' = Chain(i)
    BY <1>1, ResultsUnchanged
  <2> QED BY <1>1, <1>2, <1>4, <2>1, ResultsUnchanged
<1>8. LoopType'
  BY <1>1, <1>3, <1>6, <1>7 DEF Inv, LoopType, SourceType
<1>9. Accounting'
  BY <1>1, <1>7 DEF Inv, Accounting
<1>10. Control'
  BY <1>1, <1>2, <1>3, <1>7 DEF Control, LimitReached
<1>11. ReferenceFollows' /\ FailureExplained'
  BY <1>1, <1>3, <1>5, <1>7 DEF ReferenceFollows, FailureExplained
<1> QED BY <1>8, <1>9, <1>10, <1>11 DEF Inv

(***************************************************************************)
(* pipeline.cpp:591-606 and 702-713: the frame is written and counted, and *)
(* the loop takes over the returned reference.                             *)
(***************************************************************************)
LEMMA WriteKeeps ==
  ASSUME Inv, Write
  PROVE  Inv'
<1>1. /\ pc = "write" /\ (Encoding => Current.codable)
      /\ output' = Append(output, Delivered)
      /\ reference' = IF device_state THEN reference ELSE result
      /\ frames' = frames + 1
      /\ pc' = "loop"
      /\ UNCHANGED <<callVars, prepared, result>>
  BY DEF Write
<1>2. frames < Len(input) /\ ~LimitReached(frames) /\ prepared
  BY <1>1 DEF Inv, Control
<1>3. PICK n \in Nat : n = frames /\ reference' = Chain(n)
  BY <1>1, LengthTypes DEF Inv, ReferenceFollows
<1>4. frames \in Nat /\ Len(input) \in Nat /\ options.frames \in Nat
  BY LengthTypes
<1>5. /\ UNCHANGED <<options, input, tail, device_state, Encoding>>
      /\ Chain(n)' = Chain(n)
  <2>1. \A i \in Nat : i < Len(input) => Chain(i)' = Chain(i)
    BY <1>1, ResultsUnchanged
  <2> QED BY <1>1, <1>2, <1>3, <2>1, ResultsUnchanged
<1>6. LoopType'
  <2>1. Delivered \in Written
    BY LengthTypes DEF Delivered, Written, Inv, LoopType
  <2>2. output' \in Seq(Written)
    BY <1>1, <2>1 DEF Inv, LoopType
  <2>3. frames' \in Nat /\ reference' \in History
    BY <1>1, <1>4 DEF Inv, LoopType
  <2> QED BY <1>1, <1>5, <2>2, <2>3 DEF Inv, LoopType, SourceType
<1>7. Accounting'
  <2>1. Len(output') = Len(output) + 1
    BY <1>1 DEF Inv, LoopType
  <2> QED BY <1>1, <1>2, <1>4, <1>5, <2>1 DEF Inv, Accounting, LimitReached
<1>8. Control' /\ FailureExplained'
  BY <1>1 DEF Control, FailureExplained
<1>9. ReferenceFollows'
  <2>1. frames' - 1 = n
    BY <1>1, <1>3
  <2> QED BY <1>1, <1>2, <1>3, <1>5, <2>1 DEF ReferenceFollows
<1> QED BY <1>6, <1>7, <1>8, <1>9 DEF Inv

(***************************************************************************)
(* The peer's steps: more input arrives, or the stream ends.               *)
(***************************************************************************)
LEMMA FeedInputKeeps ==
  ASSUME Inv, FeedInput
  PROVE  Inv'
<1>1. Source /\ UNCHANGED <<device_state, loopVars>> /\ SourceType
  BY DEF FeedInput, Inv, LoopType
<1>2. UNCHANGED <<pc, frames, reference, prepared, result, output, device_state>>
  BY <1>1 DEF loopVars
<1>3. SourceType' /\ Len(input') \in Nat /\ Len(input') >= Len(input)
  <2>1. CASE Produce
    <3>1. PICK f \in Frame : input' = Append(input, f)
      BY <2>1 DEF Produce
    <3>2. input' \in Seq(Frame) /\ Len(input') = Len(input) + 1 /\ Len(input) \in Nat
      BY <1>1, <3>1 DEF SourceType
    <3> QED BY <1>1, <2>1, <3>2 DEF Produce, SourceType
  <2>2. CASE Close
    BY <1>1, <2>2 DEF Close, SourceType
  <2> QED BY <1>1, <2>1, <2>2 DEF Source
<1>4. PICK n \in Nat : n = frames
  BY LengthTypes
<1>5. /\ Encoding' = Encoding /\ options' = options
      /\ \A k \in 1..Len(input) : input'[k] = input[k]
      /\ \A i \in Nat : i < Len(input) => Step(i)' = Step(i) /\ Chain(i)' = Chain(i)
      /\ \A i \in Nat : i <= Len(input) => Before(i)' = Before(i)
  BY <1>1, ResultsStay
<1>6. n <= Len(input) /\ Len(input) \in Nat /\ n <= Len(input')
  BY <1>3, <1>4, LengthTypes DEF Inv, Accounting
<1>7. n < Len(input) => Current' = Current /\ Chain(n)' = Chain(n)
  <2>1. n < Len(input) => n + 1 \in 1..Len(input)
    BY <1>4, <1>6
  <2> QED BY <1>2, <1>4, <1>5, <2>1 DEF Current
<1>8. LoopType'
  BY <1>2, <1>3 DEF Inv, LoopType
<1>9. Accounting'
  <2>1. Encoding => \A k \in 1..Len(input') : input'[k].q = options.q_index
    <3> SUFFICES ASSUME Encoding, NEW k \in 1..Len(input')
                 PROVE  input'[k].q = options.q_index
      OBVIOUS
    <3>1. CASE Produce
      <4>1. PICK f \in Frame : f.q = options.q_index /\ input' = Append(input, f)
        BY <3>1 DEF Produce
      <4>2. k \in 1..Len(input) \/ input'[k] = f
        BY <1>1, <4>1 DEF SourceType
      <4> QED BY <1>5, <4>1, <4>2 DEF Inv, Accounting
    <3>2. CASE Close
      BY <3>2 DEF Close, Inv, Accounting
    <3> QED BY <1>1, <3>1, <3>2 DEF Source
  <2> QED BY <1>2, <1>4, <1>5, <1>6, <2>1 DEF Inv, Accounting
<1>10. Control'
  <2>1. pc \in {"finish", "done"} =>
          (LimitReached(frames) \/ (tail = "eof" /\ frames = Len(input)))'
    <3>1. tail = "eof" => Close /\ FALSE
      BY <1>1 DEF Source, Produce, Close
    <3> QED BY <1>2, <1>5, <3>1 DEF Inv, Control, LimitReached
  <2>2. pc \in {"run", "write"} =>
          frames < Len(input) /\ ~LimitReached(frames) /\ ValidQ(Config, Current.q) /\ prepared
    BY DEF Inv, Control
  <2>3. pc \in {"run", "write"} => n < Len(input')
    BY <1>3, <1>4, <1>6, <2>2
  <2> QED BY <1>2, <1>4, <1>5, <1>7, <2>1, <2>2, <2>3 DEF Control, LimitReached
<1>11. ReferenceFollows'
  <2>1. pc \in {"run", "write"} => n < Len(input)
    BY <1>4 DEF Inv, Control
  <2>2. Before(n)' = Before(n)
    BY <1>5, <1>6
  <2>3. FrameInGop(Config, n) # 0 => Chain(n - 1)' = Chain(n - 1)
    <3>1. FrameInGop(Config, n) # 0 => n - 1 \in Nat /\ n - 1 < Len(input)
      BY <1>6, ConfigAssumption, GopCounts
    <3> QED BY <1>5, <3>1
  <2>4. n = frames'
    BY <1>2, <1>4
  <2> QED BY <1>2, <1>4, <1>5, <1>7, <2>1, <2>2, <2>3, <2>4 DEF Inv, ReferenceFollows
<1>12. FailureExplained'
  <2>1. AtFault => AtFault'
    <3>1. CASE frames < Len(input)
      <4>1. frames' < Len(input') /\ Current' = Current
        BY <1>2, <1>3, <1>4, <1>6, <1>7, <3>1
      <4> QED BY <3>1, <4>1 DEF AtFault, FrameFaulty
    <3>2. CASE ~(frames < Len(input))
      BY <1>1, <3>2 DEF AtFault, Source, Produce, Close
    <3> QED BY <3>1, <3>2
  <2> QED BY <1>2, <1>5, <2>1 DEF Inv, FailureExplained
<1> QED BY <1>8, <1>9, <1>10, <1>11, <1>12 DEF Inv

LEMMA StutterKeeps ==
  ASSUME Inv, UNCHANGED vars
  PROVE  Inv'
<1>1. UNCHANGED <<callVars, pc, frames, reference, prepared, result, output>>
  BY DEF vars, loopVars
<1>2. /\ UNCHANGED <<options, input, tail, device_state, Encoding>>
      /\ Current' = Current /\ AtFault' = AtFault
  BY <1>1, ResultsUnchanged
<1>3. \A i : Chain(i)' = Chain(i) /\ Before(i)' = Before(i)
  BY <1>2 DEF Chain, Before, Step
<1>4. LoopType' /\ Accounting' /\ Control' /\ FailureExplained'
  BY <1>1, <1>2
     DEF Inv, LoopType, SourceType, Accounting, Control, FailureExplained, LimitReached
<1>5. ReferenceFollows'
  BY <1>1, <1>2, <1>3 DEF Inv, ReferenceFollows
<1> QED BY <1>4, <1>5 DEF Inv

\* The steps that give up or finish, with the reason each has.
LEMMA EndsKeep ==
  ASSUME Inv,
         ReadTruncated \/ LeaveLoop \/ DecodeThrows \/ WriteThrows \/ Finalize \/ Unwind
  PROVE  Inv'
<1>1. CASE ReadTruncated
  BY <1>1, LengthTypes, MoveKeeps DEF ReadTruncated, Reading, AtFault
<1>2. CASE LeaveLoop
  BY <1>2, MoveKeeps DEF LeaveLoop
<1>3. CASE DecodeThrows
  <2>1. AtFault
    BY <1>3 DEF DecodeThrows, Inv, Control, AtFault, FrameFaulty
  <2> QED BY <1>3, <2>1, MoveKeeps DEF DecodeThrows
<1>4. CASE WriteThrows
  <2>1. options.sink_fails \/ AtFault
    BY <1>4 DEF WriteThrows, Inv, Control, AtFault, FrameFaulty
  <2> QED BY <1>4, <2>1, MoveKeeps DEF WriteThrows
<1>5. CASE Finalize
  BY <1>5, MoveKeeps DEF Finalize, Inv, Control
<1>6. CASE Unwind
  BY <1>6, MoveKeeps DEF Unwind, Inv, FailureExplained
<1> QED BY <1>1, <1>2, <1>3, <1>4, <1>5, <1>6

LEMMA InductiveInv == Spec => []Inv
<1>1. Init => Inv
  BY InitialInv
<1>2. Inv /\ [Next]_vars => Inv'
  <2> SUFFICES ASSUME Inv, [Next]_vars
               PROVE  Inv'
    OBVIOUS
  <2>1. CASE ReadFrame
    BY <2>1, ReadFrameKeeps
  <2>2. CASE Run
    BY <2>2, RunKeeps
  <2>3. CASE Write
    BY <2>3, WriteKeeps
  <2>4. CASE ReadTruncated \/ LeaveLoop \/ DecodeThrows \/ WriteThrows \/ Finalize \/ Unwind
    BY <2>4, EndsKeep
  <2>5. CASE FeedInput
    BY <2>5, FeedInputKeeps
  <2>6. CASE Over \/ UNCHANGED vars
    BY <2>6, StutterKeeps DEF Over
  <2> QED BY <2>1, <2>2, <2>3, <2>4, <2>5, <2>6 DEF Next, Host
<1> QED BY <1>1, <1>2, PTL DEF Spec

(***************************************************************************)
(* pipeline.cpp:543-606 and 663-713: whatever the bundle, the input and    *)
(* the backend, a call that fails on a working output stream has written   *)
(* every complete frame in front of the fault.                             *)
(***************************************************************************)
THEOREM FailsAtTheFault == Spec => []NothingLost
<1>1. Inv => NothingLost
  BY DEF Inv, FailureExplained, AtFault, NothingLost
<1> QED BY <1>1, InductiveInv, PTL

-----------------------------------------------------------------------------
(***************************************************************************)
(* Every step of the loop is a step of the session, or one the caller does *)
(* not see.                                                                *)
(***************************************************************************)
LEMMA SessionRests ==
  ASSUME UNCHANGED <<callVars, output>>, ~Ended, ~Ended'
  PROVE  UNCHANGED Session!sessionVars
BY DEF callVars, sourceVars, Session!sessionVars, SessionStatus

LEMMA WriteEmits ==
  ASSUME Inv, Write
  PROVE  Session!Emit
<1>1. /\ pc = "write" /\ (Encoding => Current.codable)
      /\ output' = Append(output, Delivered)
      /\ pc' = "loop"
      /\ UNCHANGED callVars
  BY DEF Write
<1>2. /\ frames < Len(input) /\ ~LimitReached(frames) /\ ValidQ(Config, Current.q)
      /\ result = Chain(frames) /\ Current.codable /\ frames = Len(output)
  BY <1>1 DEF Inv, Control, ReferenceFollows, Accounting
<1>3. Delivered = Session!Result(Len(output))
  <2>1. Delivered = Result(Len(output))
    BY <1>2 DEF Delivered, Result
  <2>2. Result(Len(output)) = Session!Result(Len(output))
    BY DEF Result, Session!Result, Chain, Session!Chain, Step, Session!Step, Encoding,
           Session!Encoding, ShiftedQ, Session!ShiftedQ, QIndexShift,
           Session!QIndexShift, FrameInGop, Session!FrameInGop, MapSlot,
           Session!MapSlot
  <2> QED BY <2>1, <2>2
<1>4. ~Session!FrameFaulty(input[Len(output) + 1])
  BY <1>2 DEF Current, Session!FrameFaulty, Session!ValidQ, ValidQ
<1>5. Len(output) < Len(input) /\ ~Session!LimitReached(Len(output))
  BY <1>2 DEF LimitReached, Session!LimitReached
<1>6. SessionStatus = "running" /\ SessionStatus' = "running"
  BY <1>1 DEF SessionStatus, Ended
<1> QED BY <1>1, <1>3, <1>4, <1>5, <1>6
        DEF Session!Emit, Session!sourceVars, callVars, sourceVars

LEMMA FinalizeReturns ==
  ASSUME Inv, Finalize
  PROVE  [Session!Next]_(Session!sessionVars)
<1>1. /\ pc = "finish" /\ UNCHANGED <<callVars, output>>
      /\ pc' = "done" \/ pc' = "throw"
  BY DEF Finalize
<1>2. CASE pc' = "throw"
  BY <1>1, <1>2, SessionRests DEF Ended
<1>3. CASE pc' = "done"
  <2>1. LimitReached(Len(output)) \/ (tail = "eof" /\ Len(output) = Len(input))
    BY <1>1 DEF Inv, Control, Accounting
  <2>2. SessionStatus = "running" /\ SessionStatus' = "done"
    BY <1>1, <1>3 DEF SessionStatus, Ended
  <2>3. Session!Return
    BY <1>1, <2>1, <2>2 DEF Session!Return, Session!LimitReached, LimitReached,
       Session!sourceVars, callVars, sourceVars
  <2> QED BY <2>3 DEF Session!Next
<1> QED BY <1>1, <1>2, <1>3

LEMMA UnwindFails ==
  ASSUME Inv, Unwind
  PROVE  Session!Next
<1>1. pc = "throw" /\ pc' = "failed" /\ UNCHANGED <<callVars, output>>
  BY DEF Unwind
<1>2. Excuse
  <2>1. CASE options.sink_fails
    BY <2>1 DEF Excuse
  <2>2. CASE AtFault
    <3>1. CASE frames < Len(input)
      <4>1. frames + 1 \in 1..Len(input) /\ FrameFaulty(input[frames + 1])
        BY <2>2, <3>1, LengthTypes DEF AtFault, Current
      <4> QED BY <4>1 DEF Excuse
    <3>2. CASE ~(frames < Len(input))
      BY <2>2, <3>2 DEF AtFault, Excuse
    <3> QED BY <3>1, <3>2
  <2> QED BY <1>1, <2>1, <2>2 DEF Inv, FailureExplained
<1>3. Session!Excuse
  BY <1>2 DEF Excuse, Session!Excuse, FrameFaulty, Session!FrameFaulty, ValidQ,
     Session!ValidQ
<1>4. SessionStatus = "running" /\ SessionStatus' = "failed"
  BY <1>1 DEF SessionStatus, Ended
<1>5. Session!Fail
  BY <1>1, <1>3, <1>4 DEF Session!Fail, Session!sourceVars, callVars, sourceVars
<1> QED BY <1>5 DEF Session!Next

LEMMA StepImplementsSession ==
  ASSUME Inv, [Next]_vars
  PROVE  [Session!Next]_(Session!sessionVars)
<1>1. CASE ReadFrame \/ ReadTruncated \/ LeaveLoop \/ Run \/ DecodeThrows \/ WriteThrows
  <2>1. UNCHANGED <<callVars, output>>
    BY <1>1 DEF ReadFrame, ReadTruncated, LeaveLoop, Run, DecodeThrows, WriteThrows
  <2>2. ~Ended /\ ~Ended'
    BY <1>1 DEF ReadFrame, ReadTruncated, LeaveLoop, Run, DecodeThrows, WriteThrows,
                Reading, Ended
  <2> QED BY <2>1, <2>2, SessionRests
<1>2. CASE Write
  BY <1>2, WriteEmits DEF Session!Next
<1>3. CASE Finalize
  BY <1>3, FinalizeReturns
<1>4. CASE Unwind
  BY <1>4, UnwindFails
<1>5. CASE FeedInput
  <2>1. UNCHANGED <<output, SessionStatus>>
    BY <1>5 DEF FeedInput, loopVars, SessionStatus, Ended
  <2>2. Session!Source
    BY <1>5 DEF FeedInput, Source, Session!Source, Produce, Session!Produce, Close,
       Session!Close, Frame, Session!Frame, Encoding, Session!Encoding
  <2> QED BY <2>1, <2>2 DEF Session!Next
<1>6. CASE Over \/ UNCHANGED vars
  BY <1>6 DEF Over, vars, callVars, sourceVars, loopVars, Session!sessionVars,
              SessionStatus, Ended
<1> QED BY <1>1, <1>2, <1>3, <1>4, <1>5, <1>6 DEF Next, Host

(***************************************************************************)
(* pipeline.cpp:543-606 and 663-713: the sequential loops implement what   *)
(* encode_video and decode_video promise, for any bundle and input, with   *)
(* the recurrent state in the backend or in the loop.                      *)
(***************************************************************************)
THEOREM ImplementsSession == Spec => SessionSpec
<1>1. Init => Session!Init
  BY DEF Init, SourceInit, Session!Init, Session!SourceInit, SessionStatus, Ended,
         Options, Session!Options, QOptions, Session!QOptions, ValidQ, Session!ValidQ
<1>2. Inv /\ [Next]_vars => [Session!Next]_(Session!sessionVars)
  BY StepImplementsSession
<1> QED BY <1>1, <1>2, InductiveInv, PTL DEF Spec, SessionSpec, Session!Spec
=============================================================================
