------------------------- MODULE BufferedLoopProofs -------------------------
(***************************************************************************)
(* Facts about the driver_cubin executor and about the steps both buffered *)
(* loops share: they keep the types, they keep every slot owned by either  *)
(* the host or the queued copies, and they keep the queue such that, when  *)
(* it has run dry, every slot holds what the session promises.             *)
(***************************************************************************)
EXTENDS BufferedLoop, ModelConfigProofs

(***************************************************************************)
(* Slot numbers: two frames less than Slots apart have different slots.    *)
(***************************************************************************)
LEMMA ModDistinct ==
  ASSUME NEW n \in Nat, n > 0, NEW a \in Nat, NEW b \in Nat, a < b, b < a + n
  PROVE  a % n # b % n
<1> SUFFICES ASSUME a % n = b % n
             PROVE  FALSE
  OBVIOUS
<1>1. /\ a \div n \in Int /\ a % n \in Int
      /\ b \div n \in Int /\ b % n \in Int
  OBVIOUS
<1>2. a = n * (a \div n) + (a % n) /\ b = n * (b \div n) + (b % n)
  OBVIOUS
<1> DEFINE d == (b \div n) - (a \div n)
<1>3. d \in Int /\ b - a = n * d
  BY <1>1, <1>2
<1>4. CASE d >= 1
  BY <1>3, <1>4, ProductBound
<1>5. CASE d < 1
  <2>1. n * d <= 0
    BY <1>3, <1>5
  <2> QED BY <2>1, <1>3
<1> QED BY <1>3, <1>4, <1>5

LEMMA SlotOfIsSlot ==
  ASSUME NEW i \in Nat
  PROVE  SlotOf(i) \in SlotIds
<1>1. \A n \in Nat : n >= 2 => i % n \in 0..(n - 1)
  OBVIOUS
<1> QED BY <1>1, SlotsAssumption DEF SlotOf, SlotIds

LEMMA SlotOfDistinct ==
  ASSUME NEW i \in Nat, NEW j \in Nat, i < j, j < i + Slots
  PROVE  SlotOf(i) # SlotOf(j)
<1>1. Slots \in Nat /\ Slots > 0
  BY SlotsAssumption
<1> QED BY <1>1, ModDistinct DEF SlotOf

-----------------------------------------------------------------------------
(***************************************************************************)
(* The executor.                                                           *)
(***************************************************************************)
LEMMA OperationTypes ==
  ASSUME NEW o \in Operation
  PROVE  /\ o.op \in Copies \cup Kernels
         /\ o.op \in Copies => o.slot \in SlotIds
         /\ o.op \in Kernels => o.slot = NoSlot
BY DEF Operation, Copies, Kernels

LEMMA CopyIsOperation ==
  ASSUME NEW s \in SlotIds, NEW name \in Copies
  PROVE  Copy(name, s) \in Operation
BY DEF Copy, Operation

LEMMA KernelIsOperation ==
  ASSUME NEW name \in Kernels
  PROVE  Kernel(name) \in Operation
BY DEF Kernel, Operation

(***************************************************************************)
(* What one submission enqueues, whether the schedule is run directly,     *)
(* captured and launched, or launched again.                               *)
(***************************************************************************)
LEMMA EnqueuedFrame ==
  ASSUME NEW before, NEW after, EnqueueModel(before, after),
         graph \in {<<>>, <<Kernel("model")>>},
         cutlass_ready \in BOOLEAN
  PROVE  /\ stream' = stream \o (before \o <<Kernel("model")>> \o after)
         /\ graph' \in {<<>>, <<Kernel("model")>>}
         /\ cutlass_ready' \in BOOLEAN
<1>1. CASE RunDirectly
  BY <1>1 DEF EnqueueModel, ExecuteSchedule
<1>2. CASE ~RunDirectly
  <2>1. graph' = <<Kernel("model")>>
    BY <1>2 DEF EnqueueModel, ExecuteSchedule
  <2> QED BY <1>2, <2>1 DEF EnqueueModel
<1> QED BY <1>1, <1>2

(***************************************************************************)
(* A frame's operations: its own copies, one kernel sequence, and the      *)
(* event at the end.                                                       *)
(***************************************************************************)
IsFrame(new, s) ==
  /\ new \in Seq(Operation)
  /\ Len(new) = 6
  /\ \A k \in 1..6 : new[k].slot \in {s, NoSlot}
  /\ \A k \in 1..5 : new[k].op # "record"

LEMMA EncoderFrame ==
  ASSUME NEW s \in SlotIds
  PROVE  IsFrame(EncoderFeed(s) \o <<Kernel("model")>> \o EncoderDrain(s), s)
<1> DEFINE new == EncoderFeed(s) \o <<Kernel("model")>> \o EncoderDrain(s)
<1>1. /\ Copy("upload_yuv", s) \in Operation
      /\ Kernel("yuv420_to_nchw") \in Operation
      /\ Copy("upload_q", s) \in Operation
      /\ Kernel("model") \in Operation
      /\ Copy("download_latents", s) \in Operation
      /\ Copy("record", s) \in Operation
  BY CopyIsOperation, KernelIsOperation DEF Copies, Kernels
<1>2. new \in Seq(Operation) /\ Len(new) = 6
  BY <1>1 DEF EncoderFeed, EncoderDrain
<1>3. /\ new[1] = Copy("upload_yuv", s)
      /\ new[2] = Kernel("yuv420_to_nchw")
      /\ new[3] = Copy("upload_q", s)
      /\ new[4] = Kernel("model")
      /\ new[5] = Copy("download_latents", s)
      /\ new[6] = Copy("record", s)
  BY <1>1 DEF EncoderFeed, EncoderDrain
<1>4. \A k \in 1..6 : new[k].slot \in {s, NoSlot}
  <2> HIDE DEF new
  <2> QED BY <1>3 DEF Copy, Kernel
<1>5. \A k \in 1..5 : new[k].op # "record"
  <2> HIDE DEF new
  <2> QED BY <1>3 DEF Copy, Kernel
<1> QED BY <1>2, <1>4, <1>5 DEF IsFrame

LEMMA DecoderFrame ==
  ASSUME NEW s \in SlotIds
  PROVE  IsFrame(DecoderFeed(s) \o <<Kernel("model")>> \o DecoderDrain(s), s)
<1> DEFINE new == DecoderFeed(s) \o <<Kernel("model")>> \o DecoderDrain(s)
<1>1. /\ Copy("upload_latents", s) \in Operation
      /\ Copy("upload_q", s) \in Operation
      /\ Kernel("model") \in Operation
      /\ Kernel("nchw_to_yuv420") \in Operation
      /\ Copy("download_yuv", s) \in Operation
      /\ Copy("record", s) \in Operation
  BY CopyIsOperation, KernelIsOperation DEF Copies, Kernels
<1>2. new \in Seq(Operation) /\ Len(new) = 6
  BY <1>1 DEF DecoderFeed, DecoderDrain
<1>3. /\ new[1] = Copy("upload_latents", s)
      /\ new[2] = Copy("upload_q", s)
      /\ new[3] = Kernel("model")
      /\ new[4] = Kernel("nchw_to_yuv420")
      /\ new[5] = Copy("download_yuv", s)
      /\ new[6] = Copy("record", s)
  BY <1>1 DEF DecoderFeed, DecoderDrain
<1>4. \A k \in 1..6 : new[k].slot \in {s, NoSlot}
  <2> HIDE DEF new
  <2> QED BY <1>3 DEF Copy, Kernel
<1>5. \A k \in 1..5 : new[k].op # "record"
  <2> HIDE DEF new
  <2> QED BY <1>3 DEF Copy, Kernel
<1> QED BY <1>2, <1>4, <1>5 DEF IsFrame
(***************************************************************************)
(* Ownership of the slots.  It only speaks of the queue and of the two     *)
(* flags of a slot.                                                        *)
(***************************************************************************)
SlotTypes ==
  /\ stream \in Seq(Operation)
  /\ pending \in [SlotIds -> BOOLEAN]
  /\ completed \in [SlotIds -> BOOLEAN]

LEMMA QueuedTypes ==
  ASSUME SlotTypes, NEW k \in 1..Len(stream)
  PROVE  /\ stream[k] \in Operation
         /\ stream[k].op \in Copies => stream[k].slot \in SlotIds
         /\ stream[k].op \notin Copies => stream[k].slot = NoSlot
<1>1. stream[k] \in Operation
  BY DEF SlotTypes
<1> QED BY <1>1, OperationTypes

LEMMA RecordIsCopy == "record" \in Copies
BY DEF Copies

(***************************************************************************)
(* A slot that is not pending, or complete, has no copy queued.            *)
(***************************************************************************)
LEMMA ReadySlotIsIdle ==
  ASSUME SlotTypes, Ownership, NEW s \in SlotIds, SlotReady(s),
         NEW k \in 1..Len(stream)
  PROVE  stream[k].slot # s
<1>1. CASE stream[k].op \in Copies
  BY <1>1 DEF Ownership, QueuedCopiesArePending, SlotReady
<1>2. CASE stream[k].op \notin Copies
  BY <1>2, QueuedTypes, SlotsAssumption DEF SlotIds, NoSlot
<1> QED BY <1>1, <1>2

(***************************************************************************)
(* The queue behind a submission: the old operations, then the frame's.    *)
(***************************************************************************)
LEMMA IndexShift ==
  ASSUME NEW n \in Nat, NEW m \in Nat, NEW k \in (n + 1)..(n + m)
  PROVE  k - n \in 1..m /\ k \in 1..(n + m) /\ ~(k <= n)
OBVIOUS

LEMMA ConcatElement ==
  ASSUME NEW S, NEW a \in Seq(S), NEW b \in Seq(S)
  PROVE  /\ a \o b \in Seq(S)
         /\ Len(a \o b) = Len(a) + Len(b)
         /\ \A k \in 1..(Len(a) + Len(b)) :
              (a \o b)[k] = IF k <= Len(a) THEN a[k] ELSE b[k - Len(a)]
OBVIOUS

LEMMA FrameAppended ==
  ASSUME NEW a \in Seq(Operation), NEW s, NEW new, IsFrame(new, s),
         NEW n \in Nat, n = Len(a)
  PROVE  /\ a \o new \in Seq(Operation)
         /\ Len(a \o new) = n + 6
         /\ \A k \in 1..n : (a \o new)[k] = a[k]
         /\ \A k \in (n + 1)..(n + 6) : (a \o new)[k].slot \in {s, NoSlot}
         /\ \A k \in (n + 1)..(n + 5) : (a \o new)[k].op # "record"
<1>1. new \in Seq(Operation) /\ Len(new) = 6
  BY DEF IsFrame
<1>2. /\ a \o new \in Seq(Operation)
      /\ Len(a \o new) = n + 6
      /\ \A k \in 1..(n + 6) :
           (a \o new)[k] = IF k <= n THEN a[k] ELSE new[k - n]
  <2>1. /\ a \o new \in Seq(Operation)
        /\ Len(a \o new) = Len(a) + Len(new)
        /\ \A k \in 1..(Len(a) + Len(new)) :
             (a \o new)[k] = IF k <= Len(a) THEN a[k] ELSE new[k - Len(a)]
    BY <1>1, ConcatElement, Zenon
  <2> QED BY <1>1, <2>1, Zenon
<1>3. ASSUME NEW k \in 1..n
      PROVE  (a \o new)[k] = a[k]
  BY <1>2
<1>4. ASSUME NEW k \in (n + 1)..(n + 6)
      PROVE  (a \o new)[k].slot \in {s, NoSlot}
  <2>1. (a \o new)[k] = new[k - n] /\ k - n \in 1..6
    BY <1>2, IndexShift
  <2> QED BY <2>1 DEF IsFrame
<1>5. ASSUME NEW k \in (n + 1)..(n + 5)
      PROVE  (a \o new)[k].op # "record"
  <2>1. k \in (n + 1)..(n + 6) /\ k - n \in 1..5
    <3>1. k \in Int /\ n + 1 <= k /\ k <= n + 5
      OBVIOUS
    <3> QED BY <3>1
  <2>2. (a \o new)[k] = new[k - n]
    BY <1>2, <2>1, IndexShift
  <2> QED BY <2>1, <2>2 DEF IsFrame
<1> QED BY <1>2, <1>3, <1>4, <1>5

(***************************************************************************)
(* Submitting a frame to a slot that is not pending.                       *)
(***************************************************************************)
LEMMA EnqueueKeepsOwnership ==
  ASSUME SlotTypes, Ownership,
         NEW s \in SlotIds, ~pending[s], NEW new, IsFrame(new, s),
         stream' = stream \o new,
         pending' = [pending EXCEPT ![s] = TRUE],
         completed' = [completed EXCEPT ![s] = FALSE]
  PROVE  SlotTypes' /\ Ownership'
<1> DEFINE n == Len(stream)
<1>1. n \in Nat /\ stream \in Seq(Operation)
  BY DEF SlotTypes
<1>2. /\ stream' \in Seq(Operation)
      /\ Len(stream') = n + 6
      /\ \A k \in 1..n : stream'[k] = stream[k]
      /\ \A k \in (n + 1)..(n + 6) : stream'[k].slot \in {s, NoSlot}
      /\ \A k \in (n + 1)..(n + 5) : stream'[k].op # "record"
  BY <1>1, FrameAppended
<1>3. SlotTypes'
  BY <1>2 DEF SlotTypes
<1>4. \A k \in 1..n : stream[k].slot # s
  BY ReadySlotIsIdle DEF SlotReady
<1>7. QueuedCopiesArePending'
  <2> SUFFICES ASSUME NEW k \in 1..Len(stream'), stream'[k].op \in Copies
               PROVE  pending'[stream'[k].slot] /\ ~completed'[stream'[k].slot]
    BY DEF QueuedCopiesArePending
  <2>1. CASE k \in 1..n
    <3>1. stream[k].slot # s /\ stream[k].slot \in SlotIds /\ stream'[k] = stream[k]
      BY <1>2, <1>4, <2>1, QueuedTypes
    <3>2. pending[stream[k].slot] /\ ~completed[stream[k].slot]
      BY <2>1, <3>1 DEF Ownership, QueuedCopiesArePending
    <3> QED BY <3>1, <3>2 DEF SlotTypes
  <2>2. CASE k \in (n + 1)..(n + 6)
    <3>1. stream'[k] \in Operation
      BY <1>2
    <3>2. stream'[k].slot \in SlotIds
      BY <3>1, OperationTypes
    <3>3. stream'[k].slot = s
      BY <1>2, <2>2, <3>2, SlotsAssumption DEF SlotIds, NoSlot
    <3> QED BY <3>3 DEF SlotTypes
  <2> QED BY <1>1, <1>2, <2>1, <2>2
<1>8. RecordComesLast'
  <2> SUFFICES ASSUME NEW j \in 1..Len(stream'), NEW k \in 1..Len(stream'),
                      stream'[j].op = "record", j < k
               PROVE  stream'[k].slot # stream'[j].slot
    BY DEF RecordComesLast
  <2>1. j \in 1..n
    BY <1>1, <1>2
  <2>2. stream'[j] = stream[j] /\ stream[j].slot # s /\ stream[j].slot \in SlotIds
    BY <1>2, <1>4, <2>1, QueuedTypes, RecordIsCopy
  <2>3. CASE k \in 1..n
    BY <1>2, <2>1, <2>2, <2>3 DEF Ownership, RecordComesLast
  <2>4. CASE k \in (n + 1)..(n + 6)
    BY <1>2, <2>2, <2>4, SlotsAssumption DEF SlotIds, NoSlot
  <2> QED BY <1>1, <1>2, <2>3, <2>4
<1> QED BY <1>3, <1>7, <1>8 DEF Ownership

(***************************************************************************)
(* The device executes the oldest operation; a record completes its slot.  *)
(***************************************************************************)
LEMMA ExecuteKeepsOwnership ==
  ASSUME SlotTypes, Ownership, stream # <<>>,
         stream' = Tail(stream), pending' = pending,
         \/ completed' = completed
         \/ /\ Head(stream).op = "record"
            /\ completed' = [completed EXCEPT ![Head(stream).slot] = TRUE]
  PROVE  SlotTypes' /\ Ownership'
<1> DEFINE n == Len(stream)
<1>1. /\ n \in Nat /\ n >= 1
      /\ Head(stream) = stream[1]
      /\ stream' \in Seq(Operation)
      /\ Len(stream') = n - 1
      /\ \A k \in 1..(n - 1) : stream'[k] = stream[k + 1]
  BY DEF SlotTypes
<1>2. SlotTypes'
  BY <1>1 DEF SlotTypes
<1>3. QueuedCopiesArePending'
  <2> SUFFICES ASSUME NEW k \in 1..(n - 1), stream'[k].op \in Copies
               PROVE  pending'[stream'[k].slot] /\ ~completed'[stream'[k].slot]
    BY <1>1 DEF QueuedCopiesArePending
  <2>1. k + 1 \in 1..n /\ 1 < k + 1 /\ 1 \in 1..n
    BY <1>1
  <2>2. stream'[k] = stream[k + 1] /\ stream[k + 1].slot \in SlotIds
    BY <1>1, <2>1, QueuedTypes
  <2>3. pending[stream[k + 1].slot] /\ ~completed[stream[k + 1].slot]
    BY <2>1, <2>2 DEF Ownership, QueuedCopiesArePending
  <2>4. Head(stream).op = "record" => stream[k + 1].slot # Head(stream).slot
    BY <1>1, <2>1 DEF Ownership, RecordComesLast
  <2> QED BY <2>2, <2>3, <2>4 DEF SlotTypes
<1>4. RecordComesLast'
  <2> SUFFICES ASSUME NEW j \in 1..(n - 1), NEW k \in 1..(n - 1),
                      stream'[j].op = "record", j < k
               PROVE  stream'[k].slot # stream'[j].slot
    BY <1>1 DEF RecordComesLast
  <2>1. j + 1 \in 1..n /\ k + 1 \in 1..n /\ j + 1 < k + 1
    BY <1>1
  <2> QED BY <1>1, <2>1 DEF Ownership, RecordComesLast
<1> QED BY <1>2, <1>3, <1>4 DEF Ownership

(***************************************************************************)
(* The host waits for a slot, and resets the recurrent state.              *)
(***************************************************************************)
LEMMA WaitKeepsOwnership ==
  ASSUME SlotTypes, Ownership, NEW s \in SlotIds, WaitCodecSlot(s),
         stream' = stream, completed' = completed
  PROVE  SlotTypes' /\ Ownership'
<1>1. SlotTypes'
  BY DEF SlotTypes, WaitCodecSlot
<1>2. QueuedCopiesArePending'
  <2> SUFFICES ASSUME NEW k \in 1..Len(stream), stream[k].op \in Copies
               PROVE  pending'[stream[k].slot] /\ ~completed[stream[k].slot]
    BY DEF QueuedCopiesArePending
  <2>1. stream[k].slot # s
    BY ReadySlotIsIdle DEF WaitCodecSlot
  <2> QED BY <2>1, QueuedTypes
          DEF Ownership, QueuedCopiesArePending, WaitCodecSlot, SlotTypes
<1>3. RecordComesLast'
  BY DEF Ownership, RecordComesLast
<1> QED BY <1>1, <1>2, <1>3 DEF Ownership

LEMMA ResetKeepsOwnership ==
  ASSUME SlotTypes, Ownership, ResetState
  PROVE  SlotTypes' /\ Ownership'
<1> DEFINE n == Len(stream)
<1>1. /\ Kernel("zero_feature") \in Operation
      /\ Kernel("zero_feature").op \notin Copies
      /\ Kernel("zero_feature").op # "record"
      /\ Kernel("zero_feature").slot = NoSlot
  BY KernelIsOperation DEF Kernels, Copies, Kernel
<1>2. /\ n \in Nat
      /\ stream' \in Seq(Operation)
      /\ Len(stream') = n + 1
      /\ \A k \in 1..n : stream'[k] = stream[k]
      /\ stream'[n + 1] = Kernel("zero_feature")
      /\ pending' = pending /\ completed' = completed
  <2> HIDE DEF n
  <2>1. stream' = Append(stream, Kernel("zero_feature"))
    BY DEF ResetState
  <2> QED BY <1>1, <2>1 DEF n, SlotTypes, ResetState, slotVars
<1>3. SlotTypes'
  BY <1>2 DEF SlotTypes
<1>4. QueuedCopiesArePending'
  <2> SUFFICES ASSUME NEW k \in 1..(n + 1), stream'[k].op \in Copies
               PROVE  pending[stream'[k].slot] /\ ~completed[stream'[k].slot]
    BY <1>2 DEF QueuedCopiesArePending
  <2>1. k \in 1..n
    BY <1>1, <1>2
  <2> QED BY <1>2, <2>1 DEF Ownership, QueuedCopiesArePending
<1>5. RecordComesLast'
  <2> SUFFICES ASSUME NEW j \in 1..(n + 1), NEW k \in 1..(n + 1),
                      stream'[j].op = "record", j < k
               PROVE  stream'[k].slot # stream'[j].slot
    BY <1>2 DEF RecordComesLast
  <2>1. j \in 1..n /\ stream'[j] = stream[j] /\ stream[j].slot \in SlotIds
    BY <1>1, <1>2, QueuedTypes, RecordIsCopy
  <2>2. CASE k \in 1..n
    BY <1>2, <2>1, <2>2 DEF Ownership, RecordComesLast
  <2>3. CASE k = n + 1
    BY <1>1, <1>2, <2>1, <2>3, SlotsAssumption DEF SlotIds, NoSlot
  <2> QED BY <1>2, <2>2, <2>3
<1> QED BY <1>3, <1>4, <1>5 DEF Ownership

(***************************************************************************)
(* cuda_graph_executor.cpp:402-412: when the destructor's waits are over,  *)
(* nothing but kernels is queued.                                          *)
(***************************************************************************)
LEMMA DestroyLeavesNoCopies ==
  ASSUME SlotTypes, Ownership, DestroyGraph
  PROVE  \A k \in 1..Len(stream) : stream[k].op \notin Copies
<1> SUFFICES ASSUME NEW k \in 1..Len(stream), stream[k].op \in Copies
             PROVE  FALSE
  OBVIOUS
<1>1. stream[k].slot \in SlotIds
  BY QueuedTypes
<1>2. SlotReady(stream[k].slot)
  BY <1>1 DEF DestroyGraph
<1> QED BY <1>1, <1>2, ReadySlotIsIdle

-----------------------------------------------------------------------------
(***************************************************************************)
(* The types of the executor's state.                                      *)
(***************************************************************************)
LEMMA GraphTypeGivesSlotTypes ==
  ASSUME NEW Y, GraphType(Y)
  PROVE  SlotTypes
BY DEF GraphType, SlotTypes

LEMMA HeadSlot ==
  ASSUME SlotTypes, stream # <<>>
  PROVE  /\ Head(stream).op \in Copies => Head(stream).slot \in SlotIds
         /\ Head(stream) = stream[1]
         /\ 1 \in 1..Len(stream)
<1>1. Head(stream) = stream[1] /\ 1 \in 1..Len(stream)
  BY DEF SlotTypes
<1> QED BY <1>1, QueuedTypes

LEMMA HistoryGrows ==
  ASSUME NEW h \in History, NEW x \in Content, NEW q \in QValue
  PROVE  Append(h, <<x, q>>) \in History
BY DEF History

(***************************************************************************)
(* Operations of the device.  Reads and writes of the yuv buffer depend on *)
(* the graph; the others are common.                                       *)
(***************************************************************************)
DeviceStep ==
  \/ UploadYuv \/ Yuv420ToNchw \/ UploadLatents \/ NchwToYuv420
  \/ DownloadLatents \/ DownloadYuv \/ CommonOperation

LEMMA DeviceStepOnQueue ==
  ASSUME DeviceStep
  PROVE  /\ stream # <<>>
         /\ stream' = Tail(stream)
         /\ UNCHANGED <<host_frame, host_q, pending, initialized, captureVars, live>>
         /\ \/ completed' = completed
            \/ /\ Head(stream).op = "record"
               /\ completed' = [completed EXCEPT ![Head(stream).slot] = TRUE]
BY DEF DeviceStep, UploadYuv, Yuv420ToNchw, UploadLatents, NchwToYuv420,
       DownloadLatents, DownloadYuv, CommonOperation, ZeroFeature, UploadQ,
       RunModel, ReachEvent, NextOperation, DeviceOnly

LEMMA CommonOperationType ==
  ASSUME NEW Y, GraphType(Y), CommonOperation
  PROVE  device' \in [yuv : Y, x : Content, q : QValue,
                      feature : History, out : History]
         /\ host_result' = host_result
         /\ completed' \in [SlotIds -> BOOLEAN]
<1> USE DEF NextOperation, DeviceOnly, GraphType
<1>1. CASE ZeroFeature
  <2>1. <<>> \in History
    BY DEF History
  <2> QED BY <1>1, <2>1 DEF ZeroFeature
<1>2. CASE UploadQ
  <2>1. Head(stream).slot \in SlotIds
    BY <1>2, GraphTypeGivesSlotTypes, HeadSlot DEF UploadQ, Copies
  <2> QED BY <1>2, <2>1 DEF UploadQ
<1>3. CASE RunModel
  <2>1. Append(device.feature, <<device.x, device.q>>) \in History
    BY HistoryGrows
  <2> QED BY <1>3, <2>1 DEF RunModel
<1>4. CASE ReachEvent
  BY <1>4 DEF ReachEvent
<1> QED BY <1>1, <1>2, <1>3, <1>4 DEF CommonOperation

(***************************************************************************)
(* A step of the device keeps every type of the executor except those of   *)
(* the data it moves.                                                      *)
(***************************************************************************)
LEMMA DeviceStepType ==
  ASSUME NEW Y, GraphType(Y), DeviceStep,
         device' \in [yuv : Y, x : Content, q : QValue,
                      feature : History, out : History],
         host_result' \in [SlotIds -> History]
  PROVE  GraphType(Y)'
<1>1. stream' \in Seq(Operation)
  <2>1. stream \in Seq(Operation)
    BY DEF GraphType
  <2>2. stream # <<>> /\ stream' = Tail(stream)
    BY DeviceStepOnQueue
  <2>3. \A q \in Seq(Operation) : q # <<>> => Tail(q) \in Seq(Operation)
    OBVIOUS
  <2> QED BY <2>1, <2>2, <2>3
<1>2. completed' \in [SlotIds -> BOOLEAN]
  BY DeviceStepOnQueue DEF GraphType
<1> QED BY <1>1, <1>2, DeviceStepOnQueue DEF GraphType, captureVars

LEMMA EncoderOperationKeeps ==
  ASSUME GraphType(Content), Ownership, EncoderOperation
  PROVE  GraphType(Content)' /\ Ownership'
<1>1. DeviceStep
  BY DEF EncoderOperation, DeviceStep
<1> DEFINE DeviceType == [yuv : Content, x : Content, q : QValue,
                          feature : History, out : History]
<1>2. device' \in DeviceType /\ host_result' \in [SlotIds -> History]
  <2> USE DEF NextOperation, DeviceOnly
  <2>1. CASE CommonOperation
    BY <2>1, CommonOperationType DEF GraphType
  <2>2. CASE UploadYuv
    <3>1. Head(stream).slot \in SlotIds
      BY <2>2, GraphTypeGivesSlotTypes, HeadSlot DEF UploadYuv, Copies
    <3> QED BY <2>2, <3>1 DEF UploadYuv, GraphType
  <2>3. CASE Yuv420ToNchw
    BY <2>3 DEF Yuv420ToNchw, GraphType
  <2>4. CASE DownloadLatents
    BY <2>4 DEF DownloadLatents, GraphType
  <2> QED BY <2>1, <2>2, <2>3, <2>4 DEF EncoderOperation
<1>3. GraphType(Content)'
  BY <1>1, <1>2, DeviceStepType
<1>4. Ownership'
  BY <1>1, DeviceStepOnQueue, ExecuteKeepsOwnership, GraphTypeGivesSlotTypes
<1> QED BY <1>3, <1>4

LEMMA DecoderOperationKeeps ==
  ASSUME GraphType(History), Ownership, DecoderOperation
  PROVE  GraphType(History)' /\ Ownership'
<1>1. DeviceStep
  BY DEF DecoderOperation, DeviceStep
<1> DEFINE DeviceType == [yuv : History, x : Content, q : QValue,
                          feature : History, out : History]
<1>2. device' \in DeviceType /\ host_result' \in [SlotIds -> History]
  <2> USE DEF NextOperation, DeviceOnly
  <2>1. CASE CommonOperation
    BY <2>1, CommonOperationType DEF GraphType
  <2>2. CASE UploadLatents
    <3>1. Head(stream).slot \in SlotIds
      BY <2>2, GraphTypeGivesSlotTypes, HeadSlot DEF UploadLatents, Copies
    <3> QED BY <2>2, <3>1 DEF UploadLatents, GraphType
  <2>3. CASE NchwToYuv420
    BY <2>3 DEF NchwToYuv420, GraphType
  <2>4. CASE DownloadYuv
    BY <2>4 DEF DownloadYuv, GraphType
  <2> QED BY <2>1, <2>2, <2>3, <2>4 DEF DecoderOperation
<1>3. GraphType(History)'
  BY <1>1, <1>2, DeviceStepType
<1>4. Ownership'
  BY <1>1, DeviceStepOnQueue, ExecuteKeepsOwnership, GraphTypeGivesSlotTypes
<1> QED BY <1>3, <1>4

(***************************************************************************)
(* A submission with its guards satisfied.                                 *)
(***************************************************************************)
LEMMA SubmitKeeps ==
  ASSUME NEW Y, GraphType(Y), Ownership,
         NEW s \in SlotIds, ~pending[s], NEW q \in Int,
         SubmitEncoder(s, q) \/ SubmitDecoder(s, q),
         host_frame' \in [SlotIds -> Content]
  PROVE  GraphType(Y)' /\ Ownership' /\ initialized' = initialized /\ live' = live
<1>1. PICK before, after :
         /\ EnqueueModel(before, after)
         /\ IsFrame(before \o <<Kernel("model")>> \o after, s)
  BY EncoderFrame, DecoderFrame DEF SubmitEncoder, SubmitDecoder
<1>2. /\ stream' = stream \o (before \o <<Kernel("model")>> \o after)
      /\ graph' \in {<<>>, <<Kernel("model")>>}
      /\ cutlass_ready' \in BOOLEAN
  BY <1>1, EnqueuedFrame DEF GraphType
<1>3. /\ Occupy(s, q)
      /\ host_result' = host_result /\ device' = device
      /\ initialized' = initialized /\ live' = live
  BY DEF SubmitEncoder, SubmitDecoder
<1>4. SlotTypes' /\ Ownership'
  BY <1>1, <1>2, <1>3, EnqueueKeepsOwnership, GraphTypeGivesSlotTypes DEF Occupy
<1>5. host_q' \in [SlotIds -> QValue]
  BY <1>3 DEF Occupy, GraphType, QValue
<1> QED BY <1>2, <1>3, <1>4, <1>5 DEF GraphType, SlotTypes

-----------------------------------------------------------------------------
(***************************************************************************)
(* The invariant of both loops.  Y and O are the contents of the device's  *)
(* yuv buffer and of the output stream.  Control says what each place of   *)
(* the thread's program knows: a frame that is being prepared has been     *)
(* read and has a free slot; the recurrent state has been reset before the *)
(* first submission; the executor exists until the call is over.           *)
(***************************************************************************)
LoopState(Y, O) ==
  /\ SourceType
  /\ GraphType(Y)
  /\ LoopType
  /\ output \in Seq(O)

Control ==
  /\ pc \in {"consume", "reset", "submit"} => submitted < Len(input)
  /\ pc \in {"reset", "submit"} => ~Full
  /\ submitted > 0 \/ pc = "submit" => initialized
  /\ live <=> ~Ended

BufferedInv(Y, O) ==
  /\ LoopState(Y, O)
  /\ SlotDiscipline
  /\ Control
  /\ PinnedOutlivesCopies

LEMMA LengthTypes ==
  ASSUME NEW Y, NEW O, LoopState(Y, O)
  PROVE  /\ Len(input) \in Nat
         /\ Len(output) \in Nat
         /\ submitted \in Nat
         /\ frames \in Nat
         /\ flushed \in Nat
         /\ Slots \in Nat /\ Slots >= 2
BY SlotsAssumption DEF LoopState, SourceType, LoopType

LEMMA InitialInv ==
  ASSUME NEW Y, NEW O, NEW yuv \in Y,
         SourceInit, GraphInit(yuv), LoopInit
  PROVE  BufferedInv(Y, O)
<1>1. SourceType
  BY DEF SourceInit, SourceType
<1>2. GraphType(Y)
  <2>1. Garbage \in History
    BY DEF Garbage, History, Content, QValue
  <2>2. Undefined \in Content /\ Undefined \in QValue
    BY DEF Content, QValue
  <2>3. device \in [yuv : Y, x : Content, q : QValue,
                    feature : History, out : History]
    BY <2>1, <2>2 DEF GraphInit
  <2>4. stream \in Seq(Operation)
    BY DEF GraphInit
  <2> QED BY <2>1, <2>2, <2>3, <2>4 DEF GraphInit, GraphType
<1>3. LoopType /\ output \in Seq(O)
  BY DEF LoopInit, LoopType
<1>4. Accounting
  <2>1. Len(output) = 0 /\ Len(input) = 0
    BY DEF LoopInit, SourceInit
  <2> QED BY <2>1, SlotsAssumption DEF LoopInit, Accounting
<1>5. InFlightArePending
  BY DEF InFlightArePending, InFlight, LoopInit, GraphInit
<1>6. Ownership
  <2>1. 1..Len(stream) = {}
    BY DEF GraphInit
  <2> QED BY <2>1 DEF Ownership, QueuedCopiesArePending, RecordComesLast
<1>7. Control
  BY DEF Control, LoopInit, GraphInit, Ended
<1>8. PinnedOutlivesCopies
  BY DEF PinnedOutlivesCopies, GraphInit
<1> QED BY <1>1, <1>2, <1>3, <1>4, <1>5, <1>6, <1>7, <1>8
        DEF BufferedInv, LoopState, SlotDiscipline

(***************************************************************************)
(* The slot of the next frame is free as soon as not all slots are in      *)
(* flight; and the slots in flight are distinct.                           *)
(***************************************************************************)
LEMMA NextSlotIsFree ==
  ASSUME NEW Y, NEW O, LoopState(Y, O), Accounting, InFlightArePending,
         pc \notin {"throw", "failed"}, ~Full
  PROVE  /\ SlotOf(submitted) \in SlotIds
         /\ ~pending[SlotOf(submitted)]
         /\ submitted - frames < Slots
<1>1. submitted - frames < Slots
  BY LengthTypes DEF Accounting, Full
<1>2. SlotOf(submitted) \in SlotIds
  BY LengthTypes, SlotOfIsSlot
<1>3. ~InFlight(SlotOf(submitted))
  <2> SUFFICES ASSUME NEW i \in frames..(submitted - 1), SlotOf(i) = SlotOf(submitted)
               PROVE  FALSE
    BY DEF InFlight
  <2>1. i \in Nat /\ i < submitted /\ submitted < i + Slots
    BY <1>1, LengthTypes
  <2> QED BY <2>1, LengthTypes, SlotOfDistinct
<1> QED BY <1>1, <1>2, <1>3 DEF InFlightArePending

(***************************************************************************)
(* The peer's steps, a step of the device, and steps that change nothing   *)
(* but the thread's program counter.                                       *)
(***************************************************************************)
LEMMA SourceKeepsType ==
  ASSUME SourceType, Source
  PROVE  SourceType' /\ Len(input') >= Len(input)
<1>1. CASE Produce
  <2>1. PICK f \in Frame : input' = Append(input, f)
    BY <1>1 DEF Produce
  <2>2. input' \in Seq(Frame) /\ Len(input') >= Len(input)
    BY <2>1 DEF SourceType
  <2> QED BY <1>1, <2>2 DEF Produce, SourceType
<1>2. CASE Close
  BY <1>2 DEF Close, SourceType
<1> QED BY <1>1, <1>2 DEF Source

LEMMA FeedInputKeeps ==
  ASSUME NEW Y, NEW O, BufferedInv(Y, O), FeedInput
  PROVE  BufferedInv(Y, O)'
<1> USE DEF BufferedInv
<1>1. SourceType' /\ Len(input') >= Len(input) /\ Len(input') \in Nat
  <2>1. SourceType' /\ Len(input') >= Len(input)
    BY SourceKeepsType DEF FeedInput, LoopState
  <2> QED BY <2>1 DEF SourceType
<1>2. UNCHANGED <<graphVars, loopVars>>
  BY DEF FeedInput
<1>3. LoopState(Y, O)'
  BY <1>1, <1>2
     DEF LoopState, GraphType, LoopType, graphVars, slotVars, captureVars, loopVars
<1>4. Accounting'
  BY <1>1, <1>2, LengthTypes DEF Accounting, SlotDiscipline, loopVars
<1>5. InFlightArePending'
  BY <1>2 DEF SlotDiscipline, InFlightArePending, InFlight, SlotOf, graphVars,
              slotVars, loopVars
<1>6. Ownership'
  BY <1>2 DEF SlotDiscipline, Ownership, QueuedCopiesArePending, RecordComesLast,
              graphVars, slotVars
<1>7. Control'
  BY <1>1, <1>2, LengthTypes DEF Control, Full, Ended, graphVars, loopVars
<1>8. PinnedOutlivesCopies'
  BY <1>2 DEF PinnedOutlivesCopies, graphVars
<1> QED BY <1>3, <1>4, <1>5, <1>6, <1>7, <1>8 DEF SlotDiscipline

LEMMA StutterKeeps ==
  ASSUME NEW Y, NEW O, BufferedInv(Y, O), UNCHANGED vars
  PROVE  BufferedInv(Y, O)'
<1> USE DEF BufferedInv, vars
<1>1. LoopState(Y, O)'
  BY DEF LoopState, SourceType, GraphType, LoopType, sourceVars, graphVars, slotVars,
         captureVars, loopVars
<1>2. Accounting'
  BY DEF Accounting, SlotDiscipline, loopVars, sourceVars
<1>3. InFlightArePending'
  BY DEF SlotDiscipline, InFlightArePending, InFlight, SlotOf, graphVars,
         slotVars, loopVars
<1>4. Ownership'
  BY DEF SlotDiscipline, Ownership, QueuedCopiesArePending, RecordComesLast,
         graphVars, slotVars
<1>5. Control'
  BY DEF Control, Full, Ended, graphVars, loopVars, sourceVars
<1>6. PinnedOutlivesCopies'
  BY DEF PinnedOutlivesCopies, graphVars
<1> QED BY <1>1, <1>2, <1>3, <1>4, <1>5, <1>6 DEF SlotDiscipline

(***************************************************************************)
(* A step of the device that keeps the executor's types and ownership.     *)
(***************************************************************************)
LEMMA DeviceKeeps ==
  ASSUME NEW Y, NEW O, BufferedInv(Y, O), DeviceStep,
         UNCHANGED <<sourceVars, loopVars>>, GraphType(Y)', Ownership'
  PROVE  BufferedInv(Y, O)'
<1> USE DEF BufferedInv
<1>1. UNCHANGED <<pending, initialized, live>> /\ stream' = Tail(stream) /\ stream # <<>>
  BY DeviceStepOnQueue
<1>2. LoopState(Y, O)'
  BY DEF LoopState, SourceType, LoopType, sourceVars, loopVars
<1>3. Accounting'
  BY DEF Accounting, SlotDiscipline, loopVars, sourceVars
<1>4. InFlightArePending'
  BY <1>1 DEF SlotDiscipline, InFlightArePending, InFlight, SlotOf, loopVars
<1>5. Control'
  BY <1>1 DEF Control, Full, Ended, loopVars, sourceVars
<1>6. PinnedOutlivesCopies'
  <2> SUFFICES ASSUME ~live', NEW k \in 1..Len(stream')
               PROVE  stream'[k].op \notin Copies
    BY DEF PinnedOutlivesCopies
  <2>1. stream \in Seq(Operation)
    BY DEF LoopState, GraphType
  <2>2. k + 1 \in 1..Len(stream) /\ stream'[k] = stream[k + 1]
    BY <1>1, <2>1
  <2> QED BY <1>1, <2>2 DEF PinnedOutlivesCopies
<1> QED BY <1>2, <1>3, <1>4, <1>5, <1>6 DEF SlotDiscipline

-----------------------------------------------------------------------------
(***************************************************************************)
(* The steps both loops share.                                             *)
(***************************************************************************)
LEMMA WaitKeepsGraphType ==
  ASSUME NEW Y, GraphType(Y), NEW s \in SlotIds, WaitCodecSlot(s),
         UNCHANGED <<host_frame, host_q, host_result, completed, stream, device,
                     initialized, captureVars, live>>
  PROVE  GraphType(Y)'
BY DEF GraphType, WaitCodecSlot, captureVars

(***************************************************************************)
(* pipeline.cpp:367-394 and 442-451: consuming the oldest frame in flight. *)
(***************************************************************************)
LEMMA DeliverKeeps ==
  ASSUME NEW Y, NEW O, BufferedInv(Y, O),
         Deliver(pc), pc \in {"loop", "consume", "drain"}, frames < submitted,
         Delivered(SlotOf(frames)) \in O
  PROVE  BufferedInv(Y, O)'
<1> USE DEF BufferedInv
<1> DEFINE s == SlotOf(frames)
<1>1. /\ s \in SlotIds
      /\ SlotTypes
      /\ Ownership
      /\ pending \in [SlotIds -> BOOLEAN]
  BY LengthTypes, SlotOfIsSlot, GraphTypeGivesSlotTypes
     DEF LoopState, SlotDiscipline, SlotTypes
<1>2. /\ WaitCodecSlot(s)
      /\ output' = Append(output, Delivered(s))
      /\ flushed' = IF options.stream THEN Len(output') ELSE flushed
      /\ frames' = frames + 1
      /\ pc' = pc
      /\ UNCHANGED <<sourceVars, host_frame, host_q, host_result, completed, stream,
                     device, initialized, captureVars, live, submitted>>
  BY DEF Deliver
<1>3. output' \in Seq(O) /\ Len(output') = Len(output) + 1
  BY <1>2 DEF LoopState
<1>4. flushed' \in Nat /\ flushed' <= frames'
  BY <1>2, <1>3, LengthTypes DEF SlotDiscipline, Accounting
<1>5. GraphType(Y)'
  BY <1>1, <1>2, WaitKeepsGraphType DEF LoopState
<1>6. LoopState(Y, O)'
  BY <1>2, <1>3, <1>4, <1>5 DEF LoopState, SourceType, LoopType, sourceVars
<1>7. Accounting'
  BY <1>2, <1>3, <1>4, LengthTypes DEF SlotDiscipline, Accounting, sourceVars
<1>8. InFlightArePending'
  <2> SUFFICES ASSUME NEW t \in SlotIds
               PROVE  pending'[t] <=> InFlight(t)'
    BY DEF InFlightArePending
  <2>1. pending[t] <=> InFlight(t)
    BY DEF SlotDiscipline, InFlightArePending
  <2>2. InFlight(t)' <=> \E i \in (frames + 1)..(submitted - 1) : SlotOf(i) = t
    BY <1>2 DEF InFlight, SlotOf
  <2>3. CASE t = s
    <3>1. ~pending'[t]
      BY <1>1, <1>2, <2>3 DEF WaitCodecSlot
    <3>2. \A i \in (frames + 1)..(submitted - 1) : SlotOf(i) # s
      <4> SUFFICES ASSUME NEW i \in (frames + 1)..(submitted - 1)
                   PROVE  SlotOf(i) # s
        OBVIOUS
      <4>1. i \in Nat /\ frames < i /\ i < frames + Slots
        BY LengthTypes DEF SlotDiscipline, Accounting
      <4> QED BY <4>1, LengthTypes, SlotOfDistinct
    <3> QED BY <2>2, <2>3, <3>1, <3>2
  <2>4. CASE t # s
    <3>1. pending'[t] = pending[t]
      BY <1>1, <1>2, <2>4 DEF WaitCodecSlot
    <3>2. \A i \in frames..(submitted - 1) :
            i = frames \/ i \in (frames + 1)..(submitted - 1)
      BY LengthTypes
    <3>3. \A i \in (frames + 1)..(submitted - 1) : i \in frames..(submitted - 1)
      BY LengthTypes
    <3>4. InFlight(t) <=> InFlight(t)'
      BY <2>2, <2>4, <3>2, <3>3 DEF InFlight
    <3> QED BY <2>1, <3>1, <3>4
  <2> QED BY <2>3, <2>4
<1>9. Ownership'
  BY <1>1, <1>2, WaitKeepsOwnership
<1>10. Control'
  BY <1>2, LengthTypes DEF Control, Full, Ended, sourceVars
<1>11. PinnedOutlivesCopies'
  BY <1>2 DEF PinnedOutlivesCopies
<1> QED BY <1>6, <1>7, <1>8, <1>9, <1>10, <1>11 DEF SlotDiscipline

(***************************************************************************)
(* The same, when encoding or writing the frame throws.                    *)
(***************************************************************************)
LEMMA ConsumeThrowsKeeps ==
  ASSUME NEW Y, NEW O, BufferedInv(Y, O), ConsumeThrows, ~Ended
  PROVE  BufferedInv(Y, O)'
<1> USE DEF BufferedInv
<1> DEFINE s == SlotOf(frames)
<1>1. /\ s \in SlotIds
      /\ SlotTypes
      /\ Ownership
  BY LengthTypes, SlotOfIsSlot, GraphTypeGivesSlotTypes
     DEF LoopState, SlotDiscipline
<1>2. /\ WaitCodecSlot(s)
      /\ pc' = "throw"
      /\ UNCHANGED <<sourceVars, host_frame, host_q, host_result, completed, stream,
                     device, initialized, captureVars, live, submitted, frames,
                     output, flushed>>
  BY DEF ConsumeThrows
<1>3. GraphType(Y)'
  BY <1>1, <1>2, WaitKeepsGraphType DEF LoopState
<1>4. LoopState(Y, O)'
  BY <1>2, <1>3 DEF LoopState, SourceType, LoopType, sourceVars
<1>5. Accounting'
  BY <1>2 DEF SlotDiscipline, Accounting, sourceVars
<1>6. InFlightArePending'
  BY <1>2 DEF InFlightArePending
<1>7. Ownership'
  BY <1>1, <1>2, WaitKeepsOwnership
<1>8. Control'
  BY <1>2 DEF Control, Ended
<1>9. PinnedOutlivesCopies'
  BY <1>2 DEF PinnedOutlivesCopies
<1> QED BY <1>4, <1>5, <1>6, <1>7, <1>8, <1>9 DEF SlotDiscipline

LEMMA DrainOneKeeps ==
  ASSUME NEW Y, NEW O, BufferedInv(Y, O), DrainOne,
         Delivered(SlotOf(frames)) \in O
  PROVE  BufferedInv(Y, O)'
<1>1. CASE Deliver("drain")
  BY <1>1, DeliverKeeps DEF DrainOne
<1>2. CASE ConsumeThrows
  BY <1>2, ConsumeThrowsKeeps DEF DrainOne, Ended
<1> QED BY <1>1, <1>2 DEF DrainOne

(***************************************************************************)
(* Steps that move the program counter between places that claim nothing   *)
(* new, and may raise `flushed' up to the output.                          *)
(***************************************************************************)
LEMMA MoveKeeps ==
  ASSUME NEW Y, NEW O, BufferedInv(Y, O), ~Ended,
         UNCHANGED <<sourceVars, graphVars, submitted, frames, output>>,
         flushed' = flushed \/ flushed' = Len(output),
         \/ pc' \in {"drain", "return", "throw"}
         \/ pc' = "consume" /\ submitted < Len(input)
         \/ pc' = "reset" /\ submitted < Len(input) /\ ~Full
         \/ pc' = "submit" /\ submitted < Len(input) /\ ~Full /\ initialized,
         pc = "throw" => pc' = "throw"
  PROVE  BufferedInv(Y, O)'
<1> USE DEF BufferedInv
<1>1. pc' \in {"drain", "return", "throw", "consume", "reset", "submit"}
  OBVIOUS
<1>2. flushed' \in Nat /\ flushed' <= frames
  BY LengthTypes DEF SlotDiscipline, Accounting
<1>3. LoopState(Y, O)'
  BY <1>1, <1>2
     DEF LoopState, SourceType, GraphType, LoopType, sourceVars, graphVars,
         slotVars, captureVars
<1>4. Accounting'
  BY <1>2 DEF SlotDiscipline, Accounting, sourceVars
<1>5. InFlightArePending'
  BY DEF SlotDiscipline, InFlightArePending, InFlight, SlotOf, Ended, graphVars,
         slotVars
<1>6. Ownership'
  BY DEF SlotDiscipline, Ownership, QueuedCopiesArePending, RecordComesLast,
         graphVars, slotVars
<1>7. Control'
  BY <1>1 DEF Control, Full, Ended, graphVars, sourceVars
<1>8. PinnedOutlivesCopies'
  BY DEF PinnedOutlivesCopies, graphVars
<1> QED BY <1>3, <1>4, <1>5, <1>6, <1>7, <1>8 DEF SlotDiscipline

LEMMA FinalizeKeeps ==
  ASSUME NEW Y, NEW O, BufferedInv(Y, O), Finalize
  PROVE  BufferedInv(Y, O)'
BY MoveKeeps DEF Finalize, Ended

(***************************************************************************)
(* The end of the call: after the destructor's waits no copy is queued.    *)
(***************************************************************************)
LEMMA LeaveKeeps ==
  ASSUME NEW Y, NEW O, BufferedInv(Y, O), Leave
  PROVE  BufferedInv(Y, O)'
<1> USE DEF BufferedInv
<1>1. /\ pc \in {"return", "throw"}
      /\ pc' = IF pc = "return" THEN "done" ELSE "failed"
      /\ UNCHANGED <<sourceVars, submitted, frames, output, flushed>>
      /\ DestroyGraph
  BY DEF Leave
<1>2. /\ live' = FALSE
      /\ UNCHANGED <<slotVars, stream, device, initialized, captureVars>>
  BY <1>1 DEF DestroyGraph
<1>3. LoopState(Y, O)'
  BY <1>1, <1>2
     DEF LoopState, SourceType, GraphType, LoopType, sourceVars, slotVars, captureVars
<1>4. Accounting'
  BY <1>1 DEF SlotDiscipline, Accounting, sourceVars
<1>5. InFlightArePending'
  BY <1>1, <1>2 DEF SlotDiscipline, InFlightArePending, InFlight, SlotOf, slotVars
<1>6. Ownership'
  BY <1>2 DEF SlotDiscipline, Ownership, QueuedCopiesArePending, RecordComesLast,
              slotVars
<1>7. Control'
  BY <1>1, <1>2 DEF Control, Ended
<1>8. PinnedOutlivesCopies'
  <2>1. \A k \in 1..Len(stream) : stream[k].op \notin Copies
    BY <1>1, DestroyLeavesNoCopies, GraphTypeGivesSlotTypes
       DEF LoopState, SlotDiscipline
  <2> QED BY <1>2, <2>1 DEF PinnedOutlivesCopies
<1> QED BY <1>3, <1>4, <1>5, <1>6, <1>7, <1>8 DEF SlotDiscipline
(***************************************************************************)
(* pipeline.cpp:404-406 and 461-463: a GOP begins.                         *)
(***************************************************************************)
LEMMA BeginGopKeeps ==
  ASSUME NEW Y, NEW O, BufferedInv(Y, O), pc = "reset", ResetState, pc' = "submit",
         UNCHANGED <<sourceVars, submitted, frames, output, flushed>>
  PROVE  BufferedInv(Y, O)'
<1> USE DEF BufferedInv
<1>1. /\ initialized' = TRUE
      /\ UNCHANGED <<slotVars, device, captureVars, live>>
  BY DEF ResetState
<1>2. SlotTypes' /\ Ownership'
  BY ResetKeepsOwnership, GraphTypeGivesSlotTypes DEF LoopState, SlotDiscipline
<1>3. LoopState(Y, O)'
  <2>1. SourceType' /\ LoopType' /\ output' \in Seq(O)
    BY DEF LoopState, SourceType, LoopType, sourceVars
  <2>2. GraphType(Y)'
    BY <1>1, <1>2 DEF LoopState, GraphType, SlotTypes, slotVars, captureVars
  <2> QED BY <2>1, <2>2 DEF LoopState
<1>4. Accounting'
  BY DEF SlotDiscipline, Accounting, sourceVars
<1>5. InFlightArePending'
  BY <1>1 DEF SlotDiscipline, InFlightArePending, InFlight, SlotOf, slotVars
<1>6. Control'
  BY <1>1 DEF Control, Full, Ended, sourceVars
<1>7. PinnedOutlivesCopies'
  BY <1>1 DEF PinnedOutlivesCopies, Control, Ended
<1> QED BY <1>2, <1>3, <1>4, <1>5, <1>6, <1>7 DEF SlotDiscipline

(***************************************************************************)
(* cuda_graph_executor.cpp:261-290 and 336-373: a frame is submitted to    *)
(* the slot that is free for it, and is in flight from then on.            *)
(***************************************************************************)
LEMMA SubmitFrameKeeps ==
  ASSUME NEW Y, NEW O, BufferedInv(Y, O), pc = "submit", NEW q \in Int,
         \/ SubmitEncoder(SlotOf(submitted), q)
         \/ SubmitDecoder(SlotOf(submitted), q),
         host_frame' \in [SlotIds -> Content],
         submitted' = submitted + 1, pc' = "loop",
         UNCHANGED <<sourceVars, frames, output, flushed>>
  PROVE  BufferedInv(Y, O)'
<1> USE DEF BufferedInv
<1> DEFINE s == SlotOf(submitted)
<1>1. ~Full /\ submitted < Len(input) /\ initialized /\ live
  BY DEF Control, Ended
<1>2. s \in SlotIds /\ ~pending[s] /\ submitted - frames < Slots
  BY <1>1, NextSlotIsFree DEF SlotDiscipline
<1>3. GraphType(Y)' /\ Ownership' /\ initialized' = initialized /\ live' = live
  BY <1>2, SubmitKeeps DEF LoopState, SlotDiscipline
<1>4. LoopState(Y, O)'
  <2>1. SourceType' /\ output' \in Seq(O) /\ flushed' \in Nat /\ frames' \in Nat
    BY DEF LoopState, SourceType, LoopType, sourceVars
  <2>2. submitted' \in Nat
    BY LengthTypes
  <2> QED BY <1>3, <2>1, <2>2 DEF LoopState, LoopType
<1>5. Accounting'
  BY <1>1, <1>2, LengthTypes DEF SlotDiscipline, Accounting, sourceVars
<1>6. InFlightArePending'
  <2> SUFFICES ASSUME NEW t \in SlotIds
               PROVE  pending'[t] <=> InFlight(t)'
    BY DEF InFlightArePending
  <2>1. pending' = [pending EXCEPT ![s] = TRUE]
    BY DEF SubmitEncoder, SubmitDecoder, Occupy
  <2>2. pending'[t] <=> t = s \/ pending[t]
    BY <1>2, <2>1 DEF LoopState, GraphType
  <2>3. pending[t] <=> InFlight(t)
    BY DEF SlotDiscipline, InFlightArePending
  <2>4. InFlight(t)' <=> \E i \in frames..submitted : SlotOf(i) = t
    <3>1. submitted' - 1 = submitted
      BY LengthTypes
    <3> QED BY <3>1 DEF InFlight, SlotOf
  <2>5. /\ submitted \in frames..submitted
        /\ \A i \in frames..submitted : i = submitted \/ i \in frames..(submitted - 1)
        /\ \A i \in frames..(submitted - 1) : i \in frames..submitted
    BY LengthTypes DEF SlotDiscipline, Accounting
  <2> QED BY <2>2, <2>3, <2>4, <2>5 DEF InFlight
<1>7. Control'
  BY <1>1, <1>3 DEF Control, Ended
<1>8. PinnedOutlivesCopies'
  BY <1>1, <1>3 DEF PinnedOutlivesCopies
<1> QED BY <1>3, <1>4, <1>5, <1>6, <1>7, <1>8 DEF SlotDiscipline

(***************************************************************************)
(* The pinned frame buffers are written, and the thread goes on.           *)
(***************************************************************************)
LEMMA FillFrameKeeps ==
  ASSUME NEW Y, NEW O, BufferedInv(Y, O), ~Ended,
         host_frame' \in [SlotIds -> Content],
         UNCHANGED <<sourceVars, host_q, host_result, pending, completed, stream,
                     device, initialized, captureVars, live, submitted, frames,
                     output, flushed>>,
         \/ pc' = "throw"
         \/ pc' = "reset" /\ submitted < Len(input) /\ ~Full
         \/ pc' = "submit" /\ submitted < Len(input) /\ ~Full /\ initialized,
         pc = "throw" => pc' = "throw"
  PROVE  BufferedInv(Y, O)'
<1> USE DEF BufferedInv
<1>1. pc' \in {"throw", "reset", "submit"}
  OBVIOUS
<1>2. LoopState(Y, O)'
  BY <1>1 DEF LoopState, SourceType, GraphType, LoopType, sourceVars, captureVars
<1>3. Accounting'
  BY DEF SlotDiscipline, Accounting, sourceVars
<1>4. InFlightArePending'
  BY DEF SlotDiscipline, InFlightArePending, InFlight, SlotOf, Ended
<1>5. Ownership'
  BY DEF SlotDiscipline, Ownership, QueuedCopiesArePending, RecordComesLast
<1>6. Control'
  BY <1>1 DEF Control, Full, Ended, sourceVars
<1>7. PinnedOutlivesCopies'
  BY DEF PinnedOutlivesCopies
<1> QED BY <1>2, <1>3, <1>4, <1>5, <1>6, <1>7 DEF SlotDiscipline

(***************************************************************************)
(* model.cpp:142-149: the first frame of a stream begins a GOP, so a frame *)
(* inside a GOP is not the first one.                                      *)
(***************************************************************************)
LEMMA FirstFrameBeginsGop ==
  ASSUME NEW frame \in Nat, FrameInGop(Config, frame) # 0
  PROVE  frame > 0
BY ConfigAssumption, GopCounts

-----------------------------------------------------------------------------
(***************************************************************************)
(* The queue replays the frames in the order of the stream.  `own' gives   *)
(* each queued operation the frame it belongs to, and the place behind the *)
(* queue the frame that is submitted next; `Name' is the operation at each *)
(* of these places.  Neighbours follow each other as one submission after  *)
(* the other enqueues them, so the whole queue is determined by what the   *)
(* device finds when it executes the oldest operation: `Ready' says what   *)
(* it must find then.                                                      *)
(***************************************************************************)
Upload == IF Encoding THEN "upload_yuv" ELSE "upload_latents"

FirstOperation(i) ==
  IF FrameInGop(Config, i) = 0 THEN "zero_feature" ELSE Upload

WithinFrame(a, b) ==
  \/ a = "zero_feature" /\ b = Upload
  \/ a = "upload_yuv" /\ b = "yuv420_to_nchw"
  \/ a \in {"yuv420_to_nchw", "upload_latents"} /\ b = "upload_q"
  \/ a = "upload_q" /\ b = "model"
  \/ a = "model" /\ b = IF Encoding THEN "download_latents" ELSE "nchw_to_yuv420"
  \/ a = "nchw_to_yuv420" /\ b = "download_yuv"
  \/ a \in {"download_latents", "download_yuv"} /\ b = "record"

\* Operation b of frame j is queued directly behind operation a of frame i.
Follows(a, i, b, j) ==
  \/ WithinFrame(a, b) /\ j = i
  \/ a = "record" /\ j = i + 1 /\ b = FirstOperation(j)

\* The operation the thread enqueues next.
Upcoming == IF pc = "submit" THEN Upload ELSE FirstOperation(submitted)

Name(k) == IF k <= Len(stream) THEN stream[k].op ELSE Upcoming

\* The feature the graph must find for frame i.
Before(i) == IF FrameInGop(Config, i) = 0 THEN <<>> ELSE Chain(i - 1)

\* What the device finds when the oldest operation is `name' of frame i.
Ready(name, i) ==
  /\ name = "zero_feature" => FrameInGop(Config, i) = 0
  /\ name \in {"upload_yuv", "upload_latents", "yuv420_to_nchw", "upload_q", "model"}
       => device.feature = Before(i)
  /\ name \in {"nchw_to_yuv420", "download_latents", "download_yuv", "record"}
       => device.feature = Chain(i)
  /\ name = "yuv420_to_nchw" => device.yuv = i
  /\ name \in {"upload_q", "model"} => device.x = i
  /\ name = "model" => device.q = Step(i)[2]
  /\ name \in {"nchw_to_yuv420", "download_latents"} => device.out = Chain(i)
  /\ name = "download_yuv" => device.yuv = Chain(i)
  /\ name = "record" => host_result[SlotOf(i)] = Chain(i)

Owners == [1..(Len(stream) + 1) -> Nat]

Linked(own) ==
  /\ own[Len(stream) + 1] = submitted
  /\ \A k \in 1..Len(stream) :
       /\ Follows(Name(k), own[k], Name(k + 1), own[k + 1])
       /\ own[k] <= submitted
       /\ Name(k) # "zero_feature" => own[k] < submitted

Addressed(own) ==
  \A k \in 1..Len(stream) :
    Name(k) \in Copies =>
      own[k] \in frames..(submitted - 1) /\ stream[k].slot = SlotOf(own[k])

Replays(own) == Linked(own) /\ Addressed(own) /\ Ready(Name(1), own[1])

(***************************************************************************)
(* The pinned memory of the frames in flight, and of the encoder's frame   *)
(* that is about to be submitted.                                          *)
(***************************************************************************)
HostReady ==
  /\ \A i \in frames..(submitted - 1) :
       /\ host_frame[SlotOf(i)] = i
       /\ host_q[SlotOf(i)] = Step(i)[2]
       /\ completed[SlotOf(i)] => host_result[SlotOf(i)] = Chain(i)
  /\ Encoding /\ pc \in {"reset", "submit"} => host_frame[SlotOf(submitted)] = submitted

Replay == HostReady /\ \E own \in Owners : Replays(own)

-----------------------------------------------------------------------------
(***************************************************************************)
(* The right results: one frame more each, whatever arrives later.         *)
(***************************************************************************)
LEMMA ChainGrows ==
  ASSUME NEW i \in Nat
  PROVE  Append(Before(i), Step(i)) = Chain(i)
<1> DEFINE S == {Step(m) : m \in Nat}
           f == [m \in Nat |-> Step(m)]
<1>1. f \in [Nat -> S] /\ f[i] = Step(i)
  OBVIOUS
<1>2. ASSUME NEW j \in Nat
      PROVE  Chain(j) = GopRun(Config, f, j)
  <2> DEFINE g == FrameInGop(Config, j)
  <2>1. g \in Nat /\ g <= j
    BY ConfigAssumption, FrameInGopIsNat, GopCounts
  <2>2. /\ Chain(j) = [k \in 1..(g + 1) |-> Step(j - g + k - 1)]
        /\ GopRun(Config, f, j) = [k \in 1..(g + 1) |-> f[j - g + k - 1]]
    BY DEF Chain, GopRun
  <2> HIDE DEF g
  <2>3. \A k \in 1..(g + 1) : j - g + k - 1 \in Nat
    BY <2>1
  <2>4. \A k \in 1..(g + 1) : f[j - g + k - 1] = Step(j - g + k - 1)
    BY <2>3
  <2> QED BY <2>2, <2>4
<1>3. FrameInGop(Config, i) # 0 => i - 1 \in Nat
  BY FirstFrameBeginsGop
<1>4. GopRun(Config, f, i)
        = Append(IF FrameInGop(Config, i) = 0 THEN <<>> ELSE GopRun(Config, f, i - 1), f[i])
  BY <1>1, ConfigAssumption, GopRunGrows
<1> HIDE DEF f
<1> QED BY <1>1, <1>2, <1>3, <1>4 DEF Before

LEMMA ResultsStay ==
  ASSUME SourceType, Source \/ UNCHANGED sourceVars
  PROVE  /\ Encoding' = Encoding /\ options' = options
         /\ \A k \in 1..Len(input) : input'[k] = input[k]
         /\ \A i \in Nat : i < Len(input) => Step(i)' = Step(i) /\ Chain(i)' = Chain(i)
         /\ \A i \in Nat : i <= Len(input) => Before(i)' = Before(i)
<1>1. options' = options /\ Encoding' = Encoding
  BY DEF Source, Produce, Close, sourceVars, Encoding
<1>2. ASSUME NEW k \in 1..Len(input)
      PROVE  input'[k] = input[k]
  <2>1. CASE Produce
    <3>1. PICK f \in Frame : input' = Append(input, f)
      BY <2>1 DEF Produce
    <3> QED BY <3>1 DEF SourceType
  <2>2. CASE Close \/ UNCHANGED sourceVars
    BY <2>2 DEF Close, sourceVars
  <2> QED BY <2>1, <2>2 DEF Source
<1>3. Len(input) \in Nat
  BY DEF SourceType
<1>4. ASSUME NEW i \in Nat, i < Len(input)
      PROVE  Step(i)' = Step(i)
  <2>1. i + 1 \in 1..Len(input)
    BY <1>3, <1>4
  <2> QED BY <1>2, <2>1 DEF Step
<1>5. ASSUME NEW i \in Nat, i < Len(input)
      PROVE  Chain(i)' = Chain(i)
  <2> DEFINE g == FrameInGop(Config, i)
  <2>1. g \in Nat /\ g <= i
    BY ConfigAssumption, FrameInGopIsNat, GopCounts
  <2>2. \A k \in 1..(g + 1) : i - g + k - 1 \in Nat /\ i - g + k - 1 < Len(input)
    <3> HIDE DEF g
    <3> QED BY <1>3, <1>5, <2>1
  <2>3. \A k \in 1..(g + 1) : Step(i - g + k - 1)' = Step(i - g + k - 1)
    BY <1>4, <2>2
  <2>4. /\ Chain(i) = [k \in 1..(g + 1) |-> Step(i - g + k - 1)]
        /\ Chain(i)' = [k \in 1..(g + 1) |-> Step(i - g + k - 1)']
    BY DEF Chain
  <2> HIDE DEF g
  <2> QED BY <2>3, <2>4
<1>6. ASSUME NEW i \in Nat, i <= Len(input)
      PROVE  Before(i)' = Before(i)
  <2>1. FrameInGop(Config, i) # 0 => i - 1 \in Nat /\ i - 1 < Len(input)
    BY <1>3, <1>6, FirstFrameBeginsGop
  <2> QED BY <1>5, <2>1 DEF Before
<1> QED BY <1>1, <1>2, <1>4, <1>5, <1>6

-----------------------------------------------------------------------------
(***************************************************************************)
(* The device executes the oldest operation and finds what the next one    *)
(* needs.                                                                  *)
(***************************************************************************)
LEMMA FollowsCases ==
  ASSUME NEW a, NEW i, NEW b, NEW j, Follows(a, i, b, j)
  PROVE  /\ a = "zero_feature" => j = i /\ b = Upload
         /\ a = "upload_yuv" => j = i /\ b = "yuv420_to_nchw"
         /\ a = "yuv420_to_nchw" => j = i /\ b = "upload_q"
         /\ a = "upload_latents" => j = i /\ b = "upload_q"
         /\ a = "upload_q" => j = i /\ b = "model"
         /\ a = "model" => j = i /\ b = IF Encoding THEN "download_latents"
                                        ELSE "nchw_to_yuv420"
         /\ a = "nchw_to_yuv420" => j = i /\ b = "download_yuv"
         /\ a = "download_latents" => j = i /\ b = "record"
         /\ a = "download_yuv" => j = i /\ b = "record"
         /\ a = "record" => j = i + 1 /\ b = FirstOperation(j)
BY DEF Follows, WithinFrame

LEMMA ExecutionReadies ==
  ASSUME NEW Y, GraphType(Y), DeviceStep, UNCHANGED <<sourceVars, loopVars>>,
         NEW i \in Nat, NEW b, NEW j,
         Ready(Head(stream).op, i), Follows(Head(stream).op, i, b, j),
         Head(stream).op \in Copies =>
           /\ Head(stream).slot = SlotOf(i)
           /\ host_frame[SlotOf(i)] = i
           /\ host_q[SlotOf(i)] = Step(i)[2]
  PROVE  Ready(b, j)'
<1> DEFINE a == Head(stream).op
<1>1. /\ Step(i)' = Step(i) /\ Chain(i)' = Chain(i) /\ Before(i)' = Before(i)
      /\ Encoding' = Encoding
  BY DEF Step, Chain, Before, Encoding, sourceVars
<1>2. device \in [yuv : Y, x : Content, q : QValue, feature : History, out : History]
  BY DEF GraphType
<1>3. CASE ZeroFeature
  <2>1. a = "zero_feature" /\ device'.feature = <<>>
    BY <1>2, <1>3 DEF ZeroFeature, NextOperation
  <2>2. j = i /\ b \in {"upload_yuv", "upload_latents"} /\ Before(i) = <<>>
    BY <2>1, FollowsCases DEF Upload, Ready, Before
  <2> QED BY <1>1, <2>1, <2>2 DEF Ready
<1>4. CASE UploadYuv
  <2>1. /\ a = "upload_yuv"
        /\ device'.feature = device.feature
        /\ device'.yuv = host_frame[Head(stream).slot]
    BY <1>2, <1>4 DEF UploadYuv, NextOperation
  <2>2. j = i /\ b = "yuv420_to_nchw" /\ device'.yuv = i
    BY <2>1, FollowsCases DEF Copies
  <2> QED BY <1>1, <2>1, <2>2 DEF Ready
<1>5. CASE Yuv420ToNchw
  <2>1. /\ a = "yuv420_to_nchw"
        /\ device'.feature = device.feature
        /\ device'.x = device.yuv
    BY <1>2, <1>5 DEF Yuv420ToNchw, NextOperation
  <2>2. j = i /\ b = "upload_q"
    BY <2>1, FollowsCases
  <2> QED BY <1>1, <2>1, <2>2 DEF Ready
<1>6. CASE UploadLatents
  <2>1. /\ a = "upload_latents"
        /\ device'.feature = device.feature
        /\ device'.x = host_frame[Head(stream).slot]
    BY <1>2, <1>6 DEF UploadLatents, NextOperation
  <2>2. j = i /\ b = "upload_q" /\ device'.x = i
    BY <2>1, FollowsCases DEF Copies
  <2> QED BY <1>1, <2>1, <2>2 DEF Ready
<1>7. CASE UploadQ
  <2>1. /\ a = "upload_q"
        /\ device'.feature = device.feature
        /\ device'.x = device.x
        /\ device'.q = host_q[Head(stream).slot]
    BY <1>2, <1>7 DEF UploadQ, NextOperation
  <2>2. j = i /\ b = "model" /\ device'.q = Step(i)[2]
    BY <2>1, FollowsCases DEF Copies
  <2> QED BY <1>1, <2>1, <2>2 DEF Ready
<1>8. CASE RunModel
  <2>1. /\ a = "model"
        /\ device'.feature = Append(device.feature, <<device.x, device.q>>)
        /\ device'.out = Append(device.feature, <<device.x, device.q>>)
    BY <1>2, <1>8 DEF RunModel, NextOperation
  <2>2. j = i /\ b \in {"download_latents", "nchw_to_yuv420"}
    BY <2>1, FollowsCases
  <2>3. device.feature = Before(i) /\ <<device.x, device.q>> = Step(i)
    BY <2>1 DEF Ready, Step
  <2>4. device'.feature = Chain(i) /\ device'.out = Chain(i)
    BY <2>1, <2>3, ChainGrows
  <2> QED BY <1>1, <2>2, <2>4 DEF Ready
<1>9. CASE NchwToYuv420
  <2>1. /\ a = "nchw_to_yuv420"
        /\ device'.feature = device.feature
        /\ device'.yuv = device.out
    BY <1>2, <1>9 DEF NchwToYuv420, NextOperation
  <2>2. j = i /\ b = "download_yuv"
    BY <2>1, FollowsCases
  <2> QED BY <1>1, <2>1, <2>2 DEF Ready
<1>10. CASE DownloadLatents \/ DownloadYuv
  <2>1. /\ a \in {"download_latents", "download_yuv"}
        /\ device' = device
        /\ host_result'[SlotOf(i)] = Chain(i)
    <3>1. Head(stream).op \in Copies /\ SlotOf(i) \in SlotIds
      BY <1>10, SlotOfIsSlot DEF DownloadLatents, DownloadYuv, NextOperation, Copies
    <3> QED BY <1>10, <3>1
            DEF DownloadLatents, DownloadYuv, NextOperation, Ready, GraphType
  <2>2. j = i /\ b = "record"
    BY <2>1, FollowsCases
  <2> QED BY <1>1, <2>1, <2>2 DEF Ready, SlotOf
<1>11. CASE ReachEvent
  <2>1. a = "record" /\ device' = device
    BY <1>11 DEF ReachEvent, NextOperation
  <2>2. j = i + 1 /\ j \in Nat /\ b = FirstOperation(j)
    BY <2>1, FollowsCases
  <2>3. CASE FrameInGop(Config, j) = 0
    BY <2>2, <2>3 DEF FirstOperation, Ready
  <2>4. CASE FrameInGop(Config, j) # 0
    <3>1. b \in {"upload_yuv", "upload_latents"} /\ Before(j) = Chain(i)
      BY <2>2, <2>4 DEF FirstOperation, Upload, Before
    <3>2. Before(j)' = Before(j) /\ device.feature = Chain(i)
      BY <2>1 DEF Before, Chain, Step, sourceVars, Ready
    <3> QED BY <2>1, <3>1, <3>2 DEF Ready
  <2> QED BY <2>3, <2>4
<1> QED BY <1>3, <1>4, <1>5, <1>6, <1>7, <1>8, <1>9, <1>10, <1>11
        DEF DeviceStep, CommonOperation

(***************************************************************************)
(* What a step of the device may change in the pinned memory.              *)
(***************************************************************************)
LEMMA DeviceWrites ==
  ASSUME NEW Y, GraphType(Y), DeviceStep, NEW s \in SlotIds
  PROVE  /\ host_result'[s] # host_result[s] =>
              Head(stream).op \in Copies /\ Head(stream).slot = s
         /\ completed'[s] /\ ~completed[s] =>
              Head(stream).op = "record" /\ Head(stream).slot = s
         /\ Head(stream).op = "record" => host_result' = host_result
<1> USE DEF NextOperation, DeviceOnly, GraphType
<1>1. CASE DownloadLatents \/ DownloadYuv
  BY <1>1 DEF DownloadLatents, DownloadYuv, Copies
<1>2. CASE ReachEvent
  BY <1>2 DEF ReachEvent
<1>3. CASE ZeroFeature \/ UploadYuv \/ Yuv420ToNchw \/ UploadLatents \/ UploadQ
           \/ RunModel \/ NchwToYuv420
  BY <1>3 DEF ZeroFeature, UploadYuv, Yuv420ToNchw, UploadLatents, UploadQ,
              RunModel, NchwToYuv420
<1> QED BY <1>1, <1>2, <1>3 DEF DeviceStep, CommonOperation

LEMMA QueueTail ==
  ASSUME NEW S, NEW q \in Seq(S), q # <<>>
  PROVE  /\ Len(q) >= 1
         /\ Head(q) = q[1]
         /\ Len(Tail(q)) = Len(q) - 1
         /\ \A k \in 1..(Len(q) - 1) : Tail(q)[k] = q[k + 1]
OBVIOUS

LEMMA ShiftOwner ==
  ASSUME NEW n \in Nat, n >= 1, NEW own \in [1..(n + 1) -> Nat]
  PROVE  /\ [k \in 1..n |-> own[k + 1]] \in [1..n -> Nat]
         /\ \A k \in 1..n : [m \in 1..n |-> own[m + 1]][k] = own[k + 1]
         /\ 1 \in 1..n /\ n \in 1..n
OBVIOUS

LEMMA DeviceReplays ==
  ASSUME NEW Y, NEW O, BufferedInv(Y, O), Replay, DeviceStep,
         UNCHANGED <<sourceVars, loopVars>>
  PROVE  Replay'
<1> USE DEF BufferedInv
<1>0. PICK n \in Nat : n = Len(stream)
  BY DEF LoopState, GraphType
<1>1. /\ n >= 1
      /\ stream # <<>>
      /\ Head(stream) = stream[1]
      /\ Len(stream') = n - 1
      /\ \A k \in 1..(n - 1) : stream'[k] = stream[k + 1]
  <2>1. stream \in Seq(Operation) /\ stream # <<>> /\ stream' = Tail(stream)
    BY DeviceStepOnQueue DEF LoopState, GraphType
  <2> QED BY <1>0, <2>1, QueueTail
<1>2. /\ UNCHANGED <<host_frame, host_q, pending>>
      /\ UNCHANGED <<pc, submitted, frames, input, options>>
  BY DeviceStepOnQueue DEF loopVars, sourceVars
<1>3. PICK own \in [1..(n + 1) -> Nat] : Replays(own)
  BY <1>0 DEF Replay, Owners
<1>4. PICK rest \in [1..n -> Nat] : \A k \in 1..n : rest[k] = own[k + 1]
  BY <1>1, ShiftOwner
<1>5. 1 \in 1..n /\ n \in 1..n /\ 1 + 1 = 2 /\ (n - 1) + 1 = n
  BY <1>1
<1>6. PICK i \in Nat : i = own[1]
  BY <1>1
<1>7. /\ Name(1) = Head(stream).op
      /\ \A k \in 1..n : Name(k)' = Name(k + 1)
  <2>1. Upcoming' = Upcoming
    BY <1>2 DEF Upcoming, Upload, FirstOperation, Encoding
  <2>2. \A k \in 1..n : k <= n - 1 => k \in 1..(n - 1)
    BY <1>1
  <2>3. \A k \in 1..n : k <= n - 1 <=> k + 1 <= n
    BY <1>1
  <2> QED BY <1>0, <1>1, <1>5, <2>1, <2>2, <2>3 DEF Name
<1>8. /\ Name(1) \in Copies => i \in frames..(submitted - 1)
                               /\ Head(stream).slot = SlotOf(i)
      /\ Follows(Name(1), i, Name(2), own[2])
      /\ Ready(Name(1), i)
  BY <1>0, <1>1, <1>3, <1>5, <1>6 DEF Replays, Linked, Addressed
<1>9. Linked(rest)'
  <2>1. rest[n] = submitted
    BY <1>0, <1>3, <1>4, <1>5 DEF Replays, Linked
  <2>2. ASSUME NEW k \in 1..(n - 1)
        PROVE  /\ Follows(Name(k), rest[k], Name(k + 1), rest[k + 1])'
               /\ rest[k] <= submitted
               /\ Name(k)' # "zero_feature" => rest[k] < submitted
    <3>1. k \in 1..n /\ k + 1 \in 1..n
      BY <1>1
    <3>2. /\ Name(k)' = Name(k + 1) /\ Name(k + 1)' = Name(k + 1 + 1)
          /\ rest[k] = own[k + 1] /\ rest[k + 1] = own[k + 1 + 1]
      BY <1>4, <1>7, <3>1
    <3>3. /\ Follows(Name(k + 1), own[k + 1], Name(k + 1 + 1), own[k + 1 + 1])
          /\ own[k + 1] <= submitted
          /\ Name(k + 1) # "zero_feature" => own[k + 1] < submitted
      BY <1>0, <1>3, <3>1 DEF Replays, Linked
    <3> QED BY <1>2, <3>2, <3>3
            DEF Follows, WithinFrame, FirstOperation, Upload, Encoding
  <2> QED BY <1>1, <1>2, <1>5, <2>1, <2>2 DEF Linked
<1>10. Addressed(rest)'
  <2> SUFFICES ASSUME NEW k \in 1..(n - 1), Name(k)' \in Copies
               PROVE  /\ rest[k] \in frames..(submitted - 1)
                      /\ stream'[k].slot = SlotOf(rest[k])
    BY <1>1, <1>2 DEF Addressed, SlotOf
  <2>1. k \in 1..n /\ k + 1 \in 1..n
    BY <1>1
  <2>2. Name(k)' = Name(k + 1) /\ rest[k] = own[k + 1] /\ stream'[k] = stream[k + 1]
    BY <1>1, <1>4, <1>7, <2>1
  <2> QED BY <1>0, <1>3, <2>1, <2>2 DEF Replays, Addressed
<1>11. Ready(Name(1), rest[1])'
  <2>1. Name(1)' = Name(2) /\ rest[1] = own[2]
    BY <1>4, <1>5, <1>7
  <2>2. Head(stream).op \in Copies =>
          /\ Head(stream).slot = SlotOf(i)
          /\ host_frame[SlotOf(i)] = i
          /\ host_q[SlotOf(i)] = Step(i)[2]
    BY <1>7, <1>8 DEF Replay, HostReady
  <2> QED BY <1>4, <1>7, <1>8, <2>1, <2>2, ExecutionReadies DEF LoopState
<1>12. HostReady'
  <2>1. ASSUME NEW j \in frames..(submitted - 1)
        PROVE  /\ host_frame[SlotOf(j)] = j
               /\ host_q[SlotOf(j)] = Step(j)[2]
               /\ completed'[SlotOf(j)] => host_result'[SlotOf(j)] = Chain(j)
    <3>1. j \in Nat /\ SlotOf(j) \in SlotIds
      BY LengthTypes, SlotOfIsSlot
    <3>2. CASE completed[SlotOf(j)]
      <4>1. ~(Head(stream).op \in Copies /\ Head(stream).slot = SlotOf(j))
        BY <1>0, <1>1, <1>5, <3>2 DEF SlotDiscipline, Ownership, QueuedCopiesArePending
      <4>2. host_result'[SlotOf(j)] = host_result[SlotOf(j)]
        BY <3>1, <4>1, DeviceWrites DEF LoopState
      <4> QED BY <3>2, <4>2 DEF Replay, HostReady
    <3>3. CASE ~completed[SlotOf(j)] /\ completed'[SlotOf(j)]
      <4>1. Head(stream).op = "record" /\ Head(stream).slot = SlotOf(j)
        BY <3>1, <3>3, DeviceWrites DEF LoopState
      <4>2. i \in frames..(submitted - 1) /\ SlotOf(i) = SlotOf(j)
        BY <1>7, <1>8, <4>1 DEF Copies
      <4>3. i = j
        <5>1. /\ i < j + Slots /\ j < i + Slots
          BY <3>1, <4>2, LengthTypes DEF SlotDiscipline, Accounting
        <5> QED BY <3>1, <4>2, <5>1, SlotOfDistinct
      <4>4. host_result' = host_result
        BY <4>1, DeviceWrites, <3>1 DEF LoopState
      <4>5. host_result[SlotOf(j)] = Chain(j)
        BY <1>7, <1>8, <4>1, <4>3 DEF Ready
      <4> QED BY <4>4, <4>5 DEF Replay, HostReady
    <3> QED BY <3>2, <3>3 DEF Replay, HostReady
  <2>2. \A j : Chain(j)' = Chain(j) /\ Step(j)' = Step(j) /\ SlotOf(j)' = SlotOf(j)
    BY <1>2 DEF Chain, Step, SlotOf
  <2>3. Encoding' = Encoding /\ (Encoding /\ pc \in {"reset", "submit"} =>
                                   host_frame[SlotOf(submitted)] = submitted)
    BY <1>2 DEF Encoding, Replay, HostReady
  <2> QED BY <1>2, <2>1, <2>2, <2>3 DEF HostReady
<1>13. rest \in Owners'
  BY <1>1, <1>5 DEF Owners
<1> QED BY <1>9, <1>10, <1>11, <1>12, <1>13 DEF Replay, Replays

-----------------------------------------------------------------------------
(***************************************************************************)
(* Steps of the thread and of the peer that neither enqueue nor execute:   *)
(* more input arrives, the oldest frame is taken out of its slot, the next *)
(* frame is read into its own.                                             *)
(***************************************************************************)
LEMMA QueueStays ==
  ASSUME NEW Y, NEW O, BufferedInv(Y, O), Replay,
         UNCHANGED <<stream, device, host_q, host_result, completed, submitted>>,
         Source \/ UNCHANGED sourceVars,
         Upcoming' = Upcoming,
         \/ frames' = frames
         \/ frames' = frames + 1 /\ SlotReady(SlotOf(frames)),
         \A i \in frames..(submitted - 1) :
           host_frame'[SlotOf(i)] = host_frame[SlotOf(i)],
         Encoding /\ pc' \in {"reset", "submit"} =>
           host_frame'[SlotOf(submitted)] = submitted
  PROVE  Replay'
<1> USE DEF BufferedInv
<1>1. PICK own \in Owners : Replays(own)
  BY DEF Replay
<1>2. PICK n \in Nat : n = Len(stream)
  BY DEF LoopState, GraphType
<1>3. \A k \in Nat : Name(k)' = Name(k)
  BY DEF Name
<1>4. /\ options' = options /\ Encoding' = Encoding
      /\ \A i \in Nat : i < Len(input) => Step(i)' = Step(i) /\ Chain(i)' = Chain(i)
      /\ \A i \in Nat : i <= Len(input) => Before(i)' = Before(i)
  BY ResultsStay DEF LoopState
<1>5. submitted <= Len(input) /\ own \in [1..(n + 1) -> Nat]
  BY <1>2 DEF SlotDiscipline, Accounting, Owners
<1>6. Linked(own)'
  <2>1. ASSUME NEW k \in 1..n
        PROVE  /\ Follows(Name(k), own[k], Name(k + 1), own[k + 1])'
               /\ own[k] <= submitted
               /\ Name(k)' # "zero_feature" => own[k] < submitted
    <3>1. /\ Follows(Name(k), own[k], Name(k + 1), own[k + 1])
          /\ own[k] <= submitted
          /\ Name(k) # "zero_feature" => own[k] < submitted
          /\ Name(k)' = Name(k) /\ Name(k + 1)' = Name(k + 1)
      BY <1>1, <1>2, <1>3 DEF Replays, Linked
    <3> QED BY <1>4, <3>1 DEF Follows, WithinFrame, FirstOperation, Upload
  <2> QED BY <1>1, <1>2, <2>1 DEF Replays, Linked
<1>7. Addressed(own)'
  <2> SUFFICES ASSUME NEW k \in 1..n, Name(k) \in Copies
               PROVE  own[k] \in frames'..(submitted - 1) /\ stream[k].slot = SlotOf(own[k])
    BY <1>2, <1>3 DEF Addressed, SlotOf
  <2>1. own[k] \in frames..(submitted - 1) /\ stream[k].slot = SlotOf(own[k])
    BY <1>1, <1>2 DEF Replays, Addressed
  <2>2. SlotReady(SlotOf(frames)) => own[k] # frames
    <3>1. SlotTypes /\ Ownership /\ SlotOf(frames) \in SlotIds
      BY GraphTypeGivesSlotTypes, LengthTypes, SlotOfIsSlot DEF LoopState, SlotDiscipline
    <3> QED BY <1>2, <2>1, <3>1, ReadySlotIsIdle
  <2> QED BY <2>1, <2>2, LengthTypes
<1>8. Ready(Name(1), own[1])'
  <2>0. PICK i \in Nat : i = own[1]
    BY <1>5
  <2>1. PICK name : name = Name(1) /\ i = own[1]
    BY <2>0
  <2>2. /\ Ready(name, i)
        /\ name \in {"zero_feature", "upload_yuv", "upload_latents"} => i <= Len(input)
        /\ name \notin {"zero_feature", "upload_yuv", "upload_latents"} => i < Len(input)
    <3>1. CASE n = 0
      <4>1. own[1] = submitted /\ Name(1) = Upcoming
        BY <1>1, <1>2, <3>1 DEF Replays, Linked, Name
      <4>2. Upcoming \in {"zero_feature", "upload_yuv", "upload_latents"}
        BY DEF Upcoming, FirstOperation, Upload
      <4> QED BY <1>1, <1>5, <2>1, <4>1, <4>2 DEF Replays
    <3>2. CASE n # 0
      <4>1. own[1] <= submitted /\ (Name(1) # "zero_feature" => own[1] < submitted)
        BY <1>1, <1>2, <3>2 DEF Replays, Linked
      <4> QED BY <1>1, <1>5, <2>1, <4>1, LengthTypes DEF Replays
    <3> QED BY <3>1, <3>2
  <2>3. Ready(name, i)'
    <3>1. CASE name \in {"zero_feature", "upload_yuv", "upload_latents"}
      BY <1>4, <2>2, <3>1 DEF Ready
    <3>2. CASE name \notin {"zero_feature", "upload_yuv", "upload_latents"}
      <4>1. /\ Step(i)' = Step(i) /\ Chain(i)' = Chain(i) /\ Before(i)' = Before(i)
        BY <1>4, <2>2, <3>2, LengthTypes
      <4> QED BY <2>2, <4>1 DEF Ready, SlotOf
    <3> QED BY <3>1, <3>2
  <2>4. Name(1)' = name /\ own[1] = i
    BY <1>3, <2>1
  <2> QED BY <2>3, <2>4
<1>9. HostReady'
  <2>1. ASSUME NEW i \in frames'..(submitted - 1)
        PROVE  /\ host_frame'[SlotOf(i)] = i
               /\ host_q'[SlotOf(i)] = Step(i)[2]'
               /\ completed'[SlotOf(i)] => host_result'[SlotOf(i)] = Chain(i)'
    <3>1. i \in frames..(submitted - 1) /\ i \in Nat /\ i < Len(input)
      BY <1>5, LengthTypes
    <3>2. Step(i)' = Step(i) /\ Chain(i)' = Chain(i)
      BY <1>4, <3>1
    <3> QED BY <3>1, <3>2 DEF Replay, HostReady
  <2> QED BY <1>4, <2>1 DEF HostReady, SlotOf
<1>10. own \in Owners'
  BY <1>1 DEF Owners
<1> QED BY <1>6, <1>7, <1>8, <1>9, <1>10 DEF Replay, Replays

-----------------------------------------------------------------------------
(***************************************************************************)
(* A GOP begins: the reset is queued in front of the frame.                *)
(***************************************************************************)
LEMMA ResetReplays ==
  ASSUME NEW Y, NEW O, BufferedInv(Y, O), Replay,
         pc = "reset", pc' = "submit", ResetState, FrameInGop(Config, submitted) = 0,
         UNCHANGED <<sourceVars, submitted, frames, output, flushed>>
  PROVE  Replay'
<1> USE DEF BufferedInv
<1>1. PICK n \in Nat : n = Len(stream)
  BY DEF LoopState, GraphType
<1>2. PICK own \in [1..(n + 1) -> Nat] : Replays(own)
  BY <1>1 DEF Replay, Owners
<1>3. PICK more \in [1..(n + 2) -> Nat] :
         /\ \A k \in 1..(n + 1) : more[k] = own[k]
         /\ more[n + 2] = submitted
  <2> DEFINE f == [k \in 1..(n + 2) |-> IF k <= n + 1 THEN own[k] ELSE submitted]
  <2>1. submitted \in Nat
    BY LengthTypes
  <2>2. /\ f \in [1..(n + 2) -> Nat]
        /\ \A k \in 1..(n + 1) : f[k] = own[k]
        /\ f[n + 2] = submitted
    BY <2>1
  <2> QED BY <2>2
<1>4. /\ Len(stream') = n + 1
      /\ \A k \in 1..n : stream'[k] = stream[k]
      /\ stream'[n + 1] = Kernel("zero_feature")
  <2>1. stream \in Seq(Operation) /\ stream' = Append(stream, Kernel("zero_feature"))
    BY DEF LoopState, GraphType, ResetState
  <2> QED BY <1>1, <2>1
<1>5. UNCHANGED <<host_frame, host_q, host_result, completed, device, input, options>>
  BY DEF ResetState, slotVars, sourceVars
<1>6. own[n + 1] = submitted /\ Name(n + 1) = "zero_feature"
  BY <1>1, <1>2 DEF Replays, Linked, Name, Upcoming, FirstOperation
<1>7. /\ \A k \in 1..(n + 1) : Name(k)' = Name(k)
      /\ Name(n + 2)' = Upload
  <2>1. \A k \in 1..n : Name(k)' = Name(k)
    BY <1>1, <1>4 DEF Name
  <2>2. Name(n + 1)' = "zero_feature"
    BY <1>4 DEF Name, Kernel
  <2>3. Name(n + 2)' = Upload
    BY <1>4, <1>5 DEF Name, Upcoming, Upload, Encoding
  <2>4. \A k \in 1..(n + 1) : k = n + 1 \/ k \in 1..n
    OBVIOUS
  <2> QED BY <1>6, <2>1, <2>2, <2>3, <2>4
<1>8. ASSUME NEW k \in 1..(n + 1)
      PROVE  /\ Follows(Name(k), more[k], Name(k + 1), more[k + 1])'
             /\ more[k] <= submitted
             /\ Name(k)' # "zero_feature" => more[k] < submitted
  <2>1. CASE k \in 1..n
    <3>1. k + 1 \in 1..(n + 1)
      BY <2>1
    <3>2. /\ Name(k)' = Name(k) /\ Name(k + 1)' = Name(k + 1)
          /\ more[k] = own[k] /\ more[k + 1] = own[k + 1]
      BY <1>3, <1>7, <3>1
    <3>3. /\ Follows(Name(k), own[k], Name(k + 1), own[k + 1])
          /\ own[k] <= submitted
          /\ Name(k) # "zero_feature" => own[k] < submitted
      BY <1>1, <1>2, <2>1 DEF Replays, Linked
    <3> QED BY <1>5, <3>2, <3>3
            DEF Follows, WithinFrame, FirstOperation, Upload, Encoding
  <2>2. CASE k = n + 1
    <3>1. /\ Name(k)' = "zero_feature" /\ Name(k + 1)' = Upload
          /\ more[k] = submitted /\ more[k + 1] = submitted
      <4>1. k + 1 = n + 2 /\ k \in 1..(n + 1)
        BY <2>2
      <4> QED BY <1>3, <1>6, <1>7, <2>2, <4>1
    <3> QED BY <1>5, <3>1, LengthTypes DEF Follows, WithinFrame, Upload, Encoding
  <2> QED BY <2>1, <2>2
<1>9. Linked(more)'
  <2>1. Len(stream') + 1 = n + 2
    BY <1>4
  <2> QED BY <1>3, <1>4, <1>8, <2>1 DEF Linked
<1>10. Addressed(more)'
  <2> SUFFICES ASSUME NEW k \in 1..(n + 1), Name(k)' \in Copies
               PROVE  more[k] \in frames..(submitted - 1) /\ stream'[k].slot = SlotOf(more[k])
    BY <1>4 DEF Addressed, SlotOf
  <2>1. k \in 1..n
    BY <1>6, <1>7 DEF Copies
  <2> QED BY <1>1, <1>2, <1>3, <1>4, <1>7, <2>1 DEF Replays, Addressed
<1>11. Ready(Name(1), more[1])'
  <2>1. Name(1)' = Name(1) /\ more[1] = own[1] /\ Ready(Name(1), own[1])
    BY <1>2, <1>3, <1>7 DEF Replays
  <2> QED BY <1>5, <2>1 DEF Ready, Before, Chain, Step, SlotOf
<1>12. HostReady'
  BY <1>5 DEF Replay, HostReady, Chain, Step, SlotOf, Encoding
<1>13. more \in Owners'
  BY <1>4 DEF Owners
<1> QED BY <1>9, <1>10, <1>11, <1>12, <1>13 DEF Replay, Replays

(***************************************************************************)
(* A frame is submitted: what it enqueues begins where the queue ended,    *)
(* and ends where the next frame begins.                                   *)
(***************************************************************************)
IsSubmission(new) ==
  /\ new[1].op = Upload
  /\ \A k \in 1..5 : WithinFrame(new[k].op, new[k + 1].op)
  /\ new[6].op = "record"
  /\ \A k \in 1..6 : new[k].op # "zero_feature" /\ (new[k].op \in Copies => new[k].slot # NoSlot)

LEMMA SixIndices ==
  /\ \A k \in 1..6 : k = 1 \/ k = 2 \/ k = 3 \/ k = 4 \/ k = 5 \/ k = 6
  /\ \A k \in 1..5 : k = 1 \/ k = 2 \/ k = 3 \/ k = 4 \/ k = 5
  /\ 1 + 1 = 2 /\ 2 + 1 = 3 /\ 3 + 1 = 4 /\ 4 + 1 = 5 /\ 5 + 1 = 6
OBVIOUS

LEMMA EncoderSubmission ==
  ASSUME NEW s \in SlotIds, Encoding
  PROVE  IsSubmission(EncoderFeed(s) \o <<Kernel("model")>> \o EncoderDrain(s))
<1> DEFINE new == EncoderFeed(s) \o <<Kernel("model")>> \o EncoderDrain(s)
<1>1. /\ new[1] = Copy("upload_yuv", s)
      /\ new[2] = Kernel("yuv420_to_nchw")
      /\ new[3] = Copy("upload_q", s)
      /\ new[4] = Kernel("model")
      /\ new[5] = Copy("download_latents", s)
      /\ new[6] = Copy("record", s)
  BY DEF EncoderFeed, EncoderDrain
<1> HIDE DEF new
<1>2. s # NoSlot
  BY SlotsAssumption DEF SlotIds, NoSlot
<1>3. \A k \in 1..6 : new[k].op # "zero_feature" /\ (new[k].op \in Copies => new[k].slot # NoSlot)
  BY <1>1, <1>2 DEF Copy, Kernel, Copies
<1>4. \A k \in 1..5 : WithinFrame(new[k].op, new[k + 1].op)
  BY <1>1, SixIndices DEF Copy, Kernel, WithinFrame
<1>5. new[1].op = Upload /\ new[6].op = "record"
  BY <1>1 DEF Copy, Upload
<1>6. IsSubmission(new)
  BY <1>3, <1>4, <1>5 DEF IsSubmission
<1> QED BY <1>6 DEF new

LEMMA DecoderSubmission ==
  ASSUME NEW s \in SlotIds, ~Encoding
  PROVE  IsSubmission(DecoderFeed(s) \o <<Kernel("model")>> \o DecoderDrain(s))
<1> DEFINE new == DecoderFeed(s) \o <<Kernel("model")>> \o DecoderDrain(s)
<1>1. /\ new[1] = Copy("upload_latents", s)
      /\ new[2] = Copy("upload_q", s)
      /\ new[3] = Kernel("model")
      /\ new[4] = Kernel("nchw_to_yuv420")
      /\ new[5] = Copy("download_yuv", s)
      /\ new[6] = Copy("record", s)
  BY DEF DecoderFeed, DecoderDrain
<1> HIDE DEF new
<1>2. s # NoSlot
  BY SlotsAssumption DEF SlotIds, NoSlot
<1>3. \A k \in 1..6 : new[k].op # "zero_feature" /\ (new[k].op \in Copies => new[k].slot # NoSlot)
  BY <1>1, <1>2 DEF Copy, Kernel, Copies
<1>4. \A k \in 1..5 : WithinFrame(new[k].op, new[k + 1].op)
  BY <1>1, SixIndices DEF Copy, Kernel, WithinFrame
<1>5. new[1].op = Upload /\ new[6].op = "record"
  BY <1>1 DEF Copy, Upload
<1>6. IsSubmission(new)
  BY <1>3, <1>4, <1>5 DEF IsSubmission
<1> QED BY <1>6 DEF new

LEMMA QueueWithFrame ==
  ASSUME NEW a \in Seq(Operation), NEW new \in Seq(Operation), Len(new) = 6,
         NEW n \in Nat, n = Len(a)
  PROVE  /\ Len(a \o new) = n + 6
         /\ \A k \in 1..n : (a \o new)[k] = a[k]
         /\ \A k \in 1..6 : (a \o new)[n + k] = new[k]
<1>1. /\ Len(a \o new) = n + 6
      /\ \A k \in 1..(n + 6) :
           (a \o new)[k] = IF k <= n THEN a[k] ELSE new[k - n]
  <2>1. /\ Len(a \o new) = Len(a) + Len(new)
        /\ \A k \in 1..(Len(a) + Len(new)) :
             (a \o new)[k] = IF k <= Len(a) THEN a[k] ELSE new[k - Len(a)]
    BY ConcatElement, Zenon
  <2> QED BY <2>1, Zenon
<1>2. ASSUME NEW k \in 1..n
      PROVE  (a \o new)[k] = a[k]
  BY <1>1
<1>3. ASSUME NEW k \in 1..6
      PROVE  (a \o new)[n + k] = new[k]
  <2>1. n + k \in 1..(n + 6) /\ ~(n + k <= n) /\ (n + k) - n = k
    OBVIOUS
  <2> QED BY <1>1, <2>1
<1> QED BY <1>1, <1>2, <1>3

LEMMA SubmissionReplays ==
  ASSUME NEW Y, NEW O, BufferedInv(Y, O), Replay, pc = "submit", pc' = "loop",
         NEW new, IsFrame(new, SlotOf(submitted)), IsSubmission(new),
         stream' = stream \o new,
         host_q' = [host_q EXCEPT ![SlotOf(submitted)] = Step(submitted)[2]],
         completed' = [completed EXCEPT ![SlotOf(submitted)] = FALSE],
         \/ host_frame' = [host_frame EXCEPT ![SlotOf(submitted)] = submitted]
         \/ Encoding /\ host_frame' = host_frame,
         submitted' = submitted + 1,
         UNCHANGED <<sourceVars, frames, device, host_result>>
  PROVE  Replay'
<1> USE DEF BufferedInv
<1> DEFINE s == SlotOf(submitted)
<1>0. submitted \in Nat /\ frames \in Nat
  BY LengthTypes
<1>1. PICK n \in Nat : n = Len(stream)
  BY DEF LoopState, GraphType
<1>2. PICK own \in [1..(n + 1) -> Nat] : Replays(own)
  BY <1>1 DEF Replay, Owners
<1>3. PICK more \in [1..(n + 7) -> Nat] :
         /\ \A k \in 1..(n + 1) : more[k] = own[k]
         /\ \A k \in (n + 1)..(n + 6) : more[k] = submitted
         /\ more[n + 7] = submitted + 1
  <2> DEFINE f == [k \in 1..(n + 7) |-> IF k <= n THEN own[k]
                                        ELSE IF k < n + 7 THEN submitted ELSE submitted + 1]
  <2>1. submitted \in Nat /\ submitted + 1 \in Nat
    BY LengthTypes
  <2>2. own[n + 1] = submitted
    BY <1>1, <1>2 DEF Replays, Linked
  <2>3. /\ f \in [1..(n + 7) -> Nat]
        /\ \A k \in 1..(n + 1) : f[k] = own[k]
        /\ \A k \in (n + 1)..(n + 6) : f[k] = submitted
        /\ f[n + 7] = submitted + 1
    BY <2>1, <2>2
  <2> QED BY <2>3
<1>4. /\ Len(stream') = n + 6
      /\ \A k \in 1..n : stream'[k] = stream[k]
      /\ \A k \in 1..6 : stream'[n + k] = new[k]
  <2>1. stream \in Seq(Operation) /\ new \in Seq(Operation) /\ Len(new) = 6
    BY DEF LoopState, GraphType, IsFrame
  <2> QED BY <1>1, <2>1, QueueWithFrame
<1>5. UNCHANGED <<frames, device, host_result, input, options>> /\ Encoding' = Encoding
  BY DEF sourceVars, Encoding
<1>6. own[n + 1] = submitted /\ Name(n + 1) = Upload
  BY <1>1, <1>2 DEF Replays, Linked, Name, Upcoming
<1>7. /\ \A k \in 1..6 : Name(n + k)' = new[k].op
      /\ \A k \in 1..(n + 1) : Name(k)' = Name(k)
      /\ Name(n + 7)' = FirstOperation(submitted + 1)
  <2>1. \A k \in 1..n : Name(k)' = Name(k)
    BY <1>1, <1>4 DEF Name
  <2>2. ASSUME NEW k \in 1..6
        PROVE  Name(n + k)' = new[k].op
    <3>1. n + k <= n + 6
      OBVIOUS
    <3> QED BY <1>4, <3>1 DEF Name
  <2>3. Name(n + 1)' = Upload
    <3>1. 1 \in 1..6
      OBVIOUS
    <3> QED BY <2>2, <3>1 DEF IsSubmission
  <2>4. Name(n + 7)' = FirstOperation(submitted + 1)
    BY <1>4, <1>5 DEF Name, Upcoming, FirstOperation, Upload
  <2>5. \A k \in 1..(n + 1) : k = n + 1 \/ k \in 1..n
    OBVIOUS
  <2> QED BY <1>6, <2>1, <2>2, <2>3, <2>4, <2>5
<1>8. \A k \in 1..(n + 6) : k \in 1..n \/ \E m \in 1..6 : k = n + m
  <2> SUFFICES ASSUME NEW k \in 1..(n + 6), k \notin 1..n
               PROVE  \E m \in 1..6 : k = n + m
    OBVIOUS
  <2>1. k - n \in 1..6 /\ k = n + (k - n)
    OBVIOUS
  <2> QED BY <2>1
<1>9. \A m \in 1..6 : n + m \in (n + 1)..(n + 6)
  OBVIOUS
<1>10. ASSUME NEW k \in 1..(n + 6)
      PROVE  /\ Follows(Name(k), more[k], Name(k + 1), more[k + 1])'
             /\ more[k] <= submitted
  <2>1. CASE k \in 1..n
    <3>1. k + 1 \in 1..(n + 1) /\ k \in 1..(n + 1)
      BY <2>1
    <3>2. /\ Name(k)' = Name(k) /\ Name(k + 1)' = Name(k + 1)
          /\ more[k] = own[k] /\ more[k + 1] = own[k + 1]
      BY <1>3, <1>7, <3>1
    <3>3. /\ Follows(Name(k), own[k], Name(k + 1), own[k + 1])
          /\ own[k] <= submitted
      BY <1>1, <1>2, <2>1 DEF Replays, Linked
    <3> QED BY <1>5, <3>2, <3>3
            DEF Follows, WithinFrame, FirstOperation, Upload
  <2>2. ASSUME NEW m \in 1..5, k = n + m
        PROVE  Follows(Name(k), more[k], Name(k + 1), more[k + 1])'
    <3>1. m \in 1..6 /\ m + 1 \in 1..6 /\ k + 1 = n + (m + 1)
      BY <2>2
    <3>2. /\ Name(k)' = new[m].op /\ Name(k + 1)' = new[m + 1].op
          /\ more[k] = submitted /\ more[k + 1] = submitted
      BY <1>3, <1>7, <1>9, <2>2, <3>1
    <3>3. WithinFrame(new[m].op, new[m + 1].op)
      BY DEF IsSubmission
    <3> QED BY <1>5, <3>2, <3>3 DEF Follows, WithinFrame, Upload
  <2>3. CASE k = n + 6
    <3>1. 6 \in 1..6 /\ k + 1 = n + 7
      BY <2>3
    <3>2. /\ Name(k)' = "record" /\ Name(k + 1)' = FirstOperation(submitted + 1)
          /\ more[k] = submitted /\ more[k + 1] = submitted + 1
      BY <1>3, <1>7, <1>9, <2>3, <3>1 DEF IsSubmission
    <3> QED BY <1>5, <3>2 DEF Follows, FirstOperation, Upload
  <2>4. more[k] <= submitted
    <3>1. k \in 1..n => more[k] <= submitted
      <4>1. k \in 1..n => k \in 1..(n + 1)
        OBVIOUS
      <4> QED BY <1>1, <1>2, <1>3, <4>1 DEF Replays, Linked
    <3> QED BY <1>3, <1>8, <1>9, <3>1, <1>0
  <2>5. \A m \in 1..6 : m \in 1..5 \/ m = 6
    OBVIOUS
  <2> QED BY <1>8, <2>1, <2>2, <2>3, <2>4, <2>5
<1>11. Linked(more)'
  <2>1. Len(stream') + 1 = n + 7
    BY <1>4
  <2>2. \A k \in 1..(n + 6) : more[k] <= submitted' /\ more[k] < submitted'
    <3> SUFFICES ASSUME NEW k \in 1..(n + 6)
                 PROVE  more[k] <= submitted' /\ more[k] < submitted'
      OBVIOUS
    <3>1. more[k] \in Nat /\ more[k] <= submitted
      <4>1. k \in 1..(n + 7)
        OBVIOUS
      <4> QED BY <1>3, <1>10, <4>1
    <3>2. submitted \in Nat
      BY <1>0
    <3>3. submitted' = submitted + 1
      BY <1>4
    <3> QED BY <3>1, <3>2, <3>3
  <2> QED BY <1>3, <1>4, <1>10, <2>1, <2>2 DEF Linked
<1>12. Addressed(more)'
  <2> SUFFICES ASSUME NEW k \in 1..(n + 6), Name(k)' \in Copies
               PROVE  more[k] \in frames..submitted /\ stream'[k].slot = SlotOf(more[k])
    <3>1. submitted' - 1 = submitted
      BY <1>0
    <3> QED BY <1>4, <3>1 DEF Addressed, SlotOf
  <2>1. CASE k \in 1..n
    <3>1. k \in 1..(n + 1)
      BY <2>1
    <3>2. more[k] \in frames..(submitted - 1) /\ stream'[k].slot = SlotOf(more[k])
      BY <1>1, <1>2, <1>3, <1>4, <1>7, <2>1, <3>1 DEF Replays, Addressed
    <3>3. \A i \in frames..(submitted - 1) : i \in frames..submitted
      BY <1>0
    <3> QED BY <3>2, <3>3
  <2>2. ASSUME NEW m \in 1..6, k = n + m
        PROVE  more[k] \in frames..submitted /\ stream'[k].slot = SlotOf(more[k])
    <3>1. more[k] = submitted /\ Name(k)' = new[m].op /\ stream'[k] = new[m]
      BY <1>3, <1>4, <1>7, <1>9, <2>2
    <3>2. new[m].slot = s
      BY <3>1 DEF IsSubmission, IsFrame
    <3>3. submitted \in frames..submitted
      BY <1>0 DEF SlotDiscipline, Accounting
    <3> QED BY <3>1, <3>2, <3>3
  <2> QED BY <1>8, <2>1, <2>2
<1>13. Ready(Name(1), more[1])'
  <2>1. 1 \in 1..(n + 1)
    OBVIOUS
  <2>2. Name(1)' = Name(1) /\ more[1] = own[1] /\ Ready(Name(1), own[1])
    BY <1>2, <1>3, <1>7, <2>1 DEF Replays
  <2> QED BY <1>5, <2>2 DEF Ready, Before, Chain, Step, SlotOf
<1>14. HostReady'
  <2>1. /\ s \in SlotIds /\ submitted - frames < Slots
        /\ submitted \in Nat /\ frames \in Nat /\ Slots \in Nat
    <3>1. ~Full
      BY DEF Control
    <3> QED BY <3>1, NextSlotIsFree, LengthTypes DEF SlotDiscipline
  <2>2. host_frame'[s] = submitted /\ host_q'[s] = Step(submitted)[2] /\ ~completed'[s]
    BY <2>1 DEF Replay, HostReady, LoopState, GraphType
  <2>3. ASSUME NEW i \in frames..(submitted - 1)
        PROVE  /\ host_frame'[SlotOf(i)] = i
               /\ host_q'[SlotOf(i)] = Step(i)[2]
               /\ completed'[SlotOf(i)] => host_result[SlotOf(i)] = Chain(i)
    <3>1. i \in Nat /\ i < submitted /\ submitted < i + Slots
      <4>1. i \in Int /\ frames <= i /\ i <= submitted - 1
        BY <2>1
      <4> QED BY <2>1, <4>1
    <3>2. SlotOf(i) # s /\ SlotOf(i) \in SlotIds
      BY <3>1, LengthTypes, SlotOfDistinct, SlotOfIsSlot
    <3> QED BY <2>1, <3>2 DEF Replay, HostReady, LoopState, GraphType
  <2>4. \A i \in frames..(submitted' - 1) : i = submitted \/ i \in frames..(submitted - 1)
    BY <2>1
  <2>5. ASSUME NEW i \in frames..(submitted' - 1)
        PROVE  /\ host_frame'[SlotOf(i)] = i
               /\ host_q'[SlotOf(i)] = Step(i)[2]
               /\ completed'[SlotOf(i)] => host_result[SlotOf(i)] = Chain(i)
    BY <2>2, <2>3, <2>4
  <2> QED BY <1>5, <2>5 DEF HostReady, Chain, Step, SlotOf
<1>15. more \in Owners'
  <2>1. Len(stream') + 1 = n + 7
    BY <1>4
  <2> QED BY <2>1 DEF Owners
<1> QED BY <1>11, <1>12, <1>13, <1>14, <1>15 DEF Replay, Replays

-----------------------------------------------------------------------------
(***************************************************************************)
(* The rest of what the session's promise needs: how far the loop may get, *)
(* what it knows of the frames it has submitted, and why it threw.         *)
(***************************************************************************)
Progress ==
  /\ options.frames # 0 => submitted <= options.frames
  /\ pc \in {"consume", "reset", "submit"} => ~LimitReached(submitted)
  /\ pc = "reset" => FrameInGop(Config, submitted) = 0
  /\ pc \in {"drain", "return"} =>
       LimitReached(submitted) \/ (tail = "eof" /\ submitted = Len(input))
  /\ pc = "return" => frames = submitted

InputSound ==
  /\ \A k \in 1..submitted :
       ValidQ(Config, input[k].q) /\ (~Encoding => input[k].codable)
  /\ Encoding => \A k \in 1..Len(input) : input[k].q = options.q_index

\* Why as many frames as there are slots can be lost.
WholeLoss ==
  \/ options.sink_fails
  \/ Encoding /\ \E k \in 1..Len(input) : ~input[k].codable
  \/ ~Encoding /\ tail # "open" /\ submitted = Len(input)

FailureExplained == pc \in {"throw", "failed"} => Excuse /\ (~Full \/ WholeLoss)

Active == pc \in {"loop", "consume", "reset", "submit", "drain"}

SessionInv == Progress /\ InputSound /\ FailureExplained /\ (Active => Replay)

(***************************************************************************)
(* What the peer does changes none of it.                                  *)
(***************************************************************************)
LEMMA InputStaysSound ==
  ASSUME SourceType, InputSound, Source \/ UNCHANGED sourceVars,
         submitted \in Nat, submitted <= Len(input), submitted' = submitted
  PROVE  InputSound'
<1>1. CASE Produce
  <2>1. PICK f \in Frame : /\ Encoding => f.q = options.q_index
                           /\ input' = Append(input, f)
    BY <1>1 DEF Produce
  <2>2. /\ options' = options /\ Encoding' = Encoding
        /\ Len(input) \in Nat
        /\ Len(input') = Len(input) + 1
        /\ \A k \in 1..Len(input) : input'[k] = input[k]
        /\ input'[Len(input) + 1] = f
    BY <1>1, <2>1 DEF Produce, SourceType, Encoding
  <2>3. \A k \in 1..(Len(input) + 1) : k \in 1..Len(input) \/ k = Len(input) + 1
    BY <2>2
  <2>4. \A k \in 1..submitted : k \in 1..Len(input)
    BY <2>2
  <2>5. Encoding => \A k \in 1..(Len(input) + 1) : input'[k].q = options.q_index
    BY <2>1, <2>2, <2>3 DEF InputSound
  <2>6. \A k \in 1..submitted :
          ValidQ(Config, input'[k].q) /\ (~Encoding => input'[k].codable)
    BY <2>2, <2>4 DEF InputSound
  <2> QED BY <2>2, <2>5, <2>6 DEF InputSound
<1>2. CASE Close \/ UNCHANGED sourceVars
  <2>1. options' = options /\ input' = input
    BY <1>2 DEF Close, sourceVars
  <2> QED BY <2>1 DEF InputSound, Encoding
<1> QED BY <1>1, <1>2 DEF Source

LEMMA FailureStaysExplained ==
  ASSUME SourceType, Source \/ UNCHANGED sourceVars, UNCHANGED <<submitted, frames>>,
         submitted <= Len(input)
  PROVE  /\ Excuse => Excuse'
         /\ ~Full \/ WholeLoss => (~Full \/ WholeLoss)'
<1>1. /\ options' = options /\ Encoding' = Encoding
      /\ \A k \in 1..Len(input) : input'[k] = input[k]
  BY ResultsStay
<1>2. /\ \A k \in 1..Len(input) : k \in 1..Len(input')
      /\ tail # "open" => input' = input /\ tail' = tail
  <2>1. CASE Produce
    <3>1. PICK f \in Frame : input' = Append(input, f)
      BY <2>1 DEF Produce
    <3>2. tail = "open" /\ Len(input') = Len(input) + 1 /\ Len(input) \in Nat
      BY <2>1, <3>1 DEF Produce, SourceType
    <3>3. \A k \in 1..Len(input) : k \in 1..Len(input')
      BY <3>2
    <3> QED BY <3>2, <3>3
  <2>2. CASE Close \/ UNCHANGED sourceVars
    BY <2>2 DEF Close, sourceVars
  <2> QED BY <2>1, <2>2 DEF Source
<1>3. Excuse => Excuse'
  <2>1. CASE tail = "truncated" \/ options.sink_fails
    BY <1>1, <1>2, <2>1 DEF Excuse
  <2>2. ASSUME NEW k \in 1..Len(input), FrameFaulty(input[k])
        PROVE  Excuse'
    <3>1. k \in 1..Len(input') /\ FrameFaulty(input[k])'
      BY <1>1, <1>2, <2>2 DEF FrameFaulty
    <3> QED BY <3>1 DEF Excuse
  <2> QED BY <2>1, <2>2 DEF Excuse
<1>4. WholeLoss => WholeLoss'
  BY <1>1, <1>2 DEF WholeLoss
<1> QED BY <1>3, <1>4 DEF Full

(***************************************************************************)
(* Steps of the thread that leave the queue and the counters alone and end *)
(* in an active place of the program.                                      *)
(***************************************************************************)
LEMMA MoveKeepsSession ==
  ASSUME NEW Y, NEW O, BufferedInv(Y, O), SessionInv, Active,
         UNCHANGED <<sourceVars, stream, device, host_q, host_result, completed,
                     submitted, frames>>,
         \A i \in frames..(submitted - 1) :
           host_frame'[SlotOf(i)] = host_frame[SlotOf(i)],
         pc # "submit",
         \/ pc' = pc
         \/ pc' = "consume" /\ ~LimitReached(submitted)
         \/ /\ pc' = IF FrameInGop(Config, submitted) = 0 THEN "reset" ELSE "submit"
            /\ ~LimitReached(submitted)
            /\ Encoding => host_frame'[SlotOf(submitted)] = submitted
         \/ /\ pc' = "drain"
            /\ LimitReached(submitted) \/ (tail = "eof" /\ submitted = Len(input)),
         pc' = pc => host_frame' = host_frame
  PROVE  SessionInv'
<1> USE DEF SessionInv
<1>1. submitted \in Nat /\ submitted <= Len(input) /\ SourceType
  BY LengthTypes DEF BufferedInv, LoopState, SlotDiscipline, Accounting
<1>2. InputSound'
  BY <1>1, InputStaysSound
<1>3. UNCHANGED <<options, input, tail>> /\ Encoding' = Encoding
  BY DEF sourceVars, Encoding
<1>4. Progress'
  BY <1>3 DEF Progress, LimitReached
<1>5. FailureExplained'
  BY DEF FailureExplained, Active
<1>6. Upcoming' = Upcoming
  BY <1>3 DEF Upcoming, FirstOperation, Upload
<1>7. Encoding /\ pc' \in {"reset", "submit"} => host_frame'[SlotOf(submitted)] = submitted
  BY DEF Replay, HostReady
<1>8. Replay'
  BY <1>6, <1>7, QueueStays
<1> QED BY <1>2, <1>4, <1>5, <1>8

LEMMA ThrowKeepsSession ==
  ASSUME NEW Y, NEW O, BufferedInv(Y, O), SessionInv, pc' = "throw",
         UNCHANGED <<sourceVars, submitted, frames>>,
         Excuse, ~Full \/ WholeLoss
  PROVE  SessionInv'
<1> USE DEF SessionInv
<1>1. submitted \in Nat /\ submitted <= Len(input) /\ SourceType
  BY LengthTypes DEF BufferedInv, LoopState, SlotDiscipline, Accounting
<1>2. InputSound'
  BY <1>1, InputStaysSound
<1>3. Progress'
  BY DEF Progress, sourceVars
<1>4. FailureExplained'
  BY <1>1, FailureStaysExplained DEF FailureExplained
<1>5. ~Active'
  BY DEF Active
<1> QED BY <1>2, <1>3, <1>4, <1>5

LEMMA LeaveKeepsSession ==
  ASSUME NEW Y, NEW O, BufferedInv(Y, O), SessionInv, Leave
  PROVE  SessionInv'
<1> USE DEF SessionInv
<1>1. submitted \in Nat /\ submitted <= Len(input) /\ SourceType
  BY LengthTypes DEF BufferedInv, LoopState, SlotDiscipline, Accounting
<1>2. /\ pc \in {"return", "throw"} /\ UNCHANGED <<sourceVars, submitted, frames>>
      /\ pc' = IF pc = "return" THEN "done" ELSE "failed"
  BY DEF Leave
<1>3. InputSound'
  BY <1>1, <1>2, InputStaysSound
<1>4. Progress'
  BY <1>2 DEF Progress, sourceVars
<1>5. FailureExplained'
  BY <1>1, <1>2, FailureStaysExplained DEF FailureExplained
<1>6. ~Active'
  BY <1>2 DEF Active
<1> QED BY <1>3, <1>4, <1>5, <1>6

LEMMA FinalizeKeepsSession ==
  ASSUME NEW Y, NEW O, BufferedInv(Y, O), SessionInv, Finalize
  PROVE  SessionInv'
<1>1. /\ pc = "drain" /\ frames >= submitted
      /\ UNCHANGED <<sourceVars, submitted, frames>>
  BY DEF Finalize
<1>2. CASE pc' = "throw"
  <2>1. options.sink_fails
    BY <1>2 DEF Finalize
  <2> QED BY <1>1, <1>2, <2>1, ThrowKeepsSession DEF Excuse, WholeLoss
<1>3. CASE pc' = "return"
  <2>1. /\ submitted \in Nat /\ frames \in Nat /\ frames <= submitted
        /\ submitted <= Len(input) /\ SourceType
    BY LengthTypes DEF BufferedInv, LoopState, SlotDiscipline, Accounting
  <2>2. InputSound'
    BY <1>1, <2>1, InputStaysSound DEF SessionInv
  <2>3. frames = submitted
    BY <1>1, <2>1
  <2>4. Progress'
    BY <1>1, <1>3, <2>3 DEF SessionInv, Progress, LimitReached, sourceVars
  <2>5. FailureExplained' /\ ~Active'
    BY <1>3 DEF FailureExplained, Active
  <2> QED BY <2>2, <2>4, <2>5 DEF SessionInv
<1> QED BY <1>2, <1>3 DEF Finalize

LEMMA FeedInputKeepsSession ==
  ASSUME NEW Y, NEW O, BufferedInv(Y, O), SessionInv, FeedInput
  PROVE  SessionInv'
<1> USE DEF SessionInv
<1>1. submitted \in Nat /\ submitted <= Len(input) /\ SourceType
  BY LengthTypes DEF BufferedInv, LoopState, SlotDiscipline, Accounting
<1>2. /\ Source
      /\ UNCHANGED <<pc, submitted, frames, stream, device, host_frame, host_q,
                     host_result, completed>>
  BY DEF FeedInput, graphVars, slotVars, loopVars
<1>3. InputSound'
  BY <1>1, <1>2, InputStaysSound
<1>4. options' = options /\ (tail = "eof" => tail' = tail /\ input' = input)
  BY <1>2 DEF Source, Produce, Close
<1>5. Progress'
  BY <1>2, <1>4 DEF Progress, LimitReached
<1>6. FailureExplained'
  BY <1>1, <1>2, FailureStaysExplained DEF FailureExplained
<1>7. Active => Replay'
  <2> SUFFICES ASSUME Active
               PROVE  Replay'
    OBVIOUS
  <2>1. Upcoming' = Upcoming /\ Encoding' = Encoding
    BY <1>2, <1>4 DEF Upcoming, FirstOperation, Upload, Encoding
  <2>2. Encoding /\ pc' \in {"reset", "submit"} => host_frame'[SlotOf(submitted)] = submitted
    BY <1>2 DEF Replay, HostReady
  <2> QED BY <1>2, <2>1, <2>2, QueueStays
<1>8. Active' => Active
  BY <1>2 DEF Active
<1> QED BY <1>3, <1>5, <1>6, <1>7, <1>8

LEMMA StutterKeepsSession ==
  ASSUME NEW Y, NEW O, BufferedInv(Y, O), SessionInv, UNCHANGED vars
  PROVE  SessionInv'
<1> USE DEF SessionInv
<1>1. submitted \in Nat /\ submitted <= Len(input) /\ SourceType
  BY LengthTypes DEF BufferedInv, LoopState, SlotDiscipline, Accounting
<1>2. UNCHANGED <<sourceVars, options, input, tail, pc, submitted, frames, stream, device,
                  host_frame, host_q, host_result, completed>>
  BY DEF vars, sourceVars, loopVars, graphVars, slotVars
<1>3. InputSound'
  BY <1>1, <1>2, InputStaysSound
<1>4. Progress'
  BY <1>2 DEF Progress, LimitReached
<1>5. FailureExplained'
  BY <1>1, <1>2, FailureStaysExplained DEF FailureExplained
<1>6. Active => Replay'
  <2> SUFFICES ASSUME Active
               PROVE  Replay'
    OBVIOUS
  <2>1. Upcoming' = Upcoming
    BY <1>2 DEF Upcoming, FirstOperation, Upload, Encoding
  <2>2. Encoding /\ pc' \in {"reset", "submit"} => host_frame'[SlotOf(submitted)] = submitted
    BY <1>2 DEF Replay, HostReady
  <2> QED BY <1>2, <2>1, <2>2, QueueStays
<1>7. Active' => Active
  BY <1>2 DEF Active
<1> QED BY <1>3, <1>4, <1>5, <1>6, <1>7

LEMMA DeviceKeepsSession ==
  ASSUME NEW Y, NEW O, BufferedInv(Y, O), SessionInv, DeviceStep,
         UNCHANGED <<sourceVars, loopVars>>
  PROVE  SessionInv'
<1> USE DEF SessionInv
<1>1. submitted \in Nat /\ submitted <= Len(input) /\ SourceType
  BY LengthTypes DEF BufferedInv, LoopState, SlotDiscipline, Accounting
<1>2. UNCHANGED <<options, input, tail, pc, submitted, frames>>
  BY DEF sourceVars, loopVars
<1>3. InputSound'
  BY <1>1, <1>2, InputStaysSound
<1>4. Progress'
  BY <1>2 DEF Progress, LimitReached
<1>5. FailureExplained'
  BY <1>1, <1>2, FailureStaysExplained DEF FailureExplained
<1>6. Active' => Active
  BY <1>2 DEF Active
<1>7. Active => Replay'
  BY DeviceReplays
<1> QED BY <1>3, <1>4, <1>5, <1>6, <1>7

LEMMA ResetKeepsSession ==
  ASSUME NEW Y, NEW O, BufferedInv(Y, O), SessionInv,
         pc = "reset", pc' = "submit", ResetState,
         UNCHANGED <<sourceVars, submitted, frames, output, flushed>>
  PROVE  SessionInv'
<1> USE DEF SessionInv
<1>1. submitted \in Nat /\ submitted <= Len(input) /\ SourceType
  BY LengthTypes DEF BufferedInv, LoopState, SlotDiscipline, Accounting
<1>2. InputSound'
  BY <1>1, InputStaysSound
<1>3. Progress'
  BY DEF Progress, LimitReached, sourceVars
<1>4. FailureExplained'
  BY DEF FailureExplained
<1>5. Replay'
  BY ResetReplays DEF Progress, Active
<1> QED BY <1>2, <1>3, <1>4, <1>5

(***************************************************************************)
(* pipeline.cpp:367-394 and 442-451: what is taken out of the oldest slot  *)
(* is the result for the oldest frame in flight.                           *)
(***************************************************************************)
LEMMA DeliverKeepsSession ==
  ASSUME NEW Y, NEW O, BufferedInv(Y, O), SessionInv,
         Deliver(pc), pc \in {"loop", "consume", "drain"}, frames < submitted
  PROVE  SessionInv'
<1> USE DEF SessionInv
<1>1. submitted \in Nat /\ submitted <= Len(input) /\ SourceType
  BY LengthTypes DEF BufferedInv, LoopState, SlotDiscipline, Accounting
<1>2. /\ SlotReady(SlotOf(frames)) /\ frames' = frames + 1 /\ pc' = pc
      /\ UNCHANGED <<sourceVars, stream, device, host_frame, host_q, host_result,
                     completed, submitted>>
  BY DEF Deliver, WaitCodecSlot
<1>3. UNCHANGED <<options, input, tail>>
  BY <1>2 DEF sourceVars
<1>4. InputSound'
  BY <1>1, <1>2, InputStaysSound
<1>5. Progress' /\ FailureExplained'
  BY <1>2, <1>3 DEF Progress, LimitReached, FailureExplained
<1>6. Upcoming' = Upcoming
  BY <1>2, <1>3 DEF Upcoming, FirstOperation, Upload, Encoding
<1>7. Replay'
  BY <1>2, <1>6, QueueStays DEF Active
<1> QED BY <1>4, <1>5, <1>7

LEMMA ConsumeThrowsKeepsSession ==
  ASSUME NEW Y, NEW O, BufferedInv(Y, O), SessionInv, ConsumeThrows, frames < submitted
  PROVE  SessionInv'
<1>1. frames + 1 \in 1..Len(input)
  BY LengthTypes DEF BufferedInv, SlotDiscipline, Accounting
<1>2. EntropyRefuses => Excuse /\ WholeLoss
  BY <1>1 DEF EntropyRefuses, Excuse, FrameFaulty, WholeLoss
<1>3. options.sink_fails => Excuse /\ WholeLoss
  BY DEF Excuse, WholeLoss
<1>4. UNCHANGED <<sourceVars, submitted, frames>> /\ pc' = "throw"
  BY DEF ConsumeThrows
<1> QED BY <1>2, <1>3, <1>4, ThrowKeepsSession DEF ConsumeThrows

LEMMA DrainOneKeepsSession ==
  ASSUME NEW Y, NEW O, BufferedInv(Y, O), SessionInv, DrainOne
  PROVE  SessionInv'
BY DeliverKeepsSession, ConsumeThrowsKeepsSession DEF DrainOne

(***************************************************************************)
(* pipeline.cpp:404-411 and 463-476: the frame's inputs are in its slot,   *)
(* its operations behind those of all frames before it.                    *)
(***************************************************************************)
LEMMA SubmitKeepsSession ==
  ASSUME NEW Y, NEW O, BufferedInv(Y, O), SessionInv, pc = "submit", pc' = "loop",
         \/ /\ Encoding /\ SubmitEncoder(SlotOf(submitted), Step(submitted)[2])
         \/ /\ ~Encoding /\ SubmitDecoder(SlotOf(submitted), Step(submitted)[2])
            /\ host_frame' = [host_frame EXCEPT ![SlotOf(submitted)] = submitted],
         ValidQ(Config, input[submitted + 1].q),
         ~Encoding => input[submitted + 1].codable,
         submitted' = submitted + 1,
         UNCHANGED <<sourceVars, frames>>
  PROVE  SessionInv'
<1> USE DEF SessionInv
<1> DEFINE s == SlotOf(submitted)
<1>1. submitted \in Nat /\ SlotOf(submitted) \in SlotIds
  BY LengthTypes, SlotOfIsSlot DEF BufferedInv
<1>2. PICK before, after :
         /\ EnqueueModel(before, after)
         /\ IsFrame(before \o <<Kernel("model")>> \o after, s)
         /\ IsSubmission(before \o <<Kernel("model")>> \o after)
  BY <1>1, EncoderFrame, EncoderSubmission, DecoderFrame, DecoderSubmission
     DEF SubmitEncoder, SubmitDecoder
<1>3. stream' = stream \o (before \o <<Kernel("model")>> \o after)
  BY <1>2, EnqueuedFrame DEF BufferedInv, LoopState, GraphType
<1>4. /\ host_q' = [host_q EXCEPT ![s] = Step(submitted)[2]]
      /\ completed' = [completed EXCEPT ![s] = FALSE]
      /\ UNCHANGED <<device, host_result>>
      /\ \/ host_frame' = [host_frame EXCEPT ![s] = submitted]
         \/ Encoding /\ host_frame' = host_frame
  BY DEF SubmitEncoder, SubmitDecoder, Occupy
<1>5. Replay'
  <2>1. PICK new : new = before \o <<Kernel("model")>> \o after
    OBVIOUS
  <2> QED BY <1>2, <1>3, <1>4, <2>1, SubmissionReplays DEF Active
<1>6. Progress'
  <2>1. options.frames \in Nat
    BY SourceAssumption DEF BufferedInv, LoopState, SourceType, Options
  <2> QED BY <1>1, <2>1 DEF Progress, LimitReached, sourceVars
<1>7. InputSound'
  <2>1. \A k \in 1..(submitted + 1) : k = submitted + 1 \/ k \in 1..submitted
    BY <1>1
  <2> QED BY <2>1 DEF InputSound, sourceVars, Encoding
<1>8. FailureExplained'
  BY DEF FailureExplained
<1> QED BY <1>5, <1>6, <1>7, <1>8

-----------------------------------------------------------------------------
(***************************************************************************)
(* The beginning of a call.                                                *)
(***************************************************************************)
LEMMA InitialSession ==
  ASSUME NEW Y, SourceInit, GraphInit(Y), LoopInit
  PROVE  SessionInv
<1>1. /\ Len(stream) = 0 /\ submitted = 0 /\ frames = 0 /\ pc = "loop"
      /\ Len(input) = 0
  BY DEF SourceInit, GraphInit, LoopInit
<1>2. FrameInGop(Config, 0) = 0
  BY ConfigAssumption, GopCounts
<1>3. options.frames \in Nat
  BY SourceAssumption DEF SourceInit, Options
<1>4. Progress /\ InputSound /\ FailureExplained
  BY <1>1, <1>3 DEF Progress, InputSound, FailureExplained
<1>5. HostReady
  <2>1. 0..(0 - 1) = {}
    OBVIOUS
  <2> QED BY <1>1, <2>1 DEF HostReady
<1>6. Replays([k \in 1..1 |-> 0])
  <2>1. Name(1) = "zero_feature"
    BY <1>1, <1>2 DEF Name, Upcoming, FirstOperation
  <2>2. Ready(Name(1), [k \in 1..1 |-> 0][1])
    BY <1>2, <2>1 DEF Ready
  <2>3. Linked([k \in 1..1 |-> 0]) /\ Addressed([k \in 1..1 |-> 0])
    BY <1>1 DEF Linked, Addressed
  <2> QED BY <2>2, <2>3 DEF Replays
<1>7. [k \in 1..1 |-> 0] \in Owners
  BY <1>1 DEF Owners
<1> QED BY <1>4, <1>5, <1>6, <1>7 DEF SessionInv, Replay

-----------------------------------------------------------------------------
(***************************************************************************)
(* The steps of the session the caller sees.                               *)
(***************************************************************************)
LEMMA SessionBegins ==
  ASSUME SourceInit, LoopInit
  PROVE  Session!Init
BY DEF SourceInit, LoopInit, Session!Init, Session!SourceInit, SessionStatus, Ended,
       Options, Session!Options, QOptions, Session!QOptions, ValidQ, Session!ValidQ

LEMMA SessionRests ==
  ASSUME UNCHANGED <<sourceVars, output>>, ~Ended, ~Ended'
  PROVE  UNCHANGED Session!sessionVars
BY DEF sourceVars, Session!sessionVars, SessionStatus

LEMMA SessionStutters ==
  ASSUME UNCHANGED vars
  PROVE  UNCHANGED Session!sessionVars
BY DEF vars, sourceVars, loopVars, Session!sessionVars, SessionStatus, Ended

LEMMA SessionIsFed ==
  ASSUME FeedInput
  PROVE  Session!Next
<1>1. UNCHANGED <<output, SessionStatus>>
  BY DEF FeedInput, loopVars, SessionStatus, Ended
<1>2. Session!Source
  BY DEF FeedInput, Source, Session!Source, Produce, Session!Produce, Close,
         Session!Close, Frame, Session!Frame, Encoding, Session!Encoding
<1> QED BY <1>1, <1>2 DEF Session!Next

LEMMA SessionEmits ==
  ASSUME NEW Y, NEW O, BufferedInv(Y, O), SessionInv,
         Deliver(pc), pc \in {"loop", "consume", "drain"}, frames < submitted
  PROVE  Session!Next
<1> DEFINE s == SlotOf(frames)
<1>1. /\ frames \in Nat /\ submitted \in Nat /\ submitted <= Len(input)
      /\ frames = Len(output) /\ s \in SlotIds
      /\ frames \in frames..(submitted - 1) /\ frames + 1 \in 1..submitted
      /\ frames + 1 \in 1..Len(input)
  BY LengthTypes, SlotOfIsSlot DEF BufferedInv, SlotDiscipline, Accounting
<1>2. pending[s] /\ completed[s]
  <2>1. pending[s]
    BY <1>1 DEF BufferedInv, SlotDiscipline, InFlightArePending, InFlight
  <2> QED BY <2>1 DEF Deliver, WaitCodecSlot, SlotReady
<1>3. host_result[s] = Chain(frames)
  BY <1>1, <1>2 DEF SessionInv, Active, Replay, HostReady
<1>4. Delivered(s) = Session!Result(Len(output))
  <2>1. Delivered(s) = Result(Len(output))
    BY <1>1, <1>3 DEF Delivered, Result
  <2>2. Result(Len(output)) = Session!Result(Len(output))
    BY DEF Result, Session!Result, Chain, Session!Chain, Step, Session!Step, Encoding,
           Session!Encoding, ShiftedQ, Session!ShiftedQ, QIndexShift,
           Session!QIndexShift, FrameInGop, Session!FrameInGop, MapSlot,
           Session!MapSlot
  <2> QED BY <2>1, <2>2
<1>5. ~Session!LimitReached(Len(output))
  <2>1. options.frames \in Nat
    BY SourceAssumption DEF BufferedInv, LoopState, SourceType, Options
  <2> QED BY <1>1, <2>1 DEF SessionInv, Progress, Session!LimitReached
<1>6. ~Session!FrameFaulty(input[Len(output) + 1])
  <2>1. ValidQ(Config, input[frames + 1].q) /\ (~Encoding => input[frames + 1].codable)
    BY <1>1 DEF SessionInv, InputSound
  <2>2. Encoding => input[frames + 1].codable
    BY DEF Deliver, EntropyRefuses
  <2> QED BY <1>1, <2>1, <2>2 DEF Session!FrameFaulty, Session!ValidQ, ValidQ
<1>7. /\ output' = Append(output, Delivered(s)) /\ pc' = pc
      /\ UNCHANGED sourceVars
  BY DEF Deliver
<1>8. SessionStatus = "running" /\ SessionStatus' = "running"
  BY <1>7 DEF SessionStatus, Ended
<1>9. Session!Emit
  <2>1. Len(output) < Len(input)
    BY <1>1
  <2> QED BY <1>4, <1>5, <1>6, <1>7, <1>8, <2>1
          DEF Session!Emit, Session!sourceVars, sourceVars
<1> QED BY <1>9 DEF Session!Next

LEMMA SessionEnds ==
  ASSUME NEW Y, NEW O, BufferedInv(Y, O), SessionInv, Leave
  PROVE  Session!Next
<1>1. /\ UNCHANGED <<sourceVars, output>>
      /\ pc \in {"return", "throw"}
      /\ pc' = IF pc = "return" THEN "done" ELSE "failed"
  BY DEF Leave
<1>2. SessionStatus = "running" /\ SessionStatus' = pc'
  BY <1>1 DEF SessionStatus, Ended
<1>3. frames = Len(output)
  BY DEF BufferedInv, SlotDiscipline, Accounting
<1>4. CASE pc = "return"
  <2>1. LimitReached(Len(output)) \/ (tail = "eof" /\ Len(output) = Len(input))
    BY <1>3, <1>4 DEF SessionInv, Progress
  <2>2. Session!Return
    BY <1>1, <1>2, <1>4, <2>1 DEF Session!Return, Session!LimitReached, LimitReached,
       Session!sourceVars, sourceVars
  <2> QED BY <2>2 DEF Session!Next
<1>5. CASE pc = "throw"
  <2>1. Excuse
    BY <1>5 DEF SessionInv, FailureExplained
  <2>2. Session!Excuse
    BY <2>1 DEF Excuse, Session!Excuse, FrameFaulty, Session!FrameFaulty, ValidQ,
       Session!ValidQ
  <2>3. Session!Fail
    BY <1>1, <1>2, <1>5, <2>2 DEF Session!Fail, Session!sourceVars, sourceVars
  <2> QED BY <2>3 DEF Session!Next
<1> QED BY <1>1, <1>4, <1>5
=============================================================================
