---------------------------- MODULE TensorRtState ----------------------------
(***************************************************************************)
(* The recurrent feature in the TensorRT backend: two device allocations,  *)
(* one the state input and one the state output of the engine, exchanged   *)
(* after every run.  The host only queues operations; each one captures    *)
(* the addresses it was queued with, and run() waits for the stream at its *)
(* end, after the exchange.                                                *)
(***************************************************************************)
EXTENDS BackendCall

CONSTANTS
  MaxQueue  \* bound: resets queued before the first of them is executed

ASSUME QueueAssumption == MaxQueue \in Nat

VARIABLES
  input,   \* device_ptr of the state input's Buffer
  output,  \* device_ptr of the state output's Buffer
  stream,  \* operations queued and not yet executed
  memory,  \* the two allocations
  image,   \* device buffers of the other input and the other output
  host     \* their pinned host buffers

bufferVars == <<input, output>>
deviceVars == <<memory, image>>
vars == <<pc, callVars, bufferVars, stream, deviceVars, host>>

Allocations == {"A", "B"}

Memset(a) == [op |-> "memset", at |-> a]
Upload == [op |-> "upload"]
Engine(i, o) == [op |-> "engine", from |-> i, to |-> o]
Download == [op |-> "download"]

Operations ==
  {Memset(a) : a \in Allocations} \cup {Upload, Download} \cup
  {Engine(i, o) : i \in Allocations, o \in Allocations}

TypeOK ==
  /\ pc \in {"idle", "fed", "enqueued", "downloading", "swapped", "failed"}
  /\ x \in Content
  /\ initialized \in BOOLEAN
  /\ input \in Allocations
  /\ output \in Allocations
  /\ stream \in Seq(Operations)
  /\ memory \in [Allocations -> History]
  /\ image \in [x : Content, out : History]
  /\ host \in [x : Content, out : History]
  /\ fed \in Seq(Inputs)
  /\ answer \in Seq(Inputs)

\* load() has returned; configure_state accepted the binding.
Init ==
  /\ pc = "idle"
  /\ x = Garbage
  /\ initialized = FALSE
  /\ input = "A"
  /\ output = "B"
  /\ stream = <<>>
  /\ memory = [a \in Allocations |-> <<Garbage>>]
  /\ image = [x |-> Garbage, out |-> <<Garbage>>]
  /\ host = [x |-> Garbage, out |-> <<Garbage>>]
  /\ fed = <<>>
  /\ answer = <<>>

-----------------------------------------------------------------------------
(***************************************************************************)
(* The calling thread.                                                     *)
(***************************************************************************)
\* Mutant: the memset addresses the allocation the feature was in at load.
ResetStateFirstBuffer ==
  /\ pc = "idle"
  /\ Len(stream) < MaxQueue
  /\ stream' = Append(stream, Memset("A"))
  /\ initialized' = TRUE
  /\ fed' = <<>>
  /\ UNCHANGED <<pc, x, answer, bufferVars, deviceVars, host>>

ResetState ==
  /\ pc = "idle"
  /\ Len(stream) < MaxQueue
  /\ stream' = Append(stream, Memset(input))
  /\ initialized' = TRUE
  /\ fed' = <<>>
  /\ UNCHANGED <<pc, x, answer, bufferVars, deviceVars, host>>

\* Mutant: run() does not ask for a reset first.
FeedUnset ==
  /\ pc = "idle"
  /\ Len(fed) < MaxFed
  /\ x' \in Inputs
  /\ host' = [host EXCEPT !.x = x']
  /\ stream' = Append(stream, Upload)
  /\ pc' = "fed"
  /\ UNCHANGED <<initialized, fed, answer, bufferVars, deviceVars>>

\* The inputs are copied into pinned memory and their upload is queued.
Feed ==
  /\ pc = "idle"
  /\ initialized
  /\ Len(fed) < MaxFed
  /\ x' \in Inputs
  /\ host' = [host EXCEPT !.x = x']
  /\ stream' = Append(stream, Upload)
  /\ pc' = "fed"
  /\ UNCHANGED <<initialized, fed, answer, bufferVars, deviceVars>>

\* Mutant: setTensorAddress is called once, with the addresses of the load.
EnqueueFirstBuffers ==
  /\ pc = "fed"
  /\ stream' = Append(stream, Engine("A", "B"))
  /\ pc' = "enqueued"
  /\ UNCHANGED <<callVars, bufferVars, deviceVars, host>>

\* setTensorAddress for every buffer, then enqueueV3.
Enqueue ==
  /\ pc = "fed"
  /\ stream' = Append(stream, Engine(input, output))
  /\ pc' = "enqueued"
  /\ UNCHANGED <<callVars, bufferVars, deviceVars, host>>

QueueDownload ==
  /\ pc = "enqueued"
  /\ stream' = Append(stream, Download)
  /\ pc' = "downloading"
  /\ UNCHANGED <<callVars, bufferVars, deviceVars, host>>

SwapState ==
  /\ pc = "downloading"
  /\ input' = output
  /\ output' = input
  /\ pc' = "swapped"
  /\ UNCHANGED <<callVars, stream, deviceVars, host>>

\* Mutant: run() returns without waiting for the stream.
ReturnAtOnce ==
  /\ pc = "swapped"
  /\ fed' = Append(fed, x)
  /\ answer' = host.out
  /\ pc' = "idle"
  /\ UNCHANGED <<x, initialized, bufferVars, stream, deviceVars, host>>

\* cudaStreamSynchronize returns, and the results are copied from the host.
Return ==
  /\ pc = "swapped"
  /\ stream = <<>>
  /\ fed' = Append(fed, x)
  /\ answer' = host.out
  /\ pc' = "idle"
  /\ UNCHANGED <<x, initialized, bufferVars, stream, deviceVars, host>>

\* run() before the first reset, inputs that do not match, or a CUDA error.
Throw ==
  /\ pc # "failed"
  /\ pc' = "failed"
  /\ UNCHANGED <<callVars, bufferVars, stream, deviceVars, host>>

Caller ==
  ResetState \/ Feed \/ Enqueue \/ QueueDownload \/ SwapState \/ Return \/ Throw

-----------------------------------------------------------------------------
(***************************************************************************)
(* The device executes the oldest queued operation.                        *)
(***************************************************************************)
NextOperation(name) ==
  /\ stream # <<>>
  /\ Head(stream).op = name
  /\ stream' = Tail(stream)
  /\ UNCHANGED <<pc, callVars, bufferVars>>

ExecuteMemset ==
  /\ NextOperation("memset")
  /\ memory' = [memory EXCEPT ![Head(stream).at] = <<>>]
  /\ UNCHANGED <<image, host>>

ExecuteUpload ==
  /\ NextOperation("upload")
  /\ image' = [image EXCEPT !.x = host.x]
  /\ UNCHANGED <<memory, host>>

ExecuteEngine ==
  /\ NextOperation("engine")
  /\ LET history == Append(memory[Head(stream).from], image.x)
     IN /\ memory' = [memory EXCEPT ![Head(stream).to] = history]
        /\ image' = [image EXCEPT !.out = history]
  /\ UNCHANGED host

ExecuteDownload ==
  /\ NextOperation("download")
  /\ host' = [host EXCEPT !.out = image.out]
  /\ UNCHANGED deviceVars

Device == ExecuteMemset \/ ExecuteUpload \/ ExecuteEngine \/ ExecuteDownload

Next == Caller \/ Device

Spec == Init /\ [][Next]_vars

-----------------------------------------------------------------------------
(***************************************************************************)
(* backend.cpp:242-243: memcpy writes a pinned input buffer only when no   *)
(* upload from it is still queued; between two runs nothing but the        *)
(* memsets of resets may be.                                               *)
(***************************************************************************)
HostBuffersFree ==
  pc = "idle" => \A k \in 1..Len(stream) : stream[k].op = "memset"

(***************************************************************************)
(* backend.cpp:207-211, 263-268: between two runs the state input holds    *)
(* the feature of all runs since the reset, or a queued memset of that     *)
(* very allocation is going to zero it.                                    *)
(***************************************************************************)
FeatureCarried ==
  pc = "idle" /\ initialized =>
    IF stream = <<>> THEN memory[input] = fed
    ELSE fed = <<>> /\ \E k \in 1..Len(stream) : stream[k] = Memset(input)
=============================================================================
