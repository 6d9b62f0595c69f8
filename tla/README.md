# A TLA+ model of mlvc.cpp

mlvc.cpp encodes and decodes video with a learned codec (MLVC): a neural
encoder and decoder with a recurrent *feature* that is carried from frame to
frame of a GOP, an rANS entropy coder, a small frame container and several
inference backends. This directory holds its formal model: modules that
translate the control of the C++ code, TLC configurations that check them on
small instances, and TLAPS proofs of what should hold for every instance. Paths
below are relative to the repository root.

## 1. The system and its parts

| Component | State it keeps | Operations | Module |
|---|---|---|---|
| Model metadata, GOP and QP schedule (`core/src/model.cpp`) | none after loading | `load_model_config`, `validate`, `frame_in_gop`, `q_index_shift`, geometry | `ModelConfig`, `GopSchedule`, geometry in `LatentStream` |
| Buffered frame loops (`codec/src/pipeline.cpp:352-487`) | frames submitted and delivered, slots in flight | `encode_buffered`, `decode_buffered` | `BufferedLoop`, `EncodeBuffered`, `DecodeBuffered` |
| Sequential frame loops (`pipeline.cpp:499-720`) | frame count, the reference feature | `encode_video`, `decode_video` | `SequentialLoop` |
| Set-up of a call (`pipeline.cpp:153-350`) | none | option checks, model location, execution config, opening files | `StateRouting` (execution config, choice of the loop), options in `CodecStreams` |
| driver_cubin executor (`backends/driver_cubin/src/cuda_graph_executor.cpp`, `driver.cpp`) | pinned host slots, one CUDA stream, device buffers, captured graph, recurrent feature | `configure_codec_io`, `encoder_input_yuv`, `submit_encoder`, `submit_decoder`, `wait_codec_slot`, `reset_state`, `run`, destructor | `AotGraph`; `run` and the recording of the planned schedule in `GraphPlan` |
| driver_cubin loader, validator, facade | manifest, values, kernels | constructor, `load_model`, `configure_state` | `AotModel` (placing of tensors), `MemoryPlanner` (order of the plans), `StateRouting` (`configure_state`) |
| driver_cubin memory planner, `tools/model_aot.py` | arena offsets, buffers moved out of the arena | `plan_arena`, `plan_*` | `AotModel`, `EpilogueSlots`, `MemoryPlanner` |
| driver_cubin fusion registry and execution plan | skipped nodes, CUTLASS parameters, a buffer for gates | pattern matching, `execute`, `execute_schedule` | `FusionRegistry`, `ExecutionPlan`, `GraphPlan` |
| CUDA kernels (`driver_cubin/kernels`) | shared-memory tiles, accumulators of a warp | tiled convolutions, element-wise kernels | `TilePipeline`; what the other kernels read and write in `FusionRegistry`, `ExecutionPlan` |
| TensorRT backend | engine cache on disk, swapped state pointers, one stream | `load`, `run`, `reset_state`, cache | `EngineCache`, `TensorRtState`, `StateRouting` |
| ONNX Runtime and LibTorch backends | handles of state tensors | `load`, `run`, `reset_state` | `HandleState`, `StateRouting` |
| Container (`core/src/bitstream.cpp`) | none | `read_encoded_frame`, `write_encoded_frame` | `LatentStream`; whole frames in `CodecStreams` |
| Entropy coder (`core/src/entropy.cpp`, `scales.cpp`) | tables, reused coder streams and buffers | constructor, `encode`, `decode_into`, `extract_scales` | `LatentStream`; accept or throw in `CodecStreams` |
| YUV I/O (`core/src/yuv.cpp`) | none | read, write, padding, colour conversion | accept or throw, in `CodecStreams` |
| Model assets, C API, CLI, packaging tools | none at run time | | not modelled |

**How they interact.** `encode_video` (the same holds for `decode_video`)
checks its options, loads the metadata, the entropy tables and one backend, and
opens both streams. It then runs one of two loops. If the backend offers host
slots (`BufferedCodecBackend`, only driver_cubin) and no debug captures are
wanted, the *buffered* loop: the thread fills the pinned buffer of slot
`n % 2`, submits frame `n`, and goes on to read frame `n + 1` while the device
works; a frame is waited for, entropy coded and written only when its slot is
needed again or at the end. Otherwise the *sequential* loop: read, run, code,
write, flush, next. The recurrent feature lives in the backend (state bindings)
or, with `--debug-dir`, in the loop itself. At the first frame of every GOP the
feature is zeroed; the QP phase is shifted by the GOP position.

Inside driver_cubin a model is a list of nodes over named tensors. The bundle's
manifest gives each tensor a place in one arena, by lifetime; the constructor
then moves some of them elsewhere (views of inputs, shared epilogue buffers, the
parts of a concatenation, the recurrent state), and the schedule replaces chains
of nodes by fused kernels that write where the chain's results live. What keeps
a value until its last reader is the agreement of all of these.

**What is hard here.**

- Three parties run at once: the calling thread, the device and the peers of
  the input and output streams. The thread and the device share pinned memory;
  what keeps them apart is the pending flag and the completion event of a slot.
- All slots share *one* set of device buffers and one recurrent feature, so two
  frames are kept apart by nothing but the order of the CUDA stream, and the
  reset at a GOP start must take its place in that order.
- The first submission may run the schedule directly, later ones replay a
  captured graph: the two must enqueue the same work with the right slot.
- A failure (truncated input, bad payload, full disk) unwinds with frames in
  flight, whose copies still read and write pinned memory about to be freed.
- With pipes, progress depends on when a finished frame is taken and flushed.
- Every backend keeps the feature in its own way: in place, by exchanging two
  allocations of an asynchronous stream, or by moving handles. The graph's
  tensors are found by position on some paths and by name on others.
- The TensorRT engine cache is a file that processes share without a lock; any
  of them may be killed while it publishes an engine.
- The schedule tables come from a file: consistency at load has to be enough
  for every later frame.
- Tensors share memory for three independent reasons (arena, epilogue slots,
  concatenations), and a fused kernel writes results *earlier* than the nodes it
  stands for. The matchers compare addresses; nothing checks the outcome.
- CUTLASS parameters and the captured graph keep addresses from the time they
  were made; later runs replay them.
- In a convolution kernel warps share tiles that are loaded ahead, by copies
  that land at any time; warps without channels return before the barriers.
- The tables of the y latents are not in the container: the decoder derives
  them from z before it can read the first y symbol.

**What makes each part correct.**

- *Schedule*: metadata accepted by `validate()` never lead to a table index or a
  q-index out of range.
- *Planner and schedule*: every output of a run is what the graph defines, on
  every device, launched or replayed; a tensor that still has a reader keeps its
  value; nothing is written past the end of a buffer.
- *Kernels*: a stored sum contains each slice of its reduction once, and every
  block ends.
- *Entropy coder and container*: what was coded comes out, complete frames even
  of a cut container; a cut inside a frame is reported; the tables are those of
  the reference, so that another decoder agrees.
- *Executor*: a slot is owned by the host or by the queued copies, never by
  both; nothing queued outlives the memory it touches.
- *Backends*: a run sees the feature of all runs since the last reset; each
  tensor arrives under its own name; an engine in use was built from the ONNX
  file of the bundle.
- *Loops*: frame *i* of the output is the model's result for frame *i* of the
  input, with the features of its own GOP and its own QP phase; success only
  when all frames asked for are out; failure only for an external reason;
  a bounded number of frames lost or held back; every call ends when its input
  ends.

`PROJECT.json` lists the hazards, line by line, with the property that watches
each, and says why where there is none.

## 2. Modules

```
ModelConfig ── GopSchedule ── LatentStream ── MCLatentStream
     │
CodecStreams ── CodecSession (what a call promises)
     │   └───── SequentialLoop ─────────── MCSequentialLoop
     │
     ├─ AotGraph (executor)
     └──┴── BufferedLoop ─┬─ EncodeBuffered ─ MCEncodeBuffered (two .cfg)
                          └─ DecodeBuffered ─ MCDecodeBuffered

AotModel ─┐
EpilogueSlots ─ MemoryPlanner ─ FusionRegistry ─ ExecutionPlan ─ GraphPlan ─ MCGraphPlan
TilePipeline ───────────────────────────── MCTilePipeline (two .cfg)

RecurrentState (what a backend promises)
     └─ BackendCall (one call of it)
          ├──── TensorRtState ──────────── MCTensorRtState
          └──── HandleState ────────────── MCHandleState
EngineCache ────────────────────────────── MCEngineCache
StateRouting ───────────────────────────── MCStateRouting

ModelConfigProofs ─┬─ BufferedLoopProofs ─ EncodeBufferedProofs, DecodeBufferedProofs
                   ├─ SequentialLoopProofs
                   ├─ LatentStreamProofs (with GopSchedule)
                   └─ DriverCubinProofs (GraphPlan, EpilogueSlots, TilePipeline)
BackendProofs (EngineCache, TensorRtState, HandleState, StateRouting)
```

- **ModelConfig**: `ModelConfig::validate()`, `frame_in_gop()` and
  `q_index_shift()` over records of integers. The checks on names and the pixel
  range are one flag.
- **GopSchedule**: `load_model_config`, then frames with any q-index the range
  check lets pass.
- **LatentStream**: an encoder call that pushes z, y0 and y1 of each frame on a
  rANS stream (`EncodeFrame`), a container cut anywhere (`Transfer`), and a
  decoder call (`ReadFrame`, `DecodeFrame`). A tensor is a function of its cells
  (channel, row, column) to numbers counted in halves, so that truncation to a
  symbol and the 16-bit range check are visible; `Scales0` and `Scales1` are
  `extract_scales` cell by cell. The rANS library is a stack: a message comes out
  as it went in when it is popped with the tables it was pushed with, and as
  `"noise"` otherwise. `PmfFits` is the constructor's check of the tables.
- **CodecStreams**: the options that matter (`encoding` or not, `frames`,
  `q_index`, whether the output is a pipe, whether it fails), the input as the
  sequence of frames that have arrived, and how it ended. A frame carries its q-index and whether the
  entropy coder accepts it. The right result of a frame (`Result`) is the chain
  of `<<frame, q>>` pairs of its GOP up to it: networks are uninterpreted, and
  two results are equal only if the graph saw the same inputs in the same order
  since the same reset.
- **CodecSession**: the abstract specification. A call emits right results in
  order; it returns only when done; it fails only with an excuse.
- **SequentialLoop**: the loops of `encode_video` and `decode_video`. One action
  per step between two points where the thread can block, throw or be
  observed. `device_state` tells whether the backend or the loop keeps the
  reference.
- **AotGraph**: the executor. `stream` is the queue of operations not yet
  executed; `EnqueueModel` is `enqueue_model` with its direct run and its
  capture; each device action executes the oldest operation. `Copy` operations
  name the slot whose pinned memory they touch, and read it when they are
  *executed*, not when they are enqueued.
- **BufferedLoop**: what both buffered loops share: the `consume` lambda, the
  drain loop, the final flush, the unwinding that destroys the executor.
- **EncodeBuffered**, **DecodeBuffered**: the two loops. Note their difference:
  the encoder consumes the oldest frame *before* it reads, the decoder *after*.
- **AotModel**: the manifest (nodes, channels, bindings) as the export's strict
  shape inference leaves it, in which the channels of a concatenation are the sum
  of those of its parts (`Manifest`), `plan_arena` of
  `tools/model_aot.py` with its best fit over free blocks, the addresses
  `load_model` gives to tensors, and what each tensor has to contain. All planes
  have one size, so memory is counted in channels. A cell holds the name of the
  value it should have and the run it belongs to, or garbage; `Slice` and
  `Concat` only move values, so a value keeps the name of the tensor that first
  had it. `With` and `Over` are the updates of a map with one or more entries.
- **EpilogueSlots**: the greedy loop of `plan_epilogue_buffers` as a machine that
  places one interval per step, a module of its own because it is proved.
- **MemoryPlanner**: the constructor's plans, one action each, in their order:
  slice aliases, epilogue buffers, the shared ReGLU and spatial buffers,
  concatenations written in place (from the last node to the first),
  `configure_state` with all its checks (`Bindable`). Each takes the addresses
  the earlier ones left.
- **FusionRegistry**: for each fused kernel the chain of nodes, the matcher's
  conditions (operands, shapes, reader counts, aliasing), what it skips, and the
  cells it reads and writes. A launch is a set of items that run in any order.
  `Pointers` are the addresses that CUTLASS parameters keep of a node, by role.
- **ExecutionPlan**: `execute` for single nodes and the choice between the
  patterns at a node (`ScheduleAt`).
- **GraphPlan**: from the constructor to the results of several runs: direct
  launches first where the device fuses, then a recording and its replays. A
  launch whose items race, or that reads a cell with another value than its
  operand, leaves garbage. A convolution writes exactly its result; whether its
  kernel does is the subject of `TilePipeline`.
- **TilePipeline**: one block of a convolution kernel: its warps load their parts
  of a tile (directly or by `cp.async`), wait, meet at `__syncthreads`, multiply
  and store. The seven kernels are seven records (`PointwiseMma`, ...), and
  `KernelsFor` is the dispatch of `execute`. A sum is the sequence of the slices
  that went into it. `strict` is the choice CUDA leaves open of whether a barrier
  waits for warps that have returned.
- **RecurrentState**: the abstract specification of a backend with a bound
  feature: reset, run, and nothing after an exception (the loops let it unwind
  and destroy the backend).
- **BackendCall**: what `TensorRtState` and `HandleState` share: the inputs a
  run may be given, the history of inputs fed since the reset, and the mapping
  to `RecurrentState`.
- **TensorRtState**: `reset_state` and `run` of the TensorRT backend, one action
  for each operation queued on the stream and one for its execution. An
  operation captures the address it was queued with, as the CUDA calls do.
- **HandleState**: the same for ONNX Runtime and LibTorch, which keep a handle
  of a tensor; `inPlace` tells their resets apart. That a
  runtime allocates outputs from memory no handle names is assumed.
- **EngineCache**: `load()` of the TensorRT backend up to the engine. Files are
  inodes behind two directory entries, so that a process goes on writing to a
  file another one has renamed. One action per system call, `Kill` between any
  two. `alone` tells whether the processes take turns.
- **StateRouting**: `make_execution_config`, each backend's `configure_state`,
  the dealing of the inputs in `run()`, and the naming of its outputs in the
  loops, for all four backends; the buffered loops of driver_cubin, which go by
  name, are the two actions `RunByName` and `NameMissing`.

Variables carry the names of the source (`frames` is `stats.frames`,
`initialized` is `state_initialized_`, `graph` is `executable_graph_`). `pc` is
the place of the calling thread.

An operator commented *Mutant* is a deliberately wrong variant of the
definition it precedes; the `mutants` of `PROJECT.json` name the property each
one must break. They are used nowhere in the specifications.

## 3. What is checked

| Run | Asks |
|---|---|
| `EncodeBuffered` | the encode loop on a device of compute capability 8 (direct run first): types, slot discipline, no internal error, no freed memory in use, bounded loss, reuse only after waiting, refinement of `CodecSession`, termination, frames come out of a pipe |
| `DecodeBuffered` | the same for the decode loop on a device that captures at once (capability 7), with bad q-indexes and payloads; the types and the two properties of the executor alone (`SlotDiscipline`, `PinnedOutlivesCopies`) are left to the encoder's run and proved for both |
| `SequentialLoop` | both sequential loops, with the reference in the backend or in the loop: refinement of `CodecSession`, nothing lost in front of a fault, each frame comes out by itself |
| `LatentStream` | 900 metadata files, consistent or not, with frames of any q-index; four with odd planes, PMF files that fit or not, and a container cut anywhere: no lookup out of range, latents come out as coded, tables are the reference's |
| `GraphPlan` | 1896 small models on two device generations, planned and run three times: outputs exact, live tensors intact, the old feature read before it is overwritten, writes inside buffers, live results apart in the arena, tenants of a slot apart |
| `TilePipeline` | every interleaving of the warps of a block and their copies, in the seven kernels: sums complete, channels neither lost nor invented, the block ends |
| `TensorRtState` | the exchange of two allocations, with resets and runs queued faster than the device executes them and a failure at any step: refinement of `RecurrentState`, pinned memory free when written, the feature where the next run reads it |
| `HandleState` | the handles of the other two backends: refinement of `RecurrentState`, the old feature intact while results are collected |
| `EngineCache` | two processes over one temporary file, at the same time or in turns, killed anywhere, with a replacement of the ONNX file between loads: loads end with a current engine, fail only if the engine cannot be built, and processes in turns publish whole plans |
| `StateRouting` | the exported graphs and every graph one edit away (two tensors exchanged, one missing, one too many, the feature produced elsewhere) on every backend |
| `EncodeFrameByFrame`, `SpatialDispatch` | two claims of the documentation that do not hold, see section 6 |

**Bounds, and why they suffice.** *Slots* = 2 is the value the code uses
(`make_codec_io_config`). *MaxFrames* bounds what the peer sends: five frames
for the encoder with a GOP of three fill both slots, reuse each of them twice,
and cross a GOP boundary with frames in flight on both sides; the decoder, with
more choices per frame, uses a GOP of two and three frames, which crosses a
boundary with both slots used and one reused. *FrameLimits* includes 0 (no
limit) and a limit smaller than the input. The two QP phases of the small bundle
differ, so a frame run with its neighbour's phase is noticed. `SequentialLoop`
takes four frames with a GOP of three, three q-indexes of which one is invalid,
and both directions in one run.

In `LatentStream` *MaxFrame* = 5 passes the longest table and the period. On the
four odd planes two frames suffice, since frames do not share state; there are
5 by 3 latents over 3 by 2, and 3 by 4 over 1 by 2, so both edges are cropped;
one scale serves one, two, three or four of six channels, of which three belong
to each half, so halves begin inside a scale's group of channels. The tensors
contain every magnitude around the last scale, both signs, halves, and the
borders of the 16-bit range (-32768, 32767 and one past it). The container is
cut in quarters of a frame: two in its header, two in its payload.

The models of `GraphPlan` are chosen for what the planner and the matchers do:
three convolutions with every wiring of their residuals (slots reused, too small
or still alive), two feed-forward blocks with the gate next to its convolution
or not, nested concatenations of gates and inputs, and the encoder's and
decoder's tails in small, with a bound or unbound feature, one or two channels
per part and arenas with holes of different sizes. Three runs are a direct run,
a recording with its replay, and a pure replay; state crosses both borders.

`TilePipeline` has blocks of two channel tiles instead of four (`BlockTiles`):
warps still share a block, split it in rows and columns, and leave it partly.
Up to three slices use a tile a second time; 2, 3, 4 and 6 channel tiles give
whole blocks of both sizes, an incomplete one and one that is half of the larger
size. Spatial shapes are restricted to those of the models (`ModelShapes`); the
others are the subject of `SpatialDispatch`.

`TensorRtState` has two input values, up to three runs between resets and three
resets in the queue: every order of a reset, an exchange and a late execution
occurs. `HandleState` has three tensors beside the binding's own: the feature
fed to a run and the two it returns. In `EngineCache` a plan of two pieces can be
torn, and with two versions of the ONNX file a cached engine can be out of date.
The run uses symmetry: the processes are interchangeable, and the properties are
an invariant and action properties. `StateRouting` covers one edit; graphs
with more are refused for the same reasons.

**Assumed of the outside in `EngineCache`.** The ONNX file is replaced between
loads, and its time is later than that of anything written before. The runtime
deserializes a file that has the length of a plan and no hole, and no other;
this admits a mixture of two builds of the same version. Processes that run at
the same time *do* publish such a mixture at times (both write the same inode),
which is why `PublishedIsWhole` speaks of processes in turns (`alone`) only.

**Assumed of the runtimes in `StateRouting`.** ONNX Runtime and LibTorch refuse
tensors whose types differ from what the graph declares (`RuntimeAccepts`).

**Assumed of the models in `GraphPlan`.** The planner and the matchers rely on
properties of the exported graphs that they do not check, and the small models
have them: a slice of a graph input does not have a concatenation as its only
reader (`memory_planner.cpp:10-49` makes it a view without a launch,
`:186-261` redirects the part into the concatenation, which nothing then
writes); a gate's result is used up before the next gate (there is one ReGLU
buffer, `memory_planner.cpp:120`); the intermediate results of a fused gate have
no other reader and are no outputs (`fusion_registry.cpp:880-1000` looks at the
operations only); nothing reads the old feature between the fused update and
the final node (`fusion_registry.cpp:686-700` writes the new one, in place, when
the state is bound); and the final node, when its output is bound, does not
itself read the old feature other than position by position
(`graph_validator.cpp:35-43` asks only that the node is the last one; a
convolution from the feature to the feature would be accepted and race). The
last two are what `OldFeatureIsReadFirst` watches, in the order in which the
recorded graph replays: views of the feature, fused chains that write it early
and kept addresses are all included. Without the check for the final node it
fails in the decoders that read the feature behind its concatenation, which the
planner refuses to bind.

**Fairness.** `WF(Host)`: the calling thread runs unless it is blocked on the
input stream or on an event. `WF(Gpu)`: a CUDA stream executes what was enqueued.
Nothing makes the peer send or close: liveness properties start from what has
arrived. An output that may fail (`sink_fails`) may do so at any write or flush,
or never. A peer that stops reading a pipe is not modelled: the thread would
block in `write`, which is the back-pressure the documentation intends.
In `TilePipeline` every warp of a resident block is scheduled, a copy in flight
lands, and a barrier that everyone has reached opens. `LatentStream`,
`GraphPlan` and the other machines without liveness properties state none.

**Deadlock** is checked in the frame loops and the schedule: the only states
without a further step of the program are the ends of a call, which stutter
explicitly (`Over`). It is checked for the engine cache, where a process can
always load once more, for `LatentStream`, whose two calls end explicitly, and
for `TilePipeline`, where it would be a barrier that never opens. It is not in
`TensorRtState`, `HandleState`, `StateRouting` and `GraphPlan`, which stop where
a call failed or the last run is over.

## 4. What is proved

The theorems hold for every value of the constants that meets the assumptions
named beside them (`ASSUME`), which TLC evaluates in each run. For the loops:
every bundle that passes `validate()`, every number of slots of at least two,
every compute capability, every set of q-indexes, limits and frame bound. Every
theorem about a machine follows one scheme: an inductive invariant, made of
named parts, a lemma for each action that the action keeps it, and the property
as a consequence.

| Module | Theorems | Of |
|---|---|---|
| `ModelConfigProofs` | `ScheduleInRange` | the table lookups of `q_index_shift` |
| `LatentStreamProofs` | `TypeCorrect`, `ScheduleNeverThrows` | `GopSchedule` |
| | `StreamScheduleNeverThrows`, `DecodingInvertsEncoding`, `TablesAreTheReferences` | `LatentStream` |
| `EncodeBufferedProofs` | `TypeCorrect`, `SlotsAreOwned`, `DestructionIsSafe`, `NoInternalError`, `HostWaitsBeforeReuse`, `TruncationLosesLittle`, `ImplementsSession` | `EncodeBuffered` |
| `DecodeBufferedProofs` | the same, with `BadFrameLosesLittle` | `DecodeBuffered` |
| `SequentialLoopProofs` | `FailsAtTheFault`, `ImplementsSession` | `SequentialLoop` |
| `DriverCubinProofs` | `ArenaIsSound`, `EpiloguesKeepApart`, `TensorsHaveRoom`, `AllWritesStayInside` | `GraphPlan` |
| | `SlotsKeepTenantsApart` | `EpilogueSlots` |
| | `KernelsStoreTheirSums` | `TilePipeline` |
| `BackendProofs` | `CacheIsWhole`, `LoadsAreCurrent`, `OnlyBadModelsFail` | `EngineCache` |
| | `ExchangeTypeCorrect`, `ExchangeWaitsForUploads`, `ExchangeCarriesTheFeature`, `ExchangeKeepsState` | `TensorRtState` |
| | `HandleKeepsTheFeature`, `HandlesKeepRecurrentState` | `HandleState` |
| | `FeedbackIsChecked`, `DocumentedGraphIsServed` | `StateRouting` |

**The schedule.** A metadata file that passes `validate()` never makes a lookup
throw: an accepted configuration is valid, the q-index at hand passed its check,
and the rest is integer arithmetic of two modulo operations.

**The buffered loops, I: ownership** (`BufferedInv`).

1. *Accounting*: `frames <= submitted <= frames + Slots`, and the counters
   describe the input and output.
2. *InFlightArePending*: exactly the slots of frames in flight are pending.
   That a slot stands for one frame only is arithmetic: two numbers less than
   `Slots` apart differ modulo `Slots` (`SlotOfDistinct`).
3. *Ownership*: a queued copy belongs to a slot that is pending and not
   complete, and a slot's event is queued behind all its copies. Without the
   second half the first is not inductive: executing a record completes a slot
   whose copies would still be queued. It is what makes `wait_codec_slot`
   sufficient (`ReadySlotIsIdle`).
4. *Control*: what each place of the thread knows: a frame being prepared has
   been read and has a free slot; the state was reset before the first
   submission; the executor lives until the call is over.
5. *PinnedOutlivesCopies*.

`BufferedLoopProofs` proves one lemma per shared step that this invariant is
kept, and the two proof modules add the steps of their loop. The decoder's
invariant has one more part (`QChecked`): the q-index of the container is
checked some steps before it is used, while the peer goes on sending. The action
property (`HostWaitsBeforeReuse`) is then a consequence of ownership: whoever
writes a frame buffer writes that of a slot that is not pending.

**The buffered loops, II: the session** (`SessionInv`). That what comes out is
what `CodecSession` promises needs the whole content of the queue. `Replay` says
that every queued operation has an *owner*, the frame it was enqueued for, and:

- `Linked`: neighbours in the queue are neighbours in the program. Behind each
  operation comes the next one of the same frame, behind a frame's record the
  reset or first upload of the next frame, and the tail belongs to the frame that
  will be submitted next.
- `Addressed`: a copy goes to the pinned memory of its owner's slot.
- `Ready`: the device holds what the *oldest* operation expects: the feature
  before or after its owner, the frame's own pixels, q-index and result as far as
  they have been made.
- `HostReady`: the pinned memory of a frame in flight holds its input and, once
  its slot is complete, its result.

Executing the oldest operation makes the device ready for the next one, by
`Linked`; so nothing has to be said of the operations in between. The direct run
and the captured graph enqueue the same list, which is why one invariant does for
both. `SessionInv` adds what explains a failure (`FailureExplained`): an abstract
call fails only with an excuse. The same part gives the bound on loss, since a call that fails with all slots in
flight has failed at one of few places.

**The sequential loops** (`Inv`): `ReferenceFollows` says at which place of the
loop the reference is the feature before, or after, the frame at hand, wherever
it is kept.

**The latents** (`StreamInv`): what is in the container is what each frame's
tensors were turned into (`Stored`), and what was decoded is a prefix of it
(`ReadBack`). Popping a frame gives z back because it was pushed last; with z
the decoder computes the tables of y that the encoder used; so y0 and y1 come
back too. `TablesAreTheReferences` is arithmetic of channel groups, cropped
planes and the checkerboard.

**The arena** (`ArenaIsSound`). `plan_arena` is a recursion over nodes. The
library's induction theorems cannot be used here (they take an operator as a
parameter), but induction over the numbers can: a nonempty set of
counterexamples has a least element (`Least`, from `WFMin`). With it,
`Recursion` shows that such a recursion defines a function at all, and
`ArenaPlanned` that the plan of the first *k* nodes keeps live results apart and
inside the arena: a new result goes behind all others, or into a block that no
result alive at its node touches (`PlaceFound`).

**The epilogue slots** (`SlotsInv`, `PlannerInv`): the loop compares the birth of a
new tensor with *one* number per slot, the death of the tenant that moved in
last. `TenantsDoNotMeet` alone is therefore not inductive. `DeathsAreBounds`
adds that this number is at least the death of *every* tenant of the slot, which
is kept because a new tenant is born after that number and dies no earlier than
it is born. `SlotsKeepTenantsApart` assumes intervals that come in the order of
their birth (`WellFormed`); `EpiloguesKeepApart` shows that the constructor only
ever collects such intervals, whatever the graph: its matches come in node order
(`EpiloguesInOrder`) and nothing reads a tensor before it exists
(`ManifestFacts`).

**The allocations** (`MemoryInv`): no launch of any schedule writes outside of an
allocation (`AllWritesStayInside`), for every graph whose shapes add up, every
device and any number of runs. `WritesStayInside` alone is not inductive, because
of *when* an address is used: a launch takes it from the tensors' present places,
from CUTLASS parameters made at an earlier visit of the node, or from a recording
made in an earlier run. The invariant therefore says of each that it fits *now*:

- `Extents`: the size of an allocation follows from what it is for, the arena
  from the plan, a slot from the largest of its tenants, the shared ReGLU and
  spatial buffers from the largest convolution that uses them.
- `TensorsFit`: every tensor, wherever a plan or a fused step has moved it, ends
  inside its allocation (the theorem `TensorsHaveRoom`).
- `PointersFit`, `LaunchesFit`: so do the addresses kept in CUTLASS parameters and
  those of recorded launches.
- `MemoryFits`: the cells written so far lie inside.

Allocations are made but never freed or shrunk while a model is loaded (`Grows`),
so what fitted once fits ever after (`AllFitStill`); this is what carries old
addresses over. There is one lemma per call of the planner and one per fused
kernel (`StepFits`: the launches, the moved tensors and the kept addresses of a
step fit), joined in `ScheduleFits`. The parts of a concatenation need the only
real arithmetic: part *i* begins where the channels of the parts before it end,
and all of them add up to the result (`PartsFit`); redirections of parts into
their concatenation, which may itself be a part, go through the recursion of
`PlanDirectConcatBuffers` (`RedirectFits`, `RedirectionsExist`). The only
assumption is that the model is a `Manifest`. None of the conditions on exported
graphs in section 3 is needed: where those fail, values are wrong, but in memory
that belongs to the model.

**A block of a kernel** (`PipelineInv`): the warps are in step (`InStep`): either
all are filling the tile of slice *k* (some have loaded their part, some not), or
all are using it (some have multiplied, some not), or all are finishing. While a
tile is in use, no copy in flight lands in it. `KernelsStoreTheirSums` has the
hypothesis `FillsSpatialMma`, that the blocks of the spatial MMA kernel are full:
the dispatch does not test it, and without it the property is false (section 6).

**The engine cache** (`CacheInv`): no inode mixes versions; a file that somebody
loads from, or is about to publish, is of the present version (`Current`); and
when processes take turns, the temporary file is what its one writer has written
so far (`InTurn`). The invariant relates each process to the disk, never two
processes to one another, so it holds for any number of them.

**The exchange of allocations** (`ExchangeInv`) is an invariant about the queue
and what is *not* in it. Queued operations are ordered (memsets, upload, engine,
download), staged by where the thread is in `run()`, and addressed to the
allocations of the run under way, which are the exchanged ones once the thread
has swapped (`QueueOrdered`, `QueueStaged`, `QueueAddressed`). When a kind of
operation is queued no more, its effect is in memory: no upload left means the
engine's input buffer holds the input (`InputFed`), no memset left means the
state input holds the feature so far (`FeatureKept`), no engine run left means
the state output holds the new one (`FeatureMade`), no download left means the
host has the answer (`ResultFetched`). After `cudaStreamSynchronize` nothing is
queued, so all four hold, which is what `Return` needs to implement the abstract
run. `FeatureKept` alone is not inductive: a late memset addressed to the wrong
allocation would break it, which `QueueAddressed` excludes.

**The handles** (`HandleInv`): the tensor the handle names holds the feature so
far, and no result of the run under way lives in it.

**The routing** (`RoutingInv`): what `configure_state` accepted
(`BindingAccepted`), and how many of the inputs dealt so far came from the host
(`DealtSoFar`). An attempt to prove an earlier form of `FeedbackIsSound` showed it
to be false: the buffered loops of driver_cubin go by name and accept a graph
with tensors to spare, so its statement about counts is now one about `run()`.

`DocumentedGraphIsServed` has the hypothesis that the exported graphs have the
signatures of `docs/design.md:51-68` (`DocumentedExport`), which is what the
positions in `make_execution_config` and the names in the loops are written
for. The set of backends and the other outputs of the final node stay open. The
loop's lists are then the graph's without the bound tensor (`ListsAgree`), so the
index of the host's tensors, which skips the bound one, always points to the
tensor the next input is named for (`NextGivenFits`), no check fails, and an
input filled by name is the declared one (`DealtIsDeclared`).

**Only model-checked.**

- `OutputsAreExact`, `LiveTensorsIntact` and `OldFeatureIsReadFirst` of
  `GraphPlan`: they are not true of every graph (two ReGLU results alive at once share the one buffer, for
  instance), so a theorem needs the conditions of section 3 as hypotheses, and
  from them that every pattern of the fusion registry writes early only where
  nobody still reads.
- `CallEnds`, `FramesComeOut` and `BlockFinishes`: liveness under fairness is
  out of the prover's reach.

## 5. Not modelled, and why

- Numbers: the arithmetic of the networks and kernels, half precision, colour
  conversion.
- Of the CUDA kernels: CUTLASS itself, the bodies of the fused pointwise-ReGLU
  and depthwise kernels, the swizzled addresses inside a tile, and the wide
  pointwise kernel, which no dispatch picks.
- Parsing of the graph file, the kernel registry and its module loading, planes
  of different sizes (all tensors of a `GraphPlan` model share one).
- The rANS library, which is external; the container's payload limit and byte
  order.
- Errors of the CUDA driver and allocation failures. They matter at two places
  (a submission that fails half-way, a failed capture), listed as a hazard.
- I/O errors on the *input* stream, which the code cannot tell from its end.
- `int` overflow of the frame counters after 2^31 - 1 frames, which the
  integration guide documents as a limit of a call.
- In the engine cache: a replacement of the ONNX file during a load or with an
  older time, both listed as hazards; a full disk is modelled (`SaveFails`).
- The routing of `run()` under the benchmark tool, which binds no state.
- YUV padding and conversion, the location of models, the C API, tests, build
  files and one-shot tools.

## 6. Disagreements with the documentation

`codec/include/mlvc/codec/pipeline.hpp:16-17` says that FIFOs "are also
supported for live frame-by-frame operation". `EncodeFrameByFrame` checks that a
good frame sent to a pipe comes out without another one being sent. TLC finds
that it does not in the buffered encoder: `pipeline.cpp:396-402` consumes frame
`n` only when both slots are in flight or the input is over, so frame `n` is
written after frame `n + 1` has been read. The decoder holds back one frame more,
since it reads before it consumes. The runs `EncodeBuffered` and
`DecodeBuffered` show the bound that does hold (`FramesComeOut`), and
`SequentialLoop` that the other backends have no lag.

`docs/design.md:281-282` says that dense spatial convolution uses WMMA and that
"Other shapes retain the readable generic fallback." The dispatch
(`execution_plan.cpp:412-435`) takes every reduction that is a multiple of 16 and
every number of channels that is a multiple of 64 for the WMMA kernels. On
compute capability 8 the kernel is `spatial_conv_mma_body`, unless CUTLASS took
the convolution before (it declines those without a bias and some geometries,
`execution_plan.cpp:51-56`). That body covers 128 channels per block and 32
elements per step without a check inside the block (`spatial_conv.cu:25`,
`49-62`, `193-204`). `SpatialDispatch` finds that with 64 channels left it stores
into channels that do not exist, and that with an odd number of slices it adds a
slice that does not belong to the sum. The convolutions of the bundled models
fill the blocks; `TilePipeline` shows that with those shapes every kernel is
right.

## 7. Plan

Done: the modules of section 2 and the proofs of section 4.

Next, in this order:

1. `CodecPair`: encoder, container in a pipe, decoder, each with its own loop and
   device; property: the reconstruction uses exactly the features the encoder
   assumed (same GOP, same QP phase), whatever mix of loops serves both ends.
2. `Geometry`: padding, rotation, memory offsets in 64 bits.
3. `CodecCall`: the C API's error contract around option checks and set-up;
   `BundleReplace`: `model_package.py` replacing a published bundle.
4. The fused pointwise-ReGLU kernels in `TilePipeline`, with their two halves of
   channels.
5. Proofs: `LiveTensorsIntact`, then `OutputsAreExact`, for graphs that meet the
   conditions of section 3, one plan after the other: each `Plan` action keeps
   live tensors in memory of their own, and each matcher writes only where its
   chain may. A first step is that recorded launches and CUTLASS parameters hold
   the *present* addresses of their tensors, which needs that a captured schedule
   takes the same steps as the direct one before it.
