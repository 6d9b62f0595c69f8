---------------------------- MODULE TilePipeline ----------------------------
(***************************************************************************)
(* One thread block of a tiled convolution kernel.  Its warps load a slice *)
(* of both operands into shared memory, each warp its part, meet at a      *)
(* barrier, multiply what all of them have loaded, and go on to the next   *)
(* slice; kernels with two tiles load the next slice while they multiply.  *)
(* From compute capability 8 on copies are asynchronous: they land at any  *)
(* time until the warp that issued them has waited.                        *)
(*                                                                         *)
(* Channels are counted in tiles of 16, the reduction in slices of 16.  A  *)
(* sum is the sequence of the slices that went into it.                    *)
(***************************************************************************)
EXTENDS Integers, Sequences

CONSTANTS
  BlockTiles,  \* channel tiles of a block of 64 channels (4 in the source)
  Shapes       \* the convolutions that CUTLASS does not take

Shape == [kind : {"pointwise", "spatial"}, channels : Nat, reduction : Nat,
          whole : BOOLEAN]  \* whole: the reduction is a multiple of 16

ASSUME BlockTilesAssumption == BlockTiles \in Nat /\ BlockTiles % 2 = 0 /\ BlockTiles > 0
ASSUME ShapesAssumption ==
  Shapes \subseteq Shape /\ \A s \in Shapes : s.channels > 0 /\ s.reduction > 0

VARIABLES
  shape,    \* the convolution
  kernel,   \* the kernel that execute() has picked
  block,    \* blockIdx.y
  strict,   \* a barrier also waits for warps that have returned (undefined)
  pc,       \* warp -> where it is
  step,     \* warp -> its step through the reduction
  tile,     \* tile -> part -> the step whose data it holds, or Stale
  copies,   \* warp -> its asynchronous copies in flight: tile and step
  sum,      \* warp -> its accumulators
  stored    \* warp -> the channel tiles it has stored

launchVars == <<shape, kernel, block, strict>>
blockVars == <<launchVars, pc, step, tile, copies, sum, stored>>

Stale == -1

-----------------------------------------------------------------------------
(***************************************************************************)
(* The kernels.  block: channel tiles per block; columns: warps beside one *)
(* another, which share channels; loaders: the warps that load a part;     *)
(* depth: slices per step; exits: by warp, by block or not at all;         *)
(* bounded: the reduction and the stores are checked against the shape.    *)
(***************************************************************************)
PointwiseFallback ==
  [block |-> BlockTiles, warps |-> BlockTiles, columns |-> 1, loaders |-> BlockTiles,
   tiles |-> 1, depth |-> 1, async |-> FALSE, exits |-> "warp", bounded |-> FALSE]

PointwiseMma ==
  [block |-> 2 * BlockTiles, warps |-> 2 * BlockTiles, columns |-> BlockTiles,
   loaders |-> 2 * BlockTiles,
   tiles |-> 2, depth |-> 1, async |-> TRUE, exits |-> "block", bounded |-> FALSE]

PointwiseMmaSmall ==
  [PointwiseMma EXCEPT !.block = BlockTiles, !.loaders = BlockTiles]

PointwiseBalanced == [PointwiseMma EXCEPT !.columns = 2, !.async = FALSE]

SpatialFallback == PointwiseFallback

SpatialMma ==
  [PointwiseMma EXCEPT !.columns = 1, !.tiles = 1, !.depth = 2]

\* One channel and one element where the others count tiles and slices.
Generic ==
  [PointwiseFallback EXCEPT !.depth = 2, !.exits = "never", !.bounded = TRUE]

\* Mutant: a number of channels that leaves a block incomplete is let through.
AnyChannels(s) == s.whole

\* ic % 16 == 0, or reduction % 16 == 0, and oc % 64 == 0.
FillsBlocks(s) == s.whole /\ s.channels % BlockTiles = 0

\* execute(), Conv: the small variant depends on the size of the device.
KernelsFor(s, major) ==
  IF ~FillsBlocks(s) THEN {Generic}
  ELSE IF s.kind = "spatial"
  THEN {IF major >= 8 THEN SpatialMma ELSE SpatialFallback}
  ELSE IF s.channels % (2 * BlockTiles) # 0 THEN {PointwiseFallback}
  ELSE IF major >= 8 THEN {PointwiseMma, PointwiseMmaSmall}
  ELSE {PointwiseBalanced}

DivideUp(a, b) == (a + b - 1) \div b

-----------------------------------------------------------------------------
Warps == 0..(kernel.warps - 1)
Loaders == 0..(kernel.loaders - 1)
Steps == DivideUp(shape.reduction, kernel.depth)

\* The channel tiles whose sums warp w holds.
Rows(w) ==
  LET each == kernel.block \div (kernel.warps \div kernel.columns)
  IN {block * kernel.block + (w \div kernel.columns) * each + i : i \in 0..(each - 1)}

Exits(w) ==
  \/ kernel.exits = "warp" /\ \A r \in Rows(w) : r >= shape.channels
  \/ kernel.exits = "block" /\ block * kernel.block >= shape.channels

BlockInit ==
  /\ shape \in Shapes
  /\ \E major \in {7, 8} : kernel \in KernelsFor(shape, major)
  /\ block \in 0..(DivideUp(shape.channels, kernel.block) - 1)
  /\ strict \in BOOLEAN
  /\ pc = [w \in Warps |-> "enter"]
  /\ step = [w \in Warps |-> 0]
  /\ tile = [t \in 0..(kernel.tiles - 1) |-> [p \in Loaders |-> Stale]]
  /\ copies = [w \in Warps |-> {}]
  /\ sum = [w \in Warps |-> <<>>]
  /\ stored = [w \in Warps |-> {}]

Goto(w, label) == pc' = [pc EXCEPT ![w] = label]

Enter(w) ==
  /\ pc[w] = "enter"
  /\ Goto(w, IF Exits(w) THEN "returned" ELSE "load")
  /\ UNCHANGED <<launchVars, step, tile, copies, sum, stored>>

(***************************************************************************)
(* Warp w's part of step k.  copy_async_16 stores directly what is not     *)
(* aligned or sticks out of the plane.                                     *)
(***************************************************************************)
LoadPart(w, k) ==
  LET t == k % kernel.tiles
  IN \/ w \in Loaders /\ kernel.async
        /\ copies' = [copies EXCEPT ![w] = @ \cup {[tile |-> t, step |-> k]}]
        /\ UNCHANGED tile
     \/ w \in Loaders
        /\ tile' = [tile EXCEPT ![t][w] = k]
        /\ UNCHANGED copies
     \/ w \notin Loaders /\ UNCHANGED <<tile, copies>>

\* The prologue of the kernels with two tiles; every step of the others.
Load(w) ==
  /\ pc[w] = "load"
  /\ LoadPart(w, step[w])
  /\ Goto(w, "wait")
  /\ UNCHANGED <<launchVars, step, sum, stored>>

\* Mutant: only the copies of the prologue are waited for.
WaitOnce(w) ==
  /\ pc[w] = "wait"
  /\ step[w] = 0 => copies[w] = {}
  /\ Goto(w, "arrive")
  /\ UNCHANGED <<launchVars, step, tile, copies, sum, stored>>

\* wait_for_async_copies
Wait(w) ==
  /\ pc[w] = "wait"
  /\ copies[w] = {}
  /\ Goto(w, "arrive")
  /\ UNCHANGED <<launchVars, step, tile, copies, sum, stored>>

\* With two tiles, the next step is loaded before this one is multiplied.
Prefetch(w) ==
  /\ pc[w] = "prefetch"
  /\ IF step[w] + 1 < Steps THEN LoadPart(w, step[w] + 1) ELSE UNCHANGED <<tile, copies>>
  /\ Goto(w, "multiply")
  /\ UNCHANGED <<launchVars, step, sum, stored>>

\* The slices of step k; those past the reduction are another channel's data.
SlicesOf(k) ==
  LET end == IF kernel.bounded /\ (k + 1) * kernel.depth > shape.reduction
             THEN shape.reduction ELSE (k + 1) * kernel.depth
  IN [i \in 1..(end - k * kernel.depth) |-> k * kernel.depth + i - 1]

\* All the parts of the tile go into the sum, whatever they hold by now.
Multiply(w) ==
  /\ pc[w] = "multiply"
  /\ LET parts == {tile[step[w] % kernel.tiles][p] : p \in Loaders}
     IN sum' = [sum EXCEPT ![w] =
          @ \o IF \E k \in parts : parts = {k} /\ k # Stale
               THEN SlicesOf(CHOOSE k \in parts : TRUE) ELSE <<Stale>>]
  /\ Goto(w, "leave")
  /\ UNCHANGED <<launchVars, step, tile, copies, stored>>

\* The epilogue: what the warp has summed is the result of its channels.
Store(w) ==
  /\ pc[w] = "store"
  /\ stored' = [stored EXCEPT ![w] =
       {r \in Rows(w) : kernel.bounded => r < shape.channels}]
  /\ Goto(w, "done")
  /\ UNCHANGED <<launchVars, step, tile, copies, sum>>

\* cp.async: one 16-byte copy reaches shared memory.
Land(w) ==
  \E c \in copies[w] :
    /\ tile' = [tile EXCEPT ![c.tile][w] = c.step]
    /\ copies' = [copies EXCEPT ![w] = @ \ {c}]
    /\ UNCHANGED <<launchVars, pc, step, sum, stored>>

AtBarrier(w) == pc[w] \in {"arrive", "leave"}

\* What follows __syncthreads: the multiplication, or the next step.
Resume(w) ==
  CASE pc[w] = "arrive" -> IF kernel.tiles = 2 THEN "prefetch" ELSE "multiply"
    [] pc[w] = "leave" -> IF step[w] + 1 >= Steps THEN "store"
                          ELSE IF kernel.tiles = 2 THEN "wait" ELSE "load"
    [] OTHER -> pc[w]

(***************************************************************************)
(* __syncthreads, one barrier for both places.  Warps that have returned   *)
(* may or may not be waited for: CUDA leaves it undefined.                 *)
(***************************************************************************)
Meet ==
  /\ \E w \in Warps : AtBarrier(w)
  /\ \A w \in Warps : AtBarrier(w) \/ (~strict /\ pc[w] \in {"returned", "done"})
  /\ pc' = [w \in Warps |-> Resume(w)]
  /\ step' = [w \in Warps |-> IF pc[w] = "leave" THEN step[w] + 1 ELSE step[w]]
  /\ UNCHANGED <<launchVars, tile, copies, sum, stored>>

Warp(w) ==
  Enter(w) \/ Load(w) \/ Wait(w) \/ Prefetch(w) \/ Multiply(w) \/ Store(w)

Ended == \A w \in Warps : pc[w] \in {"returned", "done"}

BlockNext ==
  \/ \E w \in Warps : Warp(w) \/ Land(w)
  \/ Meet
  \/ Ended /\ UNCHANGED blockVars

\* The device schedules every warp of a resident block and finishes copies.
Fairness ==
  /\ \A w \in 0..(2 * BlockTiles - 1) :
       /\ WF_blockVars(w \in Warps /\ Warp(w))
       /\ WF_blockVars(w \in Warps /\ Land(w))
  /\ WF_blockVars(Meet)

BlockSpec == BlockInit /\ [][BlockNext]_blockVars /\ Fairness

-----------------------------------------------------------------------------
(***************************************************************************)
(* pointwise_conv.cu:160-217, spatial_conv.cu:49-191, with the dispatch of *)
(* execution_plan.cpp:364-435: whatever a warp stores is the sum of every  *)
(* slice of the reduction, each once and of its own data, and is stored    *)
(* for channels that exist; and no channel of the block is left out.       *)
(***************************************************************************)
StoresItsSums ==
  /\ \A w \in Warps : stored[w] # {} =>
       /\ sum[w] = [i \in 1..shape.reduction |-> i - 1]
       /\ \A r \in stored[w] : r < shape.channels
  /\ Ended => \A r \in 0..(kernel.block - 1) :
       block * kernel.block + r < shape.channels =>
         \E w \in Warps : block * kernel.block + r \in stored[w]

(***************************************************************************)
(* pointwise_conv.cu:23 and 60, with execution_plan.cpp:368: warps leave a *)
(* kernel before its barriers when their channels do not exist; the shapes *)
(* that reach such a kernel never make a part of a block leave, so the     *)
(* block ends however the device counts those that did.                    *)
(***************************************************************************)
BlockFinishes == <>Ended
=============================================================================
