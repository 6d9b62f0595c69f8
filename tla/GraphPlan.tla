------------------------------ MODULE GraphPlan ------------------------------
(***************************************************************************)
(* AotGraph from the constructor to the results of several runs: the plan, *)
(* the schedule, and what the kernels of the schedule do to the device     *)
(* memory, launched directly or recorded into a graph and replayed.        *)
(***************************************************************************)
EXTENDS ExecutionPlan

CONSTANT MaxRuns

VARIABLES
  memory,    \* cell -> content, for the cells written so far
  run,       \* number of the run
  mode,      \* what enqueue_model is doing
  index,     \* next node of the schedule
  ready,     \* cutlass_parameters_ready_
  recorded   \* launches of executable_graph_, empty if there is none

runVars == <<run, mode, index>>
vars == <<modelVars, values, capacity, slotVars, planVars, fusionVars,
          memory, runVars, ready, recorded>>

Garbage == <<<<"garbage", 0>>, 0>>
HeldAt(mem, cell) == IF cell \in DOMAIN mem THEN mem[cell] ELSE Garbage
Right(mem, use, r) == HeldAt(mem, use[1]) = Content(use[2][1], use[2][2], r)

CellsOf(uses) == {u[1] : u \in uses}

\* Two items of a launch race for a cell.
Races(launch) ==
  \E i, j \in launch :
    i # j /\ CellsOf(i.writes) \cap CellsOf(j.reads \cup j.writes) # {}

\* A launch works out if it reads what it is meant to and does not race.
Perform(mem, launch, r) ==
  LET works == ~Races(launch) /\ \A i \in launch : \A u \in i.reads : Right(mem, u, r)
      written == UNION {i.writes : i \in launch}
      left == [cell \in CellsOf(written) |->
                 IF works
                 THEN LET u == CHOOSE w \in written : w[1] = cell
                      IN Content(u[2][1], u[2][2], r)
                 ELSE Garbage]
  IN Over(left, mem)

PerformAll(mem, launches, r) ==
  LET after[i \in 0..Len(launches)] ==
        IF i = 0 THEN mem ELSE LET before == after[i - 1] IN Perform(before, launches[i], r)
  IN after[Len(launches)]

\* The contents of these tensors in run r, in the memory they own.
Filled(tensors, r) ==
  LET filled == UNION {{t} \X (1..Ch(t)) : t \in tensors}
      cell(p) == Cell(values[p[1]], p[2])
  IN [x \in {cell(p) : p \in filled} |->
        LET p == CHOOSE q \in filled : cell(q) = x IN Content(p[1], p[2], r)]

StateInputs == {b[1] : b \in graph.bindings}

Init ==
  /\ PlanInit
  /\ elided = {}
  /\ baked = <<>>
  /\ memory = Filled(graph.weights, 0)
  /\ run = 0
  /\ mode = "idle"
  /\ index = 1
  /\ ready = FALSE
  /\ recorded = <<>>

PlanStep == Plan /\ UNCHANGED <<fusionVars, memory, runVars, ready, recorded>>

\* run: the inputs are uploaded (before the first run reset_state has zeroed
\* the states) and the model is enqueued.
StartRun ==
  /\ stage = "ready"
  /\ mode = "idle"
  /\ run < MaxRuns
  /\ run' = run + 1
  /\ index' = 1
  /\ memory' = Over(Filled(IF run = 0 THEN Inputs ELSE Inputs \ StateInputs, run + 1), memory)
  /\ mode' = IF ~ready /\ major >= 8 THEN "direct"
             ELSE IF recorded = <<>> THEN "capture" ELSE "replay"
  /\ UNCHANGED <<modelVars, values, capacity, slotVars, planVars, fusionVars,
                 ready, recorded>>

\* What a step of the schedule changes in the plan.
Advance(step) ==
  /\ index' = index + step.length
  /\ values' = step.values
  /\ capacity' = step.capacity
  /\ elided' = step.elided
  /\ baked' = step.baked
  /\ UNCHANGED <<modelVars, slotVars, planVars, run>>

LaunchStep ==
  /\ mode = "direct"
  /\ index \in NodeIds
  /\ LET step == ScheduleAt(index)
     IN /\ Advance(step)
        /\ memory' = PerformAll(memory, step.launches, run)
  /\ UNCHANGED <<mode, ready, recorded>>

EndSchedule ==
  /\ mode = "direct"
  /\ index \notin NodeIds
  /\ ready' = TRUE
  /\ mode' = "idle"
  /\ UNCHANGED <<modelVars, values, capacity, slotVars, planVars, fusionVars,
                 memory, run, index, recorded>>

RecordStep ==
  /\ mode = "capture"
  /\ index \in NodeIds
  /\ LET step == ScheduleAt(index)
     IN /\ Advance(step)
        /\ recorded' = recorded \o step.launches
  /\ UNCHANGED <<memory, mode, ready>>

EndCapture ==
  /\ mode = "capture"
  /\ index \notin NodeIds
  /\ mode' = "replay"
  /\ UNCHANGED <<modelVars, values, capacity, slotVars, planVars, fusionVars,
                 memory, run, index, ready, recorded>>

LaunchGraph ==
  /\ mode = "replay"
  /\ memory' = PerformAll(memory, recorded, run)
  /\ mode' = "idle"
  /\ UNCHANGED <<modelVars, values, capacity, slotVars, planVars, fusionVars,
                 run, index, ready, recorded>>

Next ==
  \/ PlanStep
  \/ StartRun
  \/ LaunchStep
  \/ EndSchedule
  \/ RecordStep
  \/ EndCapture
  \/ LaunchGraph

Spec == Init /\ [][Next]_vars

-----------------------------------------------------------------------------
Holds(t) == \A u \in Uses(values, t) : Right(memory, u, run)

(***************************************************************************)
(* After every run each output of the graph holds the value its node is    *)
(* to compute from the inputs of that run and the states of the one        *)
(* before, whether the schedule was launched or replayed.                  *)
(***************************************************************************)
OutputsAreExact == mode = "idle" /\ run > 0 => \A t \in Outputs : Holds(t)

(***************************************************************************)
(* memory_planner.cpp, fusion_registry.cpp: while the schedule is launched *)
(* a tensor that some node still has to read, or that is an output, keeps  *)
(* its value, however tensors were moved and nodes fused.                  *)
(***************************************************************************)
Computed(t) == t \in Inputs \/ \E k \in Producers(t) : k < index
Awaited(t) == t \in Outputs \/ \E k \in Readers(graph, t) : k >= index
LiveTensorsIntact ==
  mode = "direct" => \A t \in Tensors(graph) : Computed(t) /\ Awaited(t) => Holds(t)

(***************************************************************************)
(* graph_validator.cpp:35-43: the new feature is written over the old one, *)
(* which is safe only while nobody reads the old one any more.  In the     *)
(* order in which the recorded graph replays, no launch takes the old      *)
(* value of a bound state from its memory once an earlier launch, or       *)
(* another item of the same one, has written there: through whatever view, *)
(* kept address, part of a concatenation or fused chain either got there.  *)
(***************************************************************************)
StateBuffers == {InputBuffer(t).in : t \in StateInputs}
OldFeature(use) == origin[use[2][1]][use[2][2]][1] \in StateInputs
OldReads(item) == {u[1] : u \in {r \in item.reads : r[1][1] \in StateBuffers /\ OldFeature(r)}}

OldFeatureIsReadFirst ==
  StateBuffers # {} =>
    \A j \in 1..Len(recorded) : \A reader \in recorded[j] : OldReads(reader) # {} =>
      \A i \in 1..j : \A writer \in recorded[i] :
        i < j \/ writer # reader => OldReads(reader) \cap CellsOf(writer.writes) = {}

(***************************************************************************)
(* tools/model_aot.py:141-177: in the arena of a loaded manifest a result  *)
(* has no memory in common with an earlier one that is read by its node or *)
(* by a later one, and the arena is large enough for all.                  *)
(***************************************************************************)
ArenaRoom(k) == arena[k]..(arena[k] + Ch(Node(k).out) - 1)
ArenaKeepsApart ==
  stage = "slices" =>
    \A k \in NodeIds :
      /\ ArenaRoom(k) \subseteq 0..(capacity[Arena] - 1)
      /\ \A j \in 1..(k - 1) :
           Death(graph, j) >= k => ArenaRoom(j) \cap ArenaRoom(k) = {}

(***************************************************************************)
(* No launch writes anywhere but inside a buffer that is allocated, however *)
(* many tensors share it.                                                  *)
(***************************************************************************)
WritesStayInside ==
  \A cell \in DOMAIN memory :
    cell[1] \in DOMAIN capacity /\ cell[2] \in 0..(capacity[cell[1]] - 1)
=============================================================================
