---------------------------- MODULE EpilogueSlots ----------------------------
(***************************************************************************)
(* The greedy part of AotGraph::plan_epilogue_buffers: the results of the  *)
(* fused epilogues are dealt to as few device buffers (slots) as their     *)
(* lifetimes allow, each to the first slot whose last tenant is dead.      *)
(***************************************************************************)
EXTENDS Integers, Sequences

VARIABLES
  intervals,   \* results to place, in node order: birth, death and size
  slot_deaths, \* per slot, the death of its last tenant
  slot_bytes,  \* per slot, its size
  slot_of      \* per placed interval, its slot (interval.slot)

slotVars == <<intervals, slot_deaths, slot_bytes, slot_of>>

Interval == [birth : Nat, death : Nat, size : Nat]

Placed == 1..Len(slot_of)
SlotsInUse == 1..Len(slot_deaths)

\* The manifest's arena plan: nodes come in order, nobody dies unborn.
WellFormed(ivs) ==
  /\ ivs \in Seq(Interval)
  /\ \A i \in 1..Len(ivs) : ivs[i].birth <= ivs[i].death
  /\ \A i, j \in 1..Len(ivs) : i < j => ivs[i].birth <= ivs[j].birth

SlotsInit ==
  /\ WellFormed(intervals)
  /\ slot_deaths = <<>>
  /\ slot_bytes = <<>>
  /\ slot_of = <<>>

Upcoming == intervals[Len(slot_of) + 1]

\* Mutant: a tensor may move in at the node that last reads the old tenant,
\* as if the Add that follows the convolution were the one to write it.
FreeAtLastUse(s) == slot_deaths[s] <= Upcoming.birth

\* The loop that looks for a slot stops at this one.
Free(s) == slot_deaths[s] < Upcoming.birth
FirstFree(s) ==
  /\ s \in SlotsInUse
  /\ Free(s)
  /\ \A u \in 1..(s - 1) : ~Free(u)

OpenSlot ==
  /\ Len(slot_of) < Len(intervals)
  /\ \A s \in SlotsInUse : ~Free(s)
  /\ slot_deaths' = Append(slot_deaths, Upcoming.death)
  /\ slot_bytes' = Append(slot_bytes, Upcoming.size)
  /\ slot_of' = Append(slot_of, Len(slot_deaths) + 1)
  /\ UNCHANGED intervals

\* Mutant: a reused slot keeps the size of its first tenant.
ReuseSlotKeepSize ==
  /\ Len(slot_of) < Len(intervals)
  /\ \E s \in SlotsInUse :
       /\ FirstFree(s)
       /\ slot_deaths' = [slot_deaths EXCEPT ![s] = Upcoming.death]
       /\ slot_of' = Append(slot_of, s)
  /\ UNCHANGED <<intervals, slot_bytes>>

ReuseSlot ==
  /\ Len(slot_of) < Len(intervals)
  /\ \E s \in SlotsInUse :
       /\ FirstFree(s)
       /\ slot_deaths' = [slot_deaths EXCEPT ![s] = Upcoming.death]
       /\ slot_bytes' = [slot_bytes EXCEPT ![s] =
                           IF @ >= Upcoming.size THEN @ ELSE Upcoming.size]
       /\ slot_of' = Append(slot_of, s)
  /\ UNCHANGED intervals

PlaceInterval == OpenSlot \/ ReuseSlot

SlotsSpec == SlotsInit /\ [][PlaceInterval]_slotVars

-----------------------------------------------------------------------------
(***************************************************************************)
(* memory_planner.cpp:85-105: two results that are alive at the same node  *)
(* never share a slot, and no tenant is larger than its slot.              *)
(***************************************************************************)
TenantsDoNotMeet ==
  \A i, j \in Placed :
    i < j /\ slot_of[i] = slot_of[j] => intervals[i].death < intervals[j].birth

TenantsFit ==
  \A i \in Placed : intervals[i].size <= slot_bytes[slot_of[i]]

TenantsKeepApart == TenantsDoNotMeet /\ TenantsFit
=============================================================================
