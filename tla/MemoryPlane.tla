------------------------------ MODULE MemoryPlane -------------------------------
(***************************************************************************)
(* class ElasticMemoryBudgetManager of turing/core/elastic_memory.py, in a *)
(* build without the native controller, with the expert cache and the page *)
(* pool that it resizes under one budget.                                  *)
(*                                                                         *)
(* The tokens of a call enter as the pages they need, and the headroom     *)
(* ratio is its default, one quarter.                                      *)
(***************************************************************************)
EXTENDS ExpertCache, KVPagePool

CONSTANTS
  SlotBytes, PageBytes,    (* bytes_per_slot, bytes_per_page             *)
  MinSlots, MaxSlots,      (* min_expert_slots, max_expert_slots         *)
  MinPages, MaxKVPages,    (* min_kv_pages, max_kv_pages                 *)
  ReleaseStep,             (* 16 in the code                             *)
  MaxNeeded                (* bound of the model: pages needed at most   *)

ASSUME PlaneAssumption ==
  /\ SlotBytes \in Nat \ {0} /\ PageBytes \in Nat \ {0}
  /\ MinSlots \in 1 .. NumSlots /\ MaxSlots \in MinSlots .. NumSlots
  /\ MinPages \in 1 .. MaxPages /\ MaxKVPages \in MinPages .. MaxPages
  /\ ReleaseStep \in Nat \ {0}
  /\ MaxNeeded \in Nat

planeVars == <<cacheVars, poolVars>>

CeilingDiv(m, n) == (m + n - 1) \div n

TargetPages(needed) ==
  Larger(MinPages, Smaller(MaxKVPages, CeilingDiv(5 * needed, 4)))

(* Mutant: rounding in favour of the pages.                                *)
YieldFloor(pages) == (pages * PageBytes) \div SlotBytes

(* The slots that pay for more pages, and those that fewer pages pay for.  *)
SlotsToYield(pages) == Larger(1, CeilingDiv(pages * PageBytes, SlotBytes))
SlotsToGain(pages) == (pages * PageBytes) \div SlotBytes

ExpandKV(target) ==
  LET diff == target - active_max_pages IN
  /\ diff > 0
  /\ ResizeActiveSlots(Larger(MinSlots, active_slots - SlotsToYield(diff)))
  /\ AdjustActiveCapacity(Smaller(MaxKVPages, active_max_pages + diff))

ReleaseKV(target) ==
  LET surplus == active_max_pages - target IN
  /\ surplus >= ReleaseStep
  /\ SlotsToGain(surplus) > 0
  /\ ResizeActiveSlots(Smaller(MaxSlots, active_slots + SlotsToGain(surplus)))
  /\ AdjustActiveCapacity(Larger(MinPages, target))

(* evaluate_and_rebalance(), when it rebalances.                           *)
EvaluateAndRebalance(needed) ==
  ExpandKV(TargetPages(needed)) \/ ReleaseKV(TargetPages(needed))

PlaneInit == CacheInit /\ PagesInit

PlaneNext ==
  \/ UseCache /\ UNCHANGED poolVars
  \/ UsePages /\ UNCHANGED cacheVars
  \/ \E needed \in 0 .. MaxNeeded : EvaluateAndRebalance(needed)

PlaneSpec == PlaneInit /\ [][PlaneNext]_planeVars

-----------------------------------------------------------------------------
(* The variables of both parts hold what their attributes can hold.        *)
PlaneTypeOK == CacheTypeOK /\ PagesTypeOK

Bytes == active_slots * SlotBytes + active_max_pages * PageBytes

(* Rebalancing trades memory and creates none: the bytes given out do not  *)
(* grow, in either direction and however the sizes round, unless the cache *)
(* can give no more, because it is at its minimum or full of pinned        *)
(* experts (evaluate_and_rebalance).                                       *)
BytesAreTraded ==
  [][\/ Bytes' <= Bytes
     \/ active_slots' <= Larger(MinSlots, Cardinality(pinned_keys))]_planeVars
=============================================================================
