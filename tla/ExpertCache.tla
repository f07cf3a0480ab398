------------------------------ MODULE ExpertCache -------------------------------
(***************************************************************************)
(* class GPULRUExpertCache of turing/core/expert_cache.py, on the path     *)
(* that uses cache_map: policy "lfru", which is the default, or "lru" in a *)
(* build without the native cache.                                         *)
(*                                                                         *)
(* Slots are numbered from 0.  cache_map is the function slot with its     *)
(* order of keys, the relation older: every access moves a key to the end, *)
(* so the order is also that of last_access_clock, and the LFRU score,     *)
(* heat first and then recency, is the least heat and then the oldest.     *)
(* free_slots is always in increasing order, so pop() takes the largest.   *)
(* Routing history and the hit counters are telemetry.                     *)
(***************************************************************************)
EXTENDS Integers, FiniteSets

CONSTANTS
  Experts,    (* the keys (layer_idx, expert_idx)                        *)
  NumSlots,   (* num_slots, the size of the buffers                      *)
  Policy,     (* eviction_policy, "lru" or "lfru"                        *)
  MaxHeat,    (* bound of the model: a heat stays at MaxHeat             *)
  NoSlot, NoExpert

ASSUME CacheAssumption ==
  /\ IsFiniteSet(Experts)
  /\ NumSlots \in Nat \ {0}
  /\ Policy \in {"lru", "lfru"}
  /\ MaxHeat \in Nat \ {0}
  /\ NoSlot \notin 0 .. NumSlots - 1
  /\ NoExpert \notin Experts

VARIABLES
  slot,         (* cache_map: the slot of each expert, or NoSlot         *)
  older,        (* the order of cache_map: <<k, l>> if k comes before l  *)
  free_slots,
  pinned_keys,
  active_slots,
  access_heat,  (* 0 stands for a missing key                            *)
  content       (* whose weights each slot of the buffers holds          *)

cacheVars == <<slot, older, free_slots, pinned_keys, active_slots, access_heat, content>>

Slots == 0 .. NumSlots - 1

Larger(m, n) == IF m >= n THEN m ELSE n
Smaller(m, n) == IF m <= n THEN m ELSE n

CacheInit ==
  /\ slot = [k \in Experts |-> NoSlot]
  /\ older = {}
  /\ free_slots = Slots
  /\ pinned_keys = {}
  /\ active_slots = NumSlots
  /\ access_heat = [k \in Experts |-> 0]
  /\ content = [s \in Slots |-> NoExpert]

-----------------------------------------------------------------------------
Resident == {k \in Experts : slot[k] # NoSlot}

(* Mutant: pinned experts are candidates too.                              *)
AllResident == Resident

Candidates == Resident \ pinned_keys

Oldest(S) == {k \in S : \A l \in S : <<l, k>> \notin older}

Coldest(S) == Oldest({k \in S : \A l \in S : access_heat[k] <= access_heat[l]})

(* The one resident that makes room for another.                           *)
Victims ==
  IF Candidates = {} THEN Oldest(Resident)
  ELSE IF Policy = "lfru" THEN Coldest(Candidates)
  ELSE Oldest(Candidates)

Full == Cardinality(Resident) >= active_slots \/ free_slots = {}

(* _should_promote()                                                       *)
ShouldPromote(hot, cold) ==
  access_heat[hot] > access_heat[cold] + access_heat[cold] \div 4 + 4

(* The hysteresis: an expert with a history that is not hot enough.        *)
Rejected(k, v) ==
  /\ Policy = "lfru"
  /\ Candidates # {}
  /\ access_heat[k] > 0
  /\ ~ShouldPromote(k, v)

(* k is the last key of cache_map, and one access hotter.                  *)
Touch(k) ==
  /\ older' = {e \in older : {e[1], e[2]} \subseteq Resident' \ {k}}
                \cup ((Resident' \ {k}) \X {k})
  /\ access_heat' = [access_heat EXCEPT ![k] = Smaller(@ + 1, MaxHeat)]

(* get_slot() that hits, and allocate_or_evict_slot() of a resident.       *)
Hit(k) ==
  /\ k \in Resident
  /\ slot' = slot
  /\ Touch(k)
  /\ UNCHANGED <<free_slots, pinned_keys, active_slots, content>>

(* allocate_or_evict_slot() of a missing expert, its three outcomes.       *)
TakeFree(k) ==
  /\ ~Full
  /\ \E s \in free_slots :
       /\ \A t \in free_slots : t <= s
       /\ slot' = [slot EXCEPT ![k] = s]
       /\ free_slots' = free_slots \ {s}

(* Mutant: the victim stays in cache_map.                                  *)
ReplaceButKeep(k) ==
  /\ Full
  /\ \E v \in Victims : ~Rejected(k, v) /\ slot' = [slot EXCEPT ![k] = slot[v]]
  /\ free_slots' = free_slots

Replace(k) ==
  /\ Full
  /\ \E v \in Victims :
       /\ ~Rejected(k, v)
       /\ slot' = [slot EXCEPT ![v] = NoSlot, ![k] = slot[v]]
  /\ free_slots' = free_slots

Retain(k) ==
  /\ Full
  /\ \E v \in Victims : Rejected(k, v) /\ slot' = [slot EXCEPT ![k] = slot[v]]
  /\ free_slots' = free_slots

(* allocate_or_evict_slot() and then load_expert_weights(), which is what  *)
(* a prefetch does for each of its missing experts and a caller after a    *)
(* miss.                                                                   *)
Fetch(k) ==
  /\ k \notin Resident
  /\ TakeFree(k) \/ Replace(k) \/ Retain(k)
  /\ Touch(k)
  /\ content' = [content EXCEPT ![slot'[k]] = k]
  /\ UNCHANGED <<pinned_keys, active_slots>>

(* pin_experts().  It is called with at most as many keys as there are     *)
(* slots, resident or not.                                                 *)
Pin(keys) ==
  /\ Cardinality(pinned_keys \cup keys) <= NumSlots
  /\ pinned_keys' = pinned_keys \cup keys
  /\ UNCHANGED <<slot, older, free_slots, active_slots, access_heat, content>>

Unpin(keys) ==
  /\ pinned_keys' = pinned_keys \ keys
  /\ UNCHANGED <<slot, older, free_slots, active_slots, access_heat, content>>

-----------------------------------------------------------------------------
NewSize(n) ==
  Larger(IF pinned_keys = {} THEN 1 ELSE Cardinality(pinned_keys), Smaller(n, NumSlots))

(* What the loop evicts: the oldest candidates, as many as are too many.   *)
Shed(size) ==
  {k \in Candidates :
     Cardinality({l \in Candidates : <<l, k>> \in older}) < Cardinality(Resident) - size}

Occupied == {slot[k] : k \in Resident}

(* Mutant: the free slots are filtered and not computed again.             *)
ResizeFilters(n) ==
  /\ active_slots' = NewSize(n)
  /\ slot' = [k \in Experts |-> IF k \in Shed(NewSize(n)) THEN NoSlot ELSE slot[k]]
  /\ older' = {e \in older : {e[1], e[2]} \subseteq Resident'}
  /\ free_slots' = {s \in free_slots : s < NewSize(n)}
  /\ UNCHANGED <<pinned_keys, access_heat, content>>

(* resize_active_slots()                                                   *)
ResizeActiveSlots(n) ==
  /\ active_slots' = NewSize(n)
  /\ slot' = [k \in Experts |-> IF k \in Shed(NewSize(n)) THEN NoSlot ELSE slot[k]]
  /\ older' = {e \in older : {e[1], e[2]} \subseteq Resident'}
  /\ free_slots' = (0 .. NewSize(n) - 1) \ Occupied'
  /\ UNCHANGED <<pinned_keys, access_heat, content>>

UseCache ==
  \/ \E k \in Experts : Hit(k) \/ Fetch(k)
  \/ \E keys \in SUBSET Experts : Pin(keys) \/ Unpin(keys)

CacheNext == UseCache \/ \E n \in 0 .. NumSlots : ResizeActiveSlots(n)

CacheSpec == CacheInit /\ [][CacheNext]_cacheVars

-----------------------------------------------------------------------------
(* The variables hold what the attributes can hold; every free slot lies   *)
(* in the buffers.                                                         *)
CacheTypeOK ==
  /\ slot \in [Experts -> Slots \cup {NoSlot}]
  /\ older \subseteq Resident \X Resident
  /\ free_slots \subseteq Slots
  /\ pinned_keys \subseteq Experts
  /\ active_slots \in 1 .. NumSlots
  /\ access_heat \in [Experts -> 0 .. MaxHeat]
  /\ content \in [Slots -> Experts \cup {NoExpert}]

(* A hit answers with the slot that holds the expert's own weights:        *)
(* whatever was prefetched, evicted, pinned or resized in between, no      *)
(* other expert was loaded over them (get_slot).                           *)
HitServesItsWeights == \A k \in Resident : content[slot[k]] = k

(* The capacity is usable: there are never more residents than active      *)
(* slots, and below that a miss finds a free slot and evicts nobody,       *)
(* however often the cache was shrunk and grown (resize_active_slots).     *)
RoomIsUsable ==
  /\ Cardinality(Resident) <= active_slots
  /\ Cardinality(Resident) < active_slots => free_slots # {}

(* A pinned expert leaves only when everything resident is pinned and one  *)
(* more is fetched; shrinking never evicts one (pin_experts).              *)
PinnedStay ==
  [][\A k \in Resident \cap pinned_keys : k \in Resident' \/ Resident \subseteq pinned_keys]_cacheVars
=============================================================================
