--------------------------- MODULE MemoryPlaneProofs ----------------------------
(***************************************************************************)
(* Proofs about the components that divide memory. MemoryPlane: the page   *)
(* pool accounts for every page, pins hold, rebalancing creates no memory  *)
(* and, under the LRU policy, every resident expert keeps its weights and  *)
(* the capacity is usable. MultiModelManager: models are loaded into the   *)
(* budget. VirtualPages: every block of the paged KV cache is in one       *)
(* place.                                                                  *)
(***************************************************************************)
EXTENDS MemoryPlane, MultiModelManager, VirtualPages, ListLemmas, TLAPS

-----------------------------------------------------------------------------
(* MemoryPlane.                                                            *)

PagesInv == PagesTypeOK /\ PagesAccounted

(* The front of the free list is a part of it.                             *)
LEMMA LowestFreeIsFree == ASSUME NEW n PROVE LowestFree(n) \subseteq free_pages
BY DEF LowestFree

LEMMA AdjustKeepsPages ==
  ASSUME PagesInv, NEW n \in Int, AdjustActiveCapacity(n)
  PROVE  PagesInv'
<1>1. Ceiling(n) \in 1 .. MaxPages
  BY PagesAssumption DEF Ceiling
<1>2. Allocated' = Allocated
  BY DEF AdjustActiveCapacity, Allocated
<1> QED
  BY <1>1, <1>2, PagesAssumption
  DEF PagesInv, PagesTypeOK, PagesAccounted, AdjustActiveCapacity

LEMMA UseKeepsPages ==
  ASSUME PagesInv, UsePages
  PROVE  PagesInv'
<1>1. CASE \E r \in Requests : FreePages(r)
  <2>1. PICK r \in Requests : FreePages(r) BY <1>1
  <2>2. Allocated' = Allocated \ allocated_pages[r]
    BY <2>1 DEF FreePages, Allocated, PagesInv, PagesTypeOK, PagesAccounted
  <2>3. PagesTypeOK'
    BY <2>1 DEF FreePages, PagesInv, PagesTypeOK
  <2>4. PagesAccounted'
    BY <2>1, <2>2 DEF FreePages, Allocated, PagesInv, PagesTypeOK, PagesAccounted
  <2> QED BY <2>3, <2>4 DEF PagesInv
<1>2. CASE \E r \in Requests : \E n \in 1 .. MaxPages : AllocatePages(r, n)
  <2>1. PICK r \in Requests, n \in 1 .. MaxPages : AllocatePages(r, n) BY <1>2
  <2>2. LowestFree(n) \subseteq free_pages BY LowestFreeIsFree
  <2>3. Allocated' = Allocated \cup LowestFree(n)
    BY <2>1 DEF AllocatePages, Allocated, PagesInv, PagesTypeOK
  <2>4. PagesTypeOK'
    BY <2>1, <2>2 DEF AllocatePages, PagesInv, PagesTypeOK
  <2>5. free_pages' = (0 .. active_max_pages' - 1) \ Allocated'
    BY <2>1, <2>3 DEF AllocatePages, PagesInv, PagesAccounted
  <2>6. ASSUME NEW s \in Requests, NEW t \in Requests, s # t
        PROVE  allocated_pages'[s] \cap allocated_pages'[t] = {}
    <3>1. \A u \in Requests : allocated_pages[u] \cap LowestFree(n) = {}
      BY <2>2 DEF PagesInv, PagesAccounted, Allocated
    <3>2. allocated_pages[s] \cap allocated_pages[t] = {}
      BY <2>6 DEF PagesInv, PagesAccounted
    <3> QED
      BY <2>1, <2>6, <3>1, <3>2 DEF AllocatePages, PagesInv, PagesTypeOK
  <2> QED BY <2>4, <2>5, <2>6 DEF PagesInv, PagesAccounted
<1> QED BY <1>1, <1>2 DEF UsePages

-----------------------------------------------------------------------------
(* What the cache keeps true: a slot is free or in use, never both.        *)
CacheInv ==
  /\ CacheTypeOK
  /\ Cardinality(pinned_keys) <= NumSlots
  /\ HitServesItsWeights
  /\ \A k \in Resident : slot[k] \notin free_slots

(* Two residents never share a slot: each slot holds one expert's weights. *)
LEMMA OneSlotEach ==
  ASSUME HitServesItsWeights, NEW k \in Resident, NEW l \in Resident, slot[k] = slot[l]
  PROVE  k = l
BY DEF HitServesItsWeights

LEMMA VictimsAreResident == Victims \subseteq Resident
BY DEF Victims, Coldest, Oldest, Candidates

LEMMA PinnedAreCounted ==
  ASSUME CacheTypeOK
  PROVE  /\ Cardinality(pinned_keys) \in Nat
         /\ pinned_keys # {} => Cardinality(pinned_keys) >= 1
<1>1. IsFiniteSet(pinned_keys)
  BY CacheAssumption, FS_Subset DEF CacheTypeOK
<1> QED
  BY <1>1, FS_CardinalityType, FS_EmptySet

LEMMA NewSizeInRange ==
  ASSUME CacheInv, NEW n \in Int
  PROVE  NewSize(n) \in 1 .. NumSlots
BY PinnedAreCounted, CacheAssumption DEF CacheInv, NewSize, Larger, Smaller

(* An access changes neither the residents nor their slots.                *)
LEMMA TouchTypes ==
  ASSUME CacheTypeOK, NEW k \in Resident', Touch(k)
  PROVE  /\ older' \subseteq Resident' \X Resident'
         /\ access_heat' \in [Experts -> 0 .. MaxHeat]
<1>1. k \in Experts BY DEF Resident
<1>2. older' \subseteq Resident' \X Resident'
  BY DEF Touch, CacheTypeOK
<1>3. access_heat' \in [Experts -> 0 .. MaxHeat]
  BY <1>1, CacheAssumption DEF Touch, CacheTypeOK, Smaller
<1> QED BY <1>2, <1>3

LEMMA HitKeepsCache ==
  ASSUME CacheInv, NEW k \in Experts, Hit(k)
  PROVE  CacheInv'
<1>1. Resident' = Resident
  BY DEF Hit, Resident
<1>2. CacheTypeOK'
  BY <1>1, TouchTypes DEF Hit, CacheInv, CacheTypeOK
<1> QED
  BY <1>1, <1>2 DEF Hit, CacheInv, HitServesItsWeights

(* Under the LRU policy no allocation is rejected, so a fetched expert gets *)
(* a slot that is free or its victim's.                                    *)
LEMMA FetchKeepsCache ==
  ASSUME CacheInv, Policy = "lru", NEW k \in Experts, Fetch(k)
  PROVE  CacheInv'
<1>1. CASE TakeFree(k)
  <2>1. PICK s \in free_slots : /\ slot' = [slot EXCEPT ![k] = s]
                                /\ free_slots' = free_slots \ {s}
    BY <1>1 DEF TakeFree
  <2>2. s \in Slots /\ slot'[k] = s
    BY <2>1 DEF CacheInv, CacheTypeOK
  <2>3. Resident' = Resident \cup {k}
    BY <2>1, <2>2, CacheAssumption DEF Resident, CacheInv, CacheTypeOK, Slots
  <2>4. content' = [content EXCEPT ![s] = k]
    BY <2>2 DEF Fetch
  <2>5. CacheTypeOK'
    BY <2>1, <2>2, <2>3, <2>4, TouchTypes DEF Fetch, CacheInv, CacheTypeOK
  <2>6. \A l \in Resident : l # k /\ slot'[l] = slot[l] /\ slot[l] # s /\ slot[l] \in Slots
    BY <2>1 DEF Fetch, CacheInv, CacheTypeOK, Resident
  <2>7. HitServesItsWeights'
    BY <2>2, <2>3, <2>4, <2>6 DEF HitServesItsWeights, CacheInv, CacheTypeOK
  <2>8. \A l \in Resident' : slot'[l] \notin free_slots'
    BY <2>1, <2>2, <2>3, <2>6 DEF CacheInv
  <2> QED BY <2>5, <2>7, <2>8 DEF CacheInv, Fetch
<1>2. CASE Replace(k)
  <2>1. PICK v \in Victims : slot' = [slot EXCEPT ![v] = NoSlot, ![k] = slot[v]]
    BY <1>2 DEF Replace
  <2>2. v \in Resident /\ v # k /\ v \in Experts
    BY VictimsAreResident DEF Fetch, Resident
  <2>3. slot[v] \in Slots /\ slot'[k] = slot[v] /\ slot'[v] = NoSlot
    BY <2>1, <2>2 DEF CacheInv, CacheTypeOK, Resident
  <2>4. Resident' = (Resident \ {v}) \cup {k}
    BY <2>1, <2>2, <2>3, CacheAssumption DEF Resident, CacheInv, CacheTypeOK, Slots
  <2>5. content' = [content EXCEPT ![slot[v]] = k]
    BY <2>3 DEF Fetch
  <2>6. CacheTypeOK'
    BY <1>2, <2>1, <2>3, <2>4, <2>5, TouchTypes DEF Replace, Fetch, CacheInv, CacheTypeOK
  <2>7. \A l \in Resident \ {v} :
          l # k /\ slot'[l] = slot[l] /\ slot[l] # slot[v] /\ slot[l] \in Slots
    BY <2>1, <2>2, OneSlotEach DEF Fetch, CacheInv, CacheTypeOK, Resident
  <2>8. HitServesItsWeights'
    BY <2>3, <2>4, <2>5, <2>7 DEF HitServesItsWeights, CacheInv, CacheTypeOK
  <2>9. \A l \in Resident' : slot'[l] \notin free_slots'
    BY <1>2, <2>2, <2>3, <2>4, <2>7 DEF CacheInv, Replace
  <2> QED BY <2>6, <2>8, <2>9 DEF CacheInv, Fetch
<1>3. ~ Retain(k)
  BY DEF Retain, Rejected
<1> QED BY <1>1, <1>2, <1>3 DEF Fetch

LEMMA PinKeepsCache ==
  ASSUME CacheInv, NEW keys \in SUBSET Experts, Pin(keys) \/ Unpin(keys)
  PROVE  CacheInv'
<1>1. Resident' = Resident
  BY DEF Pin, Unpin, Resident
<1>2. Cardinality(pinned_keys') <= NumSlots
  <2>1. IsFiniteSet(pinned_keys)
    BY CacheAssumption, FS_Subset DEF CacheInv, CacheTypeOK
  <2>2. Cardinality(pinned_keys \ keys) <= Cardinality(pinned_keys)
    BY <2>1, FS_Subset
  <2>3. Cardinality(pinned_keys \ keys) \in Nat /\ Cardinality(pinned_keys) \in Nat
    BY <2>1, FS_Subset, FS_CardinalityType
  <2>4. CASE Pin(keys)
    BY <2>4 DEF Pin
  <2>5. CASE Unpin(keys)
    <3>1. Cardinality(pinned_keys') <= Cardinality(pinned_keys)
      BY <2>2, <2>5 DEF Unpin
    <3>2. Cardinality(pinned_keys') \in Nat
      BY <2>3, <2>5 DEF Unpin
    <3> QED
      BY <2>3, <3>1, <3>2, CacheAssumption DEF CacheInv
  <2> QED
    BY <2>4, <2>5
<1>3. CacheTypeOK'
  BY <1>1 DEF Pin, Unpin, CacheInv, CacheTypeOK
<1> QED
  BY <1>1, <1>2, <1>3 DEF Pin, Unpin, CacheInv, HitServesItsWeights

LEMMA ResizeKeepsCache ==
  ASSUME CacheInv, NEW n \in Int, ResizeActiveSlots(n)
  PROVE  CacheInv'
<1>1. NewSize(n) \in 1 .. NumSlots
  BY NewSizeInRange
<1>2. /\ Resident' \subseteq Resident
      /\ \A k \in Resident' : slot'[k] = slot[k]
  BY DEF ResizeActiveSlots, Resident
<1>3. CacheTypeOK'
  BY <1>1, <1>2, CacheAssumption DEF ResizeActiveSlots, CacheInv, CacheTypeOK, Slots
<1>4. HitServesItsWeights'
  BY <1>2 DEF ResizeActiveSlots, CacheInv, HitServesItsWeights
<1>5. \A k \in Resident' : slot'[k] \notin free_slots'
  BY DEF ResizeActiveSlots, Occupied
<1> QED
  BY <1>3, <1>4, <1>5 DEF CacheInv, ResizeActiveSlots

-----------------------------------------------------------------------------
LEMMA TargetIsNumber ==
  ASSUME NEW needed \in 0 .. MaxNeeded
  PROVE  TargetPages(needed) \in Int
BY PlaneAssumption, PagesAssumption DEF TargetPages, Larger, Smaller, CeilingDiv

(* A rebalance sets both sizes to whole numbers.                           *)
LEMMA RebalanceAdjustsPages ==
  ASSUME PagesInv, NEW needed \in 0 .. MaxNeeded, EvaluateAndRebalance(needed)
  PROVE  \E n \in Int : AdjustActiveCapacity(n)
<1> DEFINE target == TargetPages(needed)
<1>1. target \in Int
  BY TargetIsNumber
<1>2. active_max_pages \in Int
  BY DEF PagesInv, PagesTypeOK
<1> HIDE DEF target
<1>3. Smaller(MaxKVPages, active_max_pages + (target - active_max_pages)) \in Int
  BY <1>1, <1>2, PlaneAssumption, PagesAssumption DEF Smaller
<1>4. Larger(MinPages, target) \in Int
  BY <1>1, PlaneAssumption, PagesAssumption DEF Larger
<1> QED
  BY <1>3, <1>4 DEF EvaluateAndRebalance, ExpandKV, ReleaseKV, target

LEMMA RebalanceResizesCache ==
  ASSUME PagesTypeOK, CacheTypeOK, NEW needed \in 0 .. MaxNeeded, EvaluateAndRebalance(needed)
  PROVE  \E n \in Int : ResizeActiveSlots(n)
<1> DEFINE target == TargetPages(needed)
<1>1. target \in Int
  BY TargetIsNumber
<1>2. active_max_pages \in Int /\ active_slots \in Int
  BY DEF PagesTypeOK, CacheTypeOK
<1>3. ASSUME NEW pages \in Int
      PROVE  SlotsToYield(pages) \in Int /\ SlotsToGain(pages) \in Int
  <2>1. pages * PageBytes \in Int /\ SlotBytes \in Nat \ {0}
    BY <1>3, PlaneAssumption
  <2> QED
    BY <2>1 DEF SlotsToYield, SlotsToGain, Larger, CeilingDiv
<1> HIDE DEF target
<1>4. SlotsToYield(target - active_max_pages) \in Int
  BY <1>1, <1>2, <1>3
<1>5. Larger(MinSlots, active_slots - SlotsToYield(target - active_max_pages)) \in Int
  BY <1>2, <1>4, PlaneAssumption, CacheAssumption DEF Larger
<1>6. SlotsToGain(active_max_pages - target) \in Int
  BY <1>1, <1>2, <1>3
<1>7. Smaller(MaxSlots, active_slots + SlotsToGain(active_max_pages - target)) \in Int
  BY <1>2, <1>6, PlaneAssumption, CacheAssumption DEF Smaller
<1> QED
  BY <1>5, <1>7 DEF EvaluateAndRebalance, ExpandKV, ReleaseKV, target

(* No page is lost and none is handed out twice, for every pool, cache and *)
(* policy, whatever allocates, frees and rebalances (StaticPagedKVPool).   *)
THEOREM PagesAreAccounted == PlaneSpec => []PagesAccounted
<1>1. PlaneInit => PagesInv
  BY PagesAssumption
  DEF PlaneInit, PagesInit, PagesInv, PagesTypeOK, PagesAccounted, Allocated
<1>2. PagesInv /\ [PlaneNext]_planeVars => PagesInv'
  <2> SUFFICES ASSUME PagesInv, [PlaneNext]_planeVars PROVE PagesInv'
    OBVIOUS
  <2>1. CASE UNCHANGED poolVars
    BY <2>1 DEF PagesInv, PagesTypeOK, PagesAccounted, Allocated, poolVars
  <2>2. CASE UsePages
    BY <2>2, UseKeepsPages
  <2>3. CASE \E needed \in 0 .. MaxNeeded : EvaluateAndRebalance(needed)
    BY <2>3, RebalanceAdjustsPages, AdjustKeepsPages
  <2> QED
    BY <2>1, <2>2, <2>3 DEF PlaneNext, planeVars
<1>3. PagesInv => PagesAccounted
  BY DEF PagesInv
<1> QED
  BY <1>1, <1>2, <1>3, PTL DEF PlaneSpec

(* What the lru cache and the pool keep true together.                     *)
PlaneInv == PagesInv /\ CacheInv

LEMMA PlaneInvInductive ==
  ASSUME Policy = "lru"
  PROVE  /\ PlaneInit => PlaneInv
         /\ PlaneInv /\ [PlaneNext]_planeVars => PlaneInv'
<1>1. ASSUME PlaneInit PROVE PlaneInv
  <2>1. PagesInv
    BY <1>1, PagesAssumption
    DEF PlaneInit, PagesInit, PagesInv, PagesTypeOK, PagesAccounted, Allocated
  <2>2. Resident = {} /\ Cardinality(pinned_keys) = 0
    BY <1>1, FS_EmptySet DEF PlaneInit, CacheInit, Resident
  <2>3. CacheTypeOK
    BY <1>1, <2>2, CacheAssumption DEF PlaneInit, CacheInit, CacheTypeOK, Slots
  <2> QED
    BY <2>1, <2>2, <2>3, CacheAssumption DEF PlaneInv, CacheInv, HitServesItsWeights
<1>2. ASSUME PlaneInv, [PlaneNext]_planeVars PROVE PlaneInv'
  <2>1. CASE UseCache /\ UNCHANGED poolVars
    <3>1. PagesInv'
      BY <1>2, <2>1
      DEF PlaneInv, PagesInv, PagesTypeOK, PagesAccounted, Allocated, poolVars
    <3>2. CacheInv'
      BY <1>2, <2>1, HitKeepsCache, FetchKeepsCache, PinKeepsCache DEF PlaneInv, UseCache
    <3> QED
      BY <3>1, <3>2 DEF PlaneInv
  <2>2. CASE UsePages /\ UNCHANGED cacheVars
    <3>1. CacheInv'
      BY <1>2, <2>2
      DEF PlaneInv, CacheInv, CacheTypeOK, HitServesItsWeights, Resident, cacheVars
    <3> QED
      BY <1>2, <2>2, <3>1, UseKeepsPages DEF PlaneInv
  <2>3. CASE \E needed \in 0 .. MaxNeeded : EvaluateAndRebalance(needed)
    <3>1. PagesInv'
      BY <1>2, <2>3, RebalanceAdjustsPages, AdjustKeepsPages DEF PlaneInv
    <3>2. \E n \in Int : ResizeActiveSlots(n)
      BY <1>2, <2>3, RebalanceResizesCache DEF PlaneInv, PagesInv, CacheInv
    <3> QED
      BY <1>2, <3>1, <3>2, ResizeKeepsCache DEF PlaneInv
  <2>4. CASE UNCHANGED planeVars
    BY <1>2, <2>4
    DEF PlaneInv, PagesInv, PagesTypeOK, PagesAccounted, Allocated, CacheInv, CacheTypeOK,
        HitServesItsWeights, Resident, planeVars, cacheVars, poolVars
  <2> QED
    BY <1>2, <2>1, <2>2, <2>3, <2>4 DEF PlaneNext
<1> QED
  BY <1>1, <1>2

(* Under the LRU policy a hit always answers with the expert's own weights *)
(* (get_slot), and the types hold: for every number of experts, slots and  *)
(* pages, and every mix of fetching, pinning and rebalancing.              *)
THEOREM LruServesItsWeights ==
  ASSUME Policy = "lru"
  PROVE  PlaneSpec => [](PlaneTypeOK /\ HitServesItsWeights)
<1>1. PlaneInv => PlaneTypeOK /\ HitServesItsWeights
  BY DEF PlaneInv, PagesInv, CacheInv, PlaneTypeOK
<1> QED
  BY <1>1, PlaneInvInductive, PTL DEF PlaneSpec

-----------------------------------------------------------------------------
(* R puts the members of S in a row.                                       *)
InARow(R, S) ==
  /\ \A k \in S : <<k, k>> \notin R
  /\ \A k, l \in S : k # l => <<k, l>> \in R \/ <<l, k>> \in R
  /\ \A k, l, m \in S : <<k, l>> \in R /\ <<l, m>> \in R => <<k, m>> \in R

LEMMA IntervalSize ==
  ASSUME NEW i \in Int, NEW j \in Int, i <= j + 1
  PROVE  IsFiniteSet(i .. j) /\ Cardinality(i .. j) = j - i + 1
<1>1. IsFiniteSet(i .. j) /\ Cardinality(i .. j) = IF i > j THEN 0 ELSE j - i + 1
  BY FS_Interval
<1> QED
  BY <1>1

(* Of a finite row, all but the first n are at most the others in number.  *)
LEMMA TheRestIsLess ==
  ASSUME NEW S, IsFiniteSet(S), NEW R, InARow(R, S), NEW n \in Nat, n <= Cardinality(S)
  PROVE  Cardinality({k \in S : ~(Cardinality({l \in S : <<l, k>> \in R}) < n)})
           <= Cardinality(S) - n
<1> DEFINE Before(k) == {l \in S : <<l, k>> \in R}
           rank == [k \in S |-> Cardinality(Before(k))]
           Rest == {k \in S : ~(rank[k] < n)}
           size == Cardinality(S)
           f == [k \in Rest |-> rank[k]]
<1>1. size \in Nat
  BY FS_CardinalityType
<1>2. ASSUME NEW k \in S
      PROVE  IsFiniteSet(Before(k)) /\ rank[k] \in Nat /\ rank[k] <= size - 1
  <2>1. Before(k) \in SUBSET (S \ {k})
    BY DEF InARow
  <2>2. IsFiniteSet(S \ {k}) /\ Cardinality(S \ {k}) = size - 1
    BY FS_RemoveElement
  <2> HIDE DEF Before
  <2>3. IsFiniteSet(Before(k)) /\ Cardinality(Before(k)) <= Cardinality(S \ {k})
    BY <2>1, <2>2, FS_Subset
  <2>4. Cardinality(Before(k)) \in Nat
    BY <2>3, FS_CardinalityType
  <2>5. Cardinality(Before(k)) <= size - 1
    BY <2>2, <2>3
  <2> QED
    BY <2>3, <2>4, <2>5
<1>3. ASSUME NEW k \in S, NEW l \in S, <<k, l>> \in R
      PROVE  rank[k] < rank[l]
  <2>1. Before(k) \in SUBSET Before(l) /\ k \in Before(l) /\ k \notin Before(k)
    BY <1>3 DEF InARow
  <2>2. IsFiniteSet(Before(l)) /\ IsFiniteSet(Before(k))
    BY <1>2
  <2>3. Cardinality(Before(k)) <= Cardinality(Before(l))
        /\ Cardinality(Before(k)) # Cardinality(Before(l))
    BY <2>1, <2>2, FS_Subset
  <2>4. Cardinality(Before(k)) \in Nat /\ Cardinality(Before(l)) \in Nat
    BY <2>2, FS_CardinalityType
  <2> HIDE DEF Before
  <2> QED
    BY <2>3, <2>4
<1>4. \A k, l \in S : rank[k] = rank[l] => k = l
  <2> SUFFICES ASSUME NEW k \in S, NEW l \in S, k # l PROVE rank[k] # rank[l]
    OBVIOUS
  <2>1. rank[k] \in Nat /\ rank[l] \in Nat
    BY <1>2
  <2>2. <<k, l>> \in R \/ <<l, k>> \in R
    BY DEF InARow
  <2>3. rank[k] < rank[l] \/ rank[l] < rank[k]
    BY <1>3, <2>2
  <2> HIDE DEF rank
  <2> QED
    BY <2>1, <2>3
<1> HIDE DEF rank, Before
<1>4a. \A k \in S : rank[k] \in Nat /\ rank[k] <= size - 1
  BY <1>2
<1> HIDE DEF size
<1>5. f \in Injection(Rest, n .. size - 1)
  <2>1. \A k \in Rest : rank[k] \in n .. size - 1
    BY <1>1, <1>4a
  <2> QED
    BY <1>4, <2>1 DEF Injection, IsInjective
<1>6. IsFiniteSet(n .. size - 1) /\ Cardinality(n .. size - 1) = size - n
  <2>1. size - 1 \in Int /\ n <= (size - 1) + 1
    BY <1>1 DEF size
  <2>2. Cardinality(n .. size - 1) = (size - 1) - n + 1 /\ IsFiniteSet(n .. size - 1)
    BY <2>1, IntervalSize
  <2> QED
    BY <1>1, <2>2
<1>7. Cardinality(Rest) <= size - n
  BY <1>5, <1>6, FS_Injection
<1>8. Rest = {k \in S : ~(Cardinality({l \in S : <<l, k>> \in R}) < n)}
  BY DEF rank, Before
<1> QED
  BY <1>7, <1>8 DEF size

(* The residents are in a row, as cache_map is, and the free slots are     *)
(* those below the capacity that nobody has.                               *)
RoomInv ==
  /\ CacheInv
  /\ InARow(older, Resident)
  /\ free_slots = (0 .. active_slots - 1) \ Occupied
  /\ Cardinality(Resident) <= active_slots

LEMMA ResidentsAreFinite ==
  ASSUME CacheInv
  PROVE  /\ Resident \in SUBSET Experts /\ IsFiniteSet(Resident)
         /\ Cardinality(Resident) \in Nat
         /\ IsFiniteSet(pinned_keys) /\ Cardinality(pinned_keys) \in Nat
         /\ active_slots \in 1 .. NumSlots
<1>1. Resident \in SUBSET Experts /\ pinned_keys \in SUBSET Experts /\ active_slots \in 1 .. NumSlots
  BY DEF Resident, CacheInv, CacheTypeOK
<1> QED
  BY <1>1, CacheAssumption, FS_Subset, FS_CardinalityType

(* Who was accessed comes last, and the others stay in their order.        *)
LEMMA TouchKeepsTheRow ==
  ASSUME InARow(older, Resident), NEW k \in Resident', Resident' \ {k} \subseteq Resident, Touch(k)
  PROVE  InARow(older, Resident)'
<1>1. \A i, j \in Resident' : <<i, j>> \in older' <=>
         \/ i # k /\ j # k /\ <<i, j>> \in older
         \/ i # k /\ j = k
  BY DEF Touch
<1> QED
  BY <1>1 DEF InARow

LEMMA UseKeepsRoom ==
  ASSUME RoomInv, Policy = "lru", UseCache
  PROVE  RoomInv'
<1>1. CacheInv /\ CacheInv'
  BY HitKeepsCache, FetchKeepsCache, PinKeepsCache DEF RoomInv, UseCache
<1>2. ASSUME NEW k \in Experts, Hit(k) PROVE RoomInv'
  <2>1. Resident' = Resident /\ Occupied' = Occupied /\ k \in Resident'
    BY <1>2 DEF Hit, Resident, Occupied
  <2>2. InARow(older, Resident)'
    BY <1>2, <2>1, TouchKeepsTheRow DEF Hit, RoomInv
  <2> QED
    BY <1>1, <1>2, <2>1, <2>2 DEF Hit, RoomInv
<1>3. ASSUME NEW k \in Experts, Fetch(k), TakeFree(k) PROVE RoomInv'
  <2>1. PICK s \in free_slots : slot' = [slot EXCEPT ![k] = s] /\ free_slots' = free_slots \ {s}
    BY <1>3 DEF TakeFree
  <2>2. s \in Slots /\ s # NoSlot
    BY <1>1, <2>1, CacheAssumption DEF CacheInv, CacheTypeOK, Slots
  <2>3. slot \in [Experts -> Slots \cup {NoSlot}] /\ k \notin Resident
    BY <1>1, <1>3 DEF CacheInv, CacheTypeOK, Fetch
  <2>4. Resident' = Resident \cup {k}
    BY <2>1, <2>2, <2>3 DEF Resident
  <2>5. Occupied' = Occupied \cup {s}
    BY <2>1, <2>3, <2>4 DEF Occupied, Resident
  <2>6. InARow(older, Resident)'
    BY <1>3, <2>4, TouchKeepsTheRow DEF Fetch, RoomInv
  <2>7. Cardinality(Resident') = Cardinality(Resident) + 1
    BY <1>1, <2>3, <2>4, ResidentsAreFinite, FS_AddElement
  <2>8. Cardinality(Resident) < active_slots
    BY <1>1, <1>3, ResidentsAreFinite DEF TakeFree, Full
  <2>9. active_slots' = active_slots
    BY <1>3 DEF Fetch
  <2>10. free_slots' = (0 .. active_slots' - 1) \ Occupied'
    BY <2>1, <2>5, <2>9 DEF RoomInv
  <2>11. Cardinality(Resident') <= active_slots'
    BY <1>1, <2>7, <2>8, <2>9, ResidentsAreFinite
  <2> QED
    BY <1>1, <2>6, <2>10, <2>11 DEF RoomInv
<1>4. ASSUME NEW k \in Experts, Fetch(k), Replace(k) PROVE RoomInv'
  <2>1. PICK v \in Victims : slot' = [slot EXCEPT ![v] = NoSlot, ![k] = slot[v]]
    BY <1>4 DEF Replace
  <2>2. slot \in [Experts -> Slots \cup {NoSlot}] /\ k \notin Resident /\ v \in Resident
        /\ k # v /\ v \in Experts
    BY <1>1, <1>4, VictimsAreResident DEF CacheInv, CacheTypeOK, Fetch, Resident
  <2>3. slot[v] # NoSlot /\ slot'[k] = slot[v] /\ slot'[v] = NoSlot
        /\ \A l \in Experts \ {k, v} : slot'[l] = slot[l]
    BY <2>1, <2>2 DEF Resident
  <2>4. Resident' = (Resident \ {v}) \cup {k}
    BY <2>2, <2>3 DEF Resident
  <2>5. Occupied' = Occupied
    BY <2>2, <2>3, <2>4 DEF Occupied, Resident
  <2>6. InARow(older, Resident)'
    BY <1>4, <2>4, TouchKeepsTheRow DEF Fetch, RoomInv
  <2>7. Cardinality(Resident') = Cardinality(Resident)
    <3>1. IsFiniteSet(Resident \ {v}) /\ Cardinality(Resident \ {v}) = Cardinality(Resident) - 1
      BY <1>1, <2>2, ResidentsAreFinite, FS_RemoveElement
    <3>2. Cardinality(Resident') = Cardinality(Resident) - 1 + 1
      BY <2>2, <2>4, <3>1, FS_AddElement
    <3> QED
      BY <1>1, <3>2, ResidentsAreFinite
  <2>8. free_slots' = free_slots /\ active_slots' = active_slots
    BY <1>4 DEF Fetch, Replace
  <2> QED
    BY <1>1, <2>5, <2>6, <2>7, <2>8 DEF RoomInv
<1>5. ASSUME NEW keys \in SUBSET Experts, Pin(keys) \/ Unpin(keys) PROVE RoomInv'
  <2>1. Resident' = Resident /\ Occupied' = Occupied /\ UNCHANGED <<older, free_slots, active_slots>>
    BY <1>5 DEF Pin, Unpin, Resident, Occupied
  <2> QED
    BY <1>1, <2>1 DEF RoomInv
<1>6. ASSUME NEW k \in Experts PROVE ~Retain(k)
  BY DEF Retain, Rejected
<1> QED
  BY <1>2, <1>3, <1>4, <1>5, <1>6 DEF UseCache, Fetch

(* Shrinking sheds enough: the oldest candidates go, and there are enough, *)
(* because the new size leaves room for what is pinned.                    *)
LEMMA ShedIsEnough ==
  ASSUME CacheInv, InARow(older, Resident), NEW n \in Int
  PROVE  Cardinality(Resident \ Shed(NewSize(n))) <= NewSize(n)
<1> DEFINE size == NewSize(n)
           residents == Cardinality(Resident)
           some == Cardinality(Candidates)
           held == Resident \cap pinned_keys
           stay == Candidates \ Shed(size)
<1>1. size \in 1 .. NumSlots /\ size >= Cardinality(pinned_keys)
  <2>1. size \in 1 .. NumSlots
    BY NewSizeInRange
  <2>2. size >= Cardinality(pinned_keys)
    BY ResidentsAreFinite, PinnedAreCounted, FS_EmptySet, CacheAssumption
    DEF CacheInv, NewSize, Larger, Smaller
  <2> QED
    BY <2>1, <2>2
<1> HIDE DEF size
<1>2. /\ IsFiniteSet(Resident) /\ residents \in Nat
      /\ Candidates \in SUBSET Resident /\ IsFiniteSet(Candidates) /\ some \in Nat
      /\ held \in SUBSET pinned_keys /\ IsFiniteSet(held) /\ Cardinality(held) \in Nat
      /\ Cardinality(held) <= Cardinality(pinned_keys) /\ Cardinality(pinned_keys) \in Nat
  <2>1. Candidates \in SUBSET Resident /\ held \in SUBSET pinned_keys
    BY DEF Candidates
  <2> QED
    BY <2>1, ResidentsAreFinite, FS_Subset, FS_CardinalityType
<1>3. residents = Cardinality(held) + some
  <2>1. Resident = held \cup Candidates /\ held \cap Candidates = {}
    BY DEF Candidates
  <2>2. Cardinality(held \cup Candidates) = Cardinality(held) + some - Cardinality(held \cap Candidates)
    BY <1>2, FS_Union
  <2>3. Cardinality(held \cap Candidates) = 0
    BY <2>1, FS_EmptySet
  <2>4. residents = Cardinality(held \cup Candidates)
    BY <2>1
  <2> HIDE DEF held, some, residents
  <2> QED
    BY <1>2, <2>2, <2>3, <2>4
<1>4. CASE residents <= size
  <2>1. Resident \ Shed(size) \in SUBSET Resident
    OBVIOUS
  <2>2. Cardinality(Resident \ Shed(size)) <= residents
        /\ Cardinality(Resident \ Shed(size)) \in Nat
    BY <1>2, <2>1, FS_Subset, FS_CardinalityType
  <2> QED
    BY <1>1, <1>2, <1>4, <2>2 DEF size
<1>5. CASE residents > size
  <2>1. residents - size \in Nat /\ residents - size <= some
    BY <1>1, <1>2, <1>3, <1>5
  <2>2. InARow(older, Candidates)
    BY <1>2 DEF InARow
  <2>3. Cardinality({k \in Candidates :
            ~(Cardinality({l \in Candidates : <<l, k>> \in older}) < residents - size)})
          <= some - (residents - size)
    BY <1>2, <2>1, <2>2, TheRestIsLess
  <2>4. stay = {k \in Candidates :
            ~(Cardinality({l \in Candidates : <<l, k>> \in older}) < residents - size)}
    BY DEF Shed
  <2>5. IsFiniteSet(stay) /\ Cardinality(stay) \in Nat
        /\ Cardinality(stay) <= some - (residents - size)
    <3>1. stay \in SUBSET Candidates
      OBVIOUS
    <3> QED
      BY <1>2, <2>3, <2>4, <3>1, FS_Subset, FS_CardinalityType
  <2>6. Resident \ Shed(size) = held \cup stay /\ held \cap stay = {}
    BY DEF Shed, Candidates
  <2>7. Cardinality(held \cup stay) = Cardinality(held) + Cardinality(stay) - Cardinality(held \cap stay)
    BY <1>2, <2>5, FS_Union
  <2>8. Cardinality(held \cap stay) = 0
    BY <2>6, FS_EmptySet
  <2>9. Cardinality(Resident \ Shed(size)) = Cardinality(held) + Cardinality(stay)
    BY <1>2, <2>5, <2>6, <2>7, <2>8
  <2> HIDE DEF stay, held, some, residents
  <2> QED
    BY <1>1, <1>2, <1>3, <2>5, <2>9 DEF size
<1> QED
  BY <1>1, <1>2, <1>4, <1>5

LEMMA ResizeKeepsRoom ==
  ASSUME RoomInv, NEW n \in Int, ResizeActiveSlots(n)
  PROVE  RoomInv'
<1>1. CacheInv /\ CacheInv'
  BY ResizeKeepsCache DEF RoomInv
<1>2. Resident' = Resident \ Shed(NewSize(n))
  BY DEF ResizeActiveSlots, Resident, Shed, Candidates
<1>3. InARow(older, Resident)'
  <2>1. \A i, j \in Resident' : <<i, j>> \in older' <=> <<i, j>> \in older
    BY DEF ResizeActiveSlots
  <2> QED
    BY <1>2, <2>1 DEF InARow, RoomInv
<1>4. Cardinality(Resident') <= active_slots'
  BY <1>2, ShedIsEnough DEF ResizeActiveSlots, RoomInv
<1>5. free_slots' = (0 .. active_slots' - 1) \ Occupied'
  BY DEF ResizeActiveSlots
<1> QED
  BY <1>1, <1>3, <1>4, <1>5 DEF RoomInv

LEMMA RoomInvMakesRoom ==
  ASSUME RoomInv
  PROVE  RoomIsUsable
<1> SUFFICES ASSUME Cardinality(Resident) < active_slots, free_slots = {} PROVE FALSE
  BY DEF RoomInv, RoomIsUsable
<1>1. /\ IsFiniteSet(Resident) /\ Cardinality(Resident) \in Nat
      /\ active_slots \in Nat \ {0}
  BY ResidentsAreFinite, CacheAssumption DEF RoomInv
<1>2. IsFiniteSet(0 .. active_slots - 1) /\ Cardinality(0 .. active_slots - 1) = active_slots
  <2>1. active_slots - 1 \in Int /\ 0 <= (active_slots - 1) + 1
    BY <1>1
  <2>2. /\ IsFiniteSet(0 .. active_slots - 1)
        /\ Cardinality(0 .. active_slots - 1) = (active_slots - 1) - 0 + 1
    BY <2>1, IntervalSize
  <2> QED
    BY <1>1, <2>2
<1>3. \A s \in 0 .. active_slots - 1 : \E k \in Resident : slot[k] = s
  BY DEF RoomInv, Occupied
<1> DEFINE holder == [s \in 0 .. active_slots - 1 |-> CHOOSE k \in Resident : slot[k] = s]
<1>4. holder \in Injection(0 .. active_slots - 1, Resident)
  <2>1. \A s \in 0 .. active_slots - 1 : holder[s] \in Resident /\ slot[holder[s]] = s
    BY <1>3
  <2> QED
    BY <2>1 DEF Injection, IsInjective
<1>5. active_slots <= Cardinality(Resident)
  BY <1>1, <1>2, <1>4, FS_Injection
<1> QED
  BY <1>1, <1>5

(* Under the LRU policy there are never more residents than active slots,  *)
(* and below that a miss finds a free slot: however the capacity is shrunk *)
(* and grown, whatever is pinned, and for any number of experts and slots  *)
(* (resize_active_slots, allocate_or_evict_slot).                          *)
THEOREM LruRoomIsUsable ==
  ASSUME Policy = "lru"
  PROVE  PlaneSpec => []RoomIsUsable
<1>1. PlaneInit => RoomInv
  <2> SUFFICES ASSUME PlaneInit PROVE RoomInv
    OBVIOUS
  <2>1. CacheInv
    BY PlaneInvInductive DEF PlaneInv
  <2>2. Resident = {} /\ Occupied = {} /\ Cardinality(Resident) = 0
    BY FS_EmptySet DEF PlaneInit, CacheInit, Resident, Occupied
  <2> QED
    BY <2>1, <2>2, CacheAssumption DEF PlaneInit, CacheInit, RoomInv, InARow, Slots
<1>2. ASSUME RoomInv, PagesInv, [PlaneNext]_planeVars PROVE RoomInv'
  <2>1. CASE UseCache
    BY <1>2, <2>1, UseKeepsRoom
  <2>2. CASE UNCHANGED cacheVars
    <3>1. UNCHANGED <<Resident, Occupied>>
      BY <2>2 DEF cacheVars, Resident, Occupied
    <3> QED
      BY <1>2, <2>2, <3>1 DEF cacheVars, RoomInv, CacheInv, CacheTypeOK, HitServesItsWeights
  <2>3. CASE \E needed \in 0 .. MaxNeeded : EvaluateAndRebalance(needed)
    <3>1. \E n \in Int : ResizeActiveSlots(n)
      BY <1>2, <2>3, RebalanceResizesCache DEF RoomInv, CacheInv, PagesInv
    <3> QED
      BY <1>2, <3>1, ResizeKeepsRoom
  <2> QED
    BY <1>2, <2>1, <2>2, <2>3 DEF PlaneNext, planeVars
<1>3. PlaneInv => PagesInv
  BY DEF PlaneInv
<1> QED
  BY <1>1, <1>2, <1>3, PlaneInvInductive, RoomInvMakesRoom, PTL DEF PlaneSpec

-----------------------------------------------------------------------------
(* What holds under both policies: types, and pins that fit the buffers.   *)
TypesInv ==
  /\ PagesInv
  /\ CacheTypeOK
  /\ Cardinality(pinned_keys) <= NumSlots

(* Whatever a fetch does, the newcomer gets a slot of the buffers and, but *)
(* for one victim, everybody keeps theirs.                                 *)
LEMMA FetchMovesOne ==
  ASSUME CacheTypeOK, NEW k \in Experts, Fetch(k)
  PROVE  /\ slot' \in [Experts -> Slots \cup {NoSlot}]
         /\ k \in Resident' /\ slot'[k] \in Slots
         /\ free_slots' \subseteq Slots
         /\ \A l \in Resident \ Resident' : l \in Victims /\ Replace(k)
<1>1. CASE TakeFree(k)
  BY <1>1, CacheAssumption DEF TakeFree, CacheTypeOK, Resident, Slots
<1>2. CASE Replace(k)
  <2>1. PICK v \in Victims : slot' = [slot EXCEPT ![v] = NoSlot, ![k] = slot[v]]
    BY <1>2 DEF Replace
  <2>2. v \in Resident /\ v # k /\ v \in Experts
    BY VictimsAreResident DEF Fetch, Resident
  <2>3. slot[v] \in Slots /\ slot'[k] = slot[v] /\ slot' \in [Experts -> Slots \cup {NoSlot}]
    BY <2>1, <2>2 DEF CacheTypeOK, Resident
  <2>4. \A l \in Resident \ {v} : slot'[l] # NoSlot
    BY <2>1, <2>2, <2>3, CacheAssumption DEF CacheTypeOK, Resident, Slots
  <2> QED
    BY <1>2, <2>2, <2>3, <2>4, CacheAssumption DEF Replace, CacheTypeOK, Resident, Slots
<1>3. CASE Retain(k)
  <2>1. PICK v \in Victims : slot' = [slot EXCEPT ![k] = slot[v]]
    BY <1>3 DEF Retain
  <2>2. v \in Resident /\ slot[v] \in Slots
    BY VictimsAreResident DEF CacheTypeOK, Resident
  <2> QED
    BY <1>3, <2>1, <2>2, CacheAssumption DEF Retain, CacheTypeOK, Resident, Slots
<1> QED
  BY <1>1, <1>2, <1>3 DEF Fetch

LEMMA UseKeepsTypes ==
  ASSUME CacheTypeOK, Cardinality(pinned_keys) <= NumSlots, UseCache
  PROVE  CacheTypeOK' /\ Cardinality(pinned_keys') <= NumSlots
<1>1. ASSUME NEW k \in Experts, Hit(k) PROVE CacheTypeOK' /\ pinned_keys' = pinned_keys
  <2>1. Resident' = Resident
    BY <1>1 DEF Hit, Resident
  <2> QED
    BY <1>1, <2>1, TouchTypes DEF Hit, CacheTypeOK
<1>2. ASSUME NEW k \in Experts, Fetch(k) PROVE CacheTypeOK' /\ pinned_keys' = pinned_keys
  <2>1. older' \subseteq Resident' \X Resident' /\ access_heat' \in [Experts -> 0 .. MaxHeat]
    BY <1>2, FetchMovesOne, TouchTypes DEF Fetch
  <2>2. content' \in [Slots -> Experts \cup {NoExpert}]
    BY <1>2, FetchMovesOne DEF Fetch, CacheTypeOK
  <2> QED
    BY <1>2, <2>1, <2>2, FetchMovesOne DEF Fetch, CacheTypeOK
<1>3. ASSUME NEW keys \in SUBSET Experts, Pin(keys) \/ Unpin(keys)
      PROVE  CacheTypeOK' /\ Cardinality(pinned_keys') <= NumSlots
  <2>1. CacheTypeOK'
    BY <1>3 DEF Pin, Unpin, CacheTypeOK, Resident
  <2>2. IsFiniteSet(pinned_keys)
    BY CacheAssumption, FS_Subset DEF CacheTypeOK
  <2>3. /\ Cardinality(pinned_keys \ keys) <= Cardinality(pinned_keys)
        /\ Cardinality(pinned_keys \ keys) \in Nat /\ Cardinality(pinned_keys) \in Nat
    BY <2>2, FS_Subset, FS_CardinalityType
  <2>4. Cardinality(pinned_keys \ keys) <= NumSlots
    BY <2>3, CacheAssumption
  <2> QED
    BY <1>3, <2>1, <2>4 DEF Pin, Unpin
<1> QED
  BY <1>1, <1>2, <1>3 DEF UseCache

LEMMA SizeInRange ==
  ASSUME CacheTypeOK, Cardinality(pinned_keys) <= NumSlots, NEW n \in Int
  PROVE  NewSize(n) \in 1 .. NumSlots
BY PinnedAreCounted, CacheAssumption DEF NewSize, Larger, Smaller

LEMMA ResizeKeepsTypes ==
  ASSUME CacheTypeOK, Cardinality(pinned_keys) <= NumSlots, NEW n \in Int,
         ResizeActiveSlots(n)
  PROVE  CacheTypeOK' /\ Cardinality(pinned_keys') <= NumSlots
<1>1. NewSize(n) \in 1 .. NumSlots
  BY SizeInRange
<1>2. Resident' \subseteq Resident
  BY DEF ResizeActiveSlots, Resident
<1> QED
  BY <1>1, <1>2, CacheAssumption DEF ResizeActiveSlots, CacheTypeOK, Slots

LEMMA TypesInvInductive ==
  /\ PlaneInit => TypesInv
  /\ TypesInv /\ [PlaneNext]_planeVars => TypesInv'
<1>1. ASSUME PlaneInit PROVE TypesInv
  <2>1. PagesInv
    BY <1>1, PagesAssumption
    DEF PlaneInit, PagesInit, PagesInv, PagesTypeOK, PagesAccounted, Allocated
  <2>2. Resident = {} /\ Cardinality(pinned_keys) = 0
    BY <1>1, FS_EmptySet DEF PlaneInit, CacheInit, Resident
  <2>3. CacheTypeOK
    BY <1>1, <2>2, CacheAssumption DEF PlaneInit, CacheInit, CacheTypeOK, Slots
  <2> QED
    BY <2>1, <2>2, <2>3, CacheAssumption DEF TypesInv
<1>2. ASSUME TypesInv, [PlaneNext]_planeVars PROVE TypesInv'
  <2>1. CASE UseCache /\ UNCHANGED poolVars
    <3>1. PagesInv'
      BY <1>2, <2>1
      DEF TypesInv, PagesInv, PagesTypeOK, PagesAccounted, Allocated, poolVars
    <3> QED
      BY <1>2, <2>1, <3>1, UseKeepsTypes DEF TypesInv
  <2>2. CASE UsePages /\ UNCHANGED cacheVars
    <3>1. CacheTypeOK' /\ pinned_keys' = pinned_keys
      BY <1>2, <2>2 DEF TypesInv, CacheTypeOK, Resident, cacheVars
    <3> QED
      BY <1>2, <2>2, <3>1, UseKeepsPages DEF TypesInv
  <2>3. CASE \E needed \in 0 .. MaxNeeded : EvaluateAndRebalance(needed)
    <3>1. PagesInv'
      BY <1>2, <2>3, RebalanceAdjustsPages, AdjustKeepsPages DEF TypesInv
    <3>2. \E n \in Int : ResizeActiveSlots(n)
      BY <1>2, <2>3, RebalanceResizesCache DEF TypesInv, PagesInv
    <3> QED
      BY <1>2, <3>1, <3>2, ResizeKeepsTypes DEF TypesInv
  <2>4. CASE UNCHANGED planeVars
    BY <1>2, <2>4
    DEF TypesInv, PagesInv, PagesTypeOK, PagesAccounted, Allocated, CacheTypeOK,
        Resident, planeVars, cacheVars, poolVars
  <2> QED
    BY <1>2, <2>1, <2>2, <2>3, <2>4 DEF PlaneNext
<1> QED
  BY <1>1, <1>2

(* One pinned expert, and a step of the cache.                             *)
LEMMA FetchSparesPinned ==
  ASSUME CacheTypeOK, NEW k \in Experts, Fetch(k),
         NEW l \in Resident \cap pinned_keys, l \notin Resident'
  PROVE  Resident \subseteq pinned_keys
<1>1. l \in Victims
  BY FetchMovesOne
<1>2. Candidates = {}
  BY <1>1 DEF Victims, Coldest, Oldest, Candidates
<1> QED
  BY <1>2 DEF Candidates

LEMMA ResizeSparesPinned ==
  ASSUME CacheTypeOK, NEW n \in Int, ResizeActiveSlots(n), NEW l \in Resident \cap pinned_keys
  PROVE  l \in Resident'
BY DEF ResizeActiveSlots, Shed, Candidates, Resident, CacheTypeOK

(* Under both policies, a pinned expert leaves the cache only when all     *)
(* residents are pinned and one more is fetched; no rebalance evicts one   *)
(* (pin_experts, allocate_or_evict_slot, resize_active_slots).             *)
THEOREM PinsHold == PlaneSpec => PinnedStay
<1> DEFINE Spares ==
      \A k \in Resident \cap pinned_keys : k \in Resident' \/ Resident \subseteq pinned_keys
<1>1. TypesInv /\ [PlaneNext]_planeVars => [Spares]_cacheVars
  <2> SUFFICES ASSUME TypesInv, [PlaneNext]_planeVars, cacheVars' # cacheVars PROVE Spares
    OBVIOUS
  <2>1. CacheTypeOK
    BY DEF TypesInv
  <2>2. CASE UseCache
    <3>1. ASSUME NEW k \in Experts, Hit(k) PROVE Spares
      BY <3>1 DEF Hit, Resident
    <3>2. ASSUME NEW k \in Experts, Fetch(k) PROVE Spares
      BY <2>1, <3>2, FetchSparesPinned
    <3>3. ASSUME NEW keys \in SUBSET Experts, Pin(keys) \/ Unpin(keys) PROVE Spares
      BY <3>3 DEF Pin, Unpin, Resident
    <3> QED
      BY <2>2, <3>1, <3>2, <3>3 DEF UseCache
  <2>3. CASE \E needed \in 0 .. MaxNeeded : EvaluateAndRebalance(needed)
    <3>1. \E n \in Int : ResizeActiveSlots(n)
      BY <2>3, RebalanceResizesCache DEF TypesInv, PagesInv
    <3> QED
      BY <2>1, <3>1, ResizeSparesPinned
  <2> QED
    BY <2>2, <2>3 DEF PlaneNext, planeVars
<1> QED
  BY <1>1, TypesInvInductive, PTL DEF PlaneSpec, PinnedStay

-----------------------------------------------------------------------------
(* Rounding down gives no more than there is, rounding up no less.         *)
LEMMA Roundings ==
  ASSUME NEW m \in Nat, NEW n \in Nat \ {0}
  PROVE  /\ m \div n \in Nat /\ (m \div n) * n <= m
         /\ CeilingDiv(m, n) \in Nat /\ CeilingDiv(m, n) * n >= m
<1>1. ASSUME NEW i \in Nat
      PROVE  /\ i \div n \in Nat /\ (i \div n) * n <= i
             /\ i < (i \div n) * n + n
  BY <1>1
<1>2. m + n - 1 \in Nat
  OBVIOUS
<1>3. (m + n - 1) \div n \in Nat /\ m + n - 1 < ((m + n - 1) \div n) * n + n
  BY <1>1, <1>2
<1>4. ((m + n - 1) \div n) * n \in Nat
  BY <1>3
<1> QED
  BY <1>1, <1>3, <1>4 DEF CeilingDiv

LEMMA MoreIsMore ==
  ASSUME NEW i \in Int, NEW j \in Int, i <= j, NEW n \in Nat
  PROVE  i * n <= j * n
OBVIOUS

(* A trade from a slots and p pages to b and q, for which y slots are      *)
(* given up and d pages are gained, is paid when y slots are worth d pages.*)
Paid(a, b, p, q, y, d) ==
  /\ {a, b, p, q, y, d} \subseteq Int
  /\ b <= a - y /\ q <= p + d
  /\ y * SlotBytes >= d * PageBytes

LEMMA PaidTrades ==
  ASSUME NEW a, NEW b, NEW p, NEW q, NEW y, NEW d, Paid(a, b, p, q, y, d)
  PROVE  b * SlotBytes + q * PageBytes <= a * SlotBytes + p * PageBytes
<1>1. /\ a \in Int /\ b \in Int /\ p \in Int /\ q \in Int /\ y \in Int /\ d \in Int
      /\ SlotBytes \in Nat /\ PageBytes \in Nat
  BY PlaneAssumption DEF Paid
<1>2. b * SlotBytes <= (a - y) * SlotBytes /\ q * PageBytes <= (p + d) * PageBytes
  <2>1. a - y \in Int /\ p + d \in Int /\ b <= a - y /\ q <= p + d
    BY <1>1 DEF Paid
  <2> QED
    BY <1>1, <2>1, MoreIsMore
<1>3. /\ (a - y) * SlotBytes = a * SlotBytes - y * SlotBytes
      /\ (p + d) * PageBytes = p * PageBytes + d * PageBytes
  BY <1>1
<1>4. /\ a * SlotBytes \in Int /\ b * SlotBytes \in Int /\ y * SlotBytes \in Int
      /\ p * PageBytes \in Int /\ q * PageBytes \in Int /\ d * PageBytes \in Int
  BY <1>1
<1> QED
  BY <1>2, <1>3, <1>4 DEF Paid

LEMMA TargetInRange ==
  ASSUME NEW needed \in 0 .. MaxNeeded
  PROVE  TargetPages(needed) \in MinPages .. MaxKVPages
BY PlaneAssumption, PagesAssumption DEF TargetPages, Larger, Smaller, CeilingDiv

(* A size above the minimum and the pins is the size that was asked for,   *)
(* or less.                                                                *)
LEMMA NewSizeAtMost ==
  ASSUME CacheTypeOK, NEW n \in Int, NewSize(n) > Larger(MinSlots, Cardinality(pinned_keys))
  PROVE  NewSize(n) <= n
BY PinnedAreCounted, CacheAssumption, PlaneAssumption DEF NewSize, Larger, Smaller

LEMMA CeilingAtMost ==
  ASSUME NEW n \in Int, NEW m \in Nat, m >= 1, n <= m
  PROVE  Ceiling(n) <= m
BY PagesAssumption DEF Ceiling

LEMMA ExpandTrades ==
  ASSUME CacheTypeOK, PagesTypeOK, NEW target \in Nat, ExpandKV(target),
         active_slots' > Larger(MinSlots, Cardinality(pinned_keys))
  PROVE  Bytes' <= Bytes
<1> DEFINE diff == target - active_max_pages
           y == SlotsToYield(diff)
<1>1. /\ active_slots \in Nat /\ active_max_pages \in Nat \ {0}
      /\ active_slots' \in Int /\ active_max_pages' \in Int
      /\ MinSlots \in Nat /\ SlotBytes \in Nat \ {0} /\ PageBytes \in Nat
      /\ diff \in Nat /\ diff > 0
  <2>1. diff \in Nat /\ diff > 0
    BY DEF ExpandKV, PagesTypeOK
  <2>2. active_max_pages' \in Int
    BY <2>1, PagesAssumption, PlaneAssumption
    DEF ExpandKV, AdjustActiveCapacity, Ceiling, Smaller, PagesTypeOK
  <2>3. active_slots \in Nat /\ SlotBytes \in Nat \ {0} /\ PageBytes \in Nat /\ MinSlots \in Nat
    BY CacheAssumption, PlaneAssumption DEF CacheTypeOK
  <2>4. diff * PageBytes \in Nat
    BY <2>1, <2>3
  <2>5. y \in Int
    BY <2>3, <2>4, Roundings DEF SlotsToYield, Larger
  <2>6. Larger(MinSlots, active_slots - y) \in Int
    BY <2>3, <2>5 DEF Larger
  <2>7. active_slots' \in Int
    <3>1. active_slots' = NewSize(Larger(MinSlots, active_slots - y))
      BY DEF ExpandKV, ResizeActiveSlots
    <3> QED
      BY <2>6, <3>1, PinnedAreCounted, CacheAssumption DEF NewSize, Larger, Smaller
  <2> QED
    BY <2>1, <2>2, <2>3, <2>7 DEF PagesTypeOK
<1>2. y \in Nat /\ y * SlotBytes >= diff * PageBytes
  <2>1. diff * PageBytes \in Nat
    BY <1>1
  <2>2. CeilingDiv(diff * PageBytes, SlotBytes) \in Nat
        /\ CeilingDiv(diff * PageBytes, SlotBytes) * SlotBytes >= diff * PageBytes
    BY <1>1, <2>1, Roundings
  <2>3. y \in Nat /\ y >= CeilingDiv(diff * PageBytes, SlotBytes)
    BY <2>2 DEF SlotsToYield, Larger
  <2>4. CeilingDiv(diff * PageBytes, SlotBytes) * SlotBytes <= y * SlotBytes
    BY <1>1, <2>2, <2>3, MoreIsMore
  <2>5. y * SlotBytes \in Nat /\ CeilingDiv(diff * PageBytes, SlotBytes) * SlotBytes \in Nat
    BY <1>1, <2>2, <2>3
  <2> QED
    BY <2>1, <2>2, <2>3, <2>4, <2>5
<1> HIDE DEF y
<1>3. active_slots' <= active_slots - y
  <2>1. active_slots' = NewSize(Larger(MinSlots, active_slots - y))
    BY DEF ExpandKV, ResizeActiveSlots, y
  <2>2. Larger(MinSlots, active_slots - y) \in Int
    BY <1>1, <1>2 DEF Larger
  <2>3. active_slots' <= Larger(MinSlots, active_slots - y)
    BY <2>1, <2>2, NewSizeAtMost
  <2>4. active_slots' > MinSlots
    BY <1>1, PinnedAreCounted DEF Larger
  <2> QED
    BY <1>1, <1>2, <2>3, <2>4 DEF Larger
<1>4. active_max_pages' <= active_max_pages + diff
  <2>1. Smaller(MaxKVPages, active_max_pages + diff) \in Int
        /\ Smaller(MaxKVPages, active_max_pages + diff) <= active_max_pages + diff
    BY <1>1, PlaneAssumption, PagesAssumption DEF Smaller
  <2>2. active_max_pages + diff \in Nat /\ active_max_pages + diff >= 1
    BY <1>1
  <2> QED
    BY <2>1, <2>2, CeilingAtMost DEF ExpandKV, AdjustActiveCapacity
<1>5. Paid(active_slots, active_slots', active_max_pages, active_max_pages', y, diff)
  BY <1>1, <1>2, <1>3, <1>4 DEF Paid
<1> QED
  BY <1>5, PaidTrades DEF Bytes

LEMMA ReleaseTrades ==
  ASSUME CacheTypeOK, PagesTypeOK, NEW target \in MinPages .. MaxKVPages, ReleaseKV(target),
         active_slots' > Larger(MinSlots, Cardinality(pinned_keys))
  PROVE  Bytes' <= Bytes
<1> DEFINE surplus == active_max_pages - target
           gain == SlotsToGain(surplus)
<1>1. /\ active_slots \in Nat /\ active_max_pages \in Nat /\ target \in Nat \ {0}
      /\ target <= MaxPages /\ SlotBytes \in Nat \ {0} /\ PageBytes \in Nat
      /\ surplus \in Nat
  BY CacheAssumption, PagesAssumption, PlaneAssumption DEF CacheTypeOK, PagesTypeOK, ReleaseKV
<1>2. gain \in Nat /\ gain * SlotBytes <= surplus * PageBytes
  <2>1. surplus * PageBytes \in Nat
    BY <1>1
  <2> QED
    BY <1>1, <2>1, Roundings DEF SlotsToGain
<1> HIDE DEF gain
<1>3. active_slots' \in Int /\ active_slots' <= active_slots + gain
  <2>1. active_slots' = NewSize(Smaller(MaxSlots, active_slots + gain))
    BY DEF ReleaseKV, ResizeActiveSlots, gain
  <2>2. Smaller(MaxSlots, active_slots + gain) \in Int
        /\ Smaller(MaxSlots, active_slots + gain) <= active_slots + gain
    BY <1>1, <1>2, PlaneAssumption, CacheAssumption DEF Smaller
  <2>3. active_slots' \in Int
    BY <2>1, <2>2, PinnedAreCounted, CacheAssumption DEF NewSize, Larger, Smaller
  <2>4. active_slots' <= Smaller(MaxSlots, active_slots + gain)
    BY <2>1, <2>2, NewSizeAtMost
  <2> QED
    BY <1>1, <1>2, <2>2, <2>3, <2>4
<1>4. active_max_pages' = target
  BY <1>1, PagesAssumption, PlaneAssumption
  DEF ReleaseKV, AdjustActiveCapacity, Ceiling, Larger
<1>5. (0 - gain) * SlotBytes = 0 - gain * SlotBytes
      /\ (0 - surplus) * PageBytes = 0 - surplus * PageBytes
      /\ gain * SlotBytes \in Int /\ surplus * PageBytes \in Int
  BY <1>1, <1>2
<1>6. Paid(active_slots, active_slots', active_max_pages, active_max_pages', 0 - gain, 0 - surplus)
  BY <1>1, <1>2, <1>3, <1>4, <1>5 DEF Paid
<1> QED
  BY <1>6, PaidTrades DEF Bytes

(* Trading slots for pages, and pages for slots, creates no memory, for    *)
(* every size of slot and page and every rounding, unless the cache is at  *)
(* its minimum or full of pins (evaluate_and_rebalance).                   *)
THEOREM RebalancingCreatesNothing == PlaneSpec => BytesAreTraded
<1> DEFINE Trades == \/ Bytes' <= Bytes
                     \/ active_slots' <= Larger(MinSlots, Cardinality(pinned_keys))
<1>1. TypesInv /\ [PlaneNext]_planeVars => [Trades]_planeVars
  <2> SUFFICES ASSUME TypesInv, PlaneNext PROVE Trades
    BY DEF planeVars
  <2>1. /\ CacheTypeOK /\ PagesTypeOK
        /\ active_slots \in Nat /\ active_max_pages \in Nat
    BY CacheAssumption, PagesAssumption DEF TypesInv, PagesInv, CacheTypeOK, PagesTypeOK
  <2>2. Bytes \in Nat
    BY <2>1, PlaneAssumption DEF Bytes
  <2>3. CASE UseCache /\ UNCHANGED poolVars
    <3>1. active_slots' = active_slots /\ active_max_pages' = active_max_pages
      BY <2>3 DEF UseCache, Hit, Fetch, Pin, Unpin, poolVars
    <3> QED
      BY <2>2, <3>1 DEF Bytes
  <2>4. CASE UsePages /\ UNCHANGED cacheVars
    <3>1. active_slots' = active_slots /\ active_max_pages' = active_max_pages
      BY <2>4 DEF UsePages, FreePages, AllocatePages, cacheVars
    <3> QED
      BY <2>2, <3>1 DEF Bytes
  <2>5. CASE \E needed \in 0 .. MaxNeeded : EvaluateAndRebalance(needed)
    <3>1. PICK needed \in 0 .. MaxNeeded : EvaluateAndRebalance(needed)
      BY <2>5
    <3>2. TargetPages(needed) \in MinPages .. MaxKVPages /\ TargetPages(needed) \in Nat
      BY <3>1, TargetInRange, PlaneAssumption, PagesAssumption
    <3>3. /\ active_slots' \in Int /\ Larger(MinSlots, Cardinality(pinned_keys)) \in Int
      <4>1. CacheTypeOK'
        BY TypesInvInductive DEF TypesInv
      <4> QED
        BY <2>1, <4>1, PinnedAreCounted, PlaneAssumption, CacheAssumption DEF CacheTypeOK, Larger
    <3>4. CASE active_slots' <= Larger(MinSlots, Cardinality(pinned_keys))
      BY <3>4
    <3>5. CASE active_slots' > Larger(MinSlots, Cardinality(pinned_keys))
      BY <2>1, <3>1, <3>2, <3>5, ExpandTrades, ReleaseTrades DEF EvaluateAndRebalance
    <3> QED
      BY <3>3, <3>4, <3>5
  <2> QED
    BY <2>3, <2>4, <2>5 DEF PlaneNext
<1> QED
  BY <1>1, TypesInvInductive, PTL DEF PlaneSpec, BytesAreTraded

-----------------------------------------------------------------------------
(* MultiModelManager.                                                      *)

(* The bytes of finitely many models are finitely many, so that counting   *)
(* them makes sense.                                                       *)
LEMMA VramIsCounted ==
  ASSUME NEW D, NEW sizes \in [D -> Nat], NEW S \in SUBSET D, IsFiniteSet(S)
  PROVE  /\ IsFiniteSet(UNION {{m} \X (1 .. sizes[m]) : m \in S})
         /\ VramOf(S, sizes) \in Nat
<1>1. ASSUME NEW m \in S PROVE IsFiniteSet({m} \X (1 .. sizes[m]))
  <2>1. sizes[m] \in Nat
    OBVIOUS
  <2>2. IsFiniteSet({m})
    BY FS_Singleton
  <2>3. IsFiniteSet(1 .. sizes[m])
    BY <2>1, FS_Interval
  <2> QED
    BY <2>2, <2>3, FS_Product
<1>2. IsFiniteSet({{m} \X (1 .. sizes[m]) : m \in S})
  <2> DEFINE F == [m \in S |-> {m} \X (1 .. sizes[m])]
  <2>1. {{m} \X (1 .. sizes[m]) : m \in S} = {F[m] : m \in S}
    OBVIOUS
  <2>2. F \in Surjection(S, {F[m] : m \in S})
    BY DEF Surjection
  <2> QED
    BY <2>1, <2>2, FS_Surjection
<1>3. IsFiniteSet(UNION {{m} \X (1 .. sizes[m]) : m \in S})
  BY <1>1, <1>2, FS_UNION
<1> QED
  BY <1>3, FS_CardinalityType DEF VramOf

(* Only the estimates of the models that are counted matter.               *)
LEMMA VramAgrees ==
  ASSUME NEW S, NEW sizes, NEW other, \A m \in S : sizes[m] = other[m]
  PROVE  VramOf(S, sizes) = VramOf(S, other)
<1>1. {{m} \X (1 .. sizes[m]) : m \in S} = {{m} \X (1 .. other[m]) : m \in S}
  OBVIOUS
<1> QED
  BY <1>1 DEF VramOf

(* One more model adds its estimate.                                       *)
LEMMA VramOfOneMore ==
  ASSUME NEW D, NEW sizes \in [D -> Nat], NEW S \in SUBSET D, IsFiniteSet(S),
         NEW m \in D \ S
  PROVE  VramOf(S \cup {m}, sizes) = VramOf(S, sizes) + sizes[m]
<1> DEFINE one == {m} \X (1 .. sizes[m])
           rest == UNION {{x} \X (1 .. sizes[x]) : x \in S}
<1>1. UNION {{x} \X (1 .. sizes[x]) : x \in S \cup {m}} = rest \cup one
  OBVIOUS
<1>2. rest \cap one = {}
  OBVIOUS
<1>3. sizes[m] \in Nat
  OBVIOUS
<1>4. IsFiniteSet({m}) /\ Cardinality({m}) = 1
  BY FS_Singleton
<1>5. IsFiniteSet(1 .. sizes[m]) /\ Cardinality(1 .. sizes[m]) = sizes[m]
  <2>1. Cardinality(1 .. sizes[m]) = IF 1 > sizes[m] THEN 0 ELSE sizes[m] - 1 + 1
    BY <1>3, FS_Interval
  <2>2. IsFiniteSet(1 .. sizes[m])
    BY <1>3, FS_Interval
  <2> QED
    BY <1>3, <2>1, <2>2
<1>6. IsFiniteSet(one) /\ Cardinality(one) = Cardinality({m}) * Cardinality(1 .. sizes[m])
  BY <1>4, <1>5, FS_Product
<1>7. Cardinality(one) = sizes[m]
  BY <1>3, <1>4, <1>5, <1>6
<1>8. IsFiniteSet(rest) /\ VramOf(S, sizes) \in Nat
  BY VramIsCounted
<1>9. VramOf(S, sizes) = Cardinality(rest)
  BY DEF VramOf
<1>10. VramOf(S \cup {m}, sizes) = Cardinality(rest \cup one)
  BY <1>1 DEF VramOf
<1> HIDE DEF one, rest
<1>11. Cardinality(rest \cup one) = Cardinality(rest) + Cardinality(one) - Cardinality({})
  BY <1>2, <1>6, <1>8, FS_Union
<1>12. Cardinality({}) = 0
  BY FS_EmptySet
<1> QED
  BY <1>3, <1>7, <1>8, <1>9, <1>10, <1>11, <1>12

(* One model fewer takes its estimate off.                                 *)
LEMMA VramOfOneFewer ==
  ASSUME NEW D, NEW sizes \in [D -> Nat], NEW S \in SUBSET D, IsFiniteSet(S), NEW m \in S
  PROVE  /\ Minus(VramOf(S, sizes), sizes[m]) = VramOf(S \ {m}, sizes)
         /\ IsFiniteSet(S \ {m})
<1> DEFINE T == S \ {m}
<1>1. T \in SUBSET D /\ m \in D \ T /\ S = T \cup {m}
  OBVIOUS
<1>2. IsFiniteSet(T)
  BY FS_Subset
<1> HIDE DEF T
<1>3. VramOf(T, sizes) \in Nat
  BY <1>1, <1>2, VramIsCounted
<1>4. VramOf(S, sizes) = VramOf(T, sizes) + sizes[m]
  BY <1>1, <1>2, VramOfOneMore
<1>5. sizes[m] \in Nat
  OBVIOUS
<1> DEFINE a == VramOf(T, sizes) b == sizes[m]
<1>6. Minus(a + b, b) = a
  <2>1. a \in Nat /\ b \in Nat
    BY <1>3, <1>5
  <2> HIDE DEF a, b
  <2> QED
    BY <2>1 DEF Minus
<1> QED
  BY <1>2, <1>4, <1>6 DEF T

(* A difference that is cut off at zero is a natural number.               *)
LEMMA MinusIsNat ==
  ASSUME NEW a \in Nat, NEW b \in Nat
  PROVE  Minus(a, b) \in Nat
BY DEF Minus

-----------------------------------------------------------------------------
(* The estimates are sizes and a resident model is in the LRU order, which *)
(* has no model twice; and the running sum is that of the resident models  *)
(* as long as none was registered again after it was used.                 *)
ModelsInv ==
  /\ registry \in [DOMAIN registry -> Nat]
  /\ loaded \subseteq DOMAIN registry /\ IsFiniteSet(loaded)
  /\ lru \in Seq(Models) /\ Injective(lru) /\ loaded \subseteq Items(lru)
  /\ allocatedVram \in Nat
  /\ driftedVram \in BOOLEAN
  /\ ~driftedVram => allocatedVram = VramOf(loaded, registry)

(* Evicting victims one after the other keeps the running sum that of what *)
(* is left, whatever it was before.                                        *)
LEMMA EvictingKeepsTheSum ==
  ASSUME NEW victims \in Seq(Models), Injective(victims), Items(victims) \subseteq loaded,
         registry \in [DOMAIN registry -> Nat], loaded \subseteq DOMAIN registry,
         IsFiniteSet(loaded), allocatedVram \in Nat
  PROVE  \A i \in 0 .. Len(victims) :
           /\ AfterEvicting(victims)[i] \in Nat
           /\ allocatedVram = VramOf(loaded, registry) =>
                AfterEvicting(victims)[i]
                  = VramOf({x \in loaded : \A k \in 1 .. i : x # victims[k]}, registry)
<1> DEFINE n == Len(victims)
           base == allocatedVram
           size(i) == registry[victims[i]]
           step == [pair \in (1 .. n) \X Nat |-> Minus(pair[2], size(pair[1]))]
           IsLeft(f) == f = [i \in 0 .. n |-> IF i = 0 THEN base ELSE Minus(f[i - 1], size(i))]
           left == CHOOSE f : IsLeft(f)
           Rest(i) == {x \in loaded : \A k \in 1 .. i : x # victims[k]}
<1>1. n \in Nat /\ base \in Nat /\ \A i \in 1 .. n : victims[i] \in loaded /\ size(i) \in Nat
  BY DEF Items
<1>2. AfterEvicting(victims) = left
  BY DEF AfterEvicting
<1>0. \A i \in 1 .. n : size(i) = registry[victims[i]]
  OBVIOUS
<1> HIDE DEF n, base, size
<1>3. step \in [(1 .. n) \X Nat -> Nat] /\ \A i \in 1 .. n, v \in Nat : step[<<i, v>>] = Minus(v, size(i))
  BY <1>1, MinusIsNat
<1> HIDE DEF step
<1>4. PICK f \in [0 .. n -> Nat] : Steps(f, n, base, step)
  BY <1>1, <1>3, StepwiseFunction
<1>5. f[0] = base /\ \A i \in 1 .. n : f[i] = Minus(f[i - 1], size(i))
  <2>1. \A i \in 1 .. n : f[i - 1] \in Nat
    BY <1>1
  <2> QED
    BY <1>3, <1>4, <2>1 DEF Steps
<1>6. IsLeft(f)
  <2>1. \A i \in 0 .. n : f[i] = IF i = 0 THEN base ELSE Minus(f[i - 1], size(i))
    BY <1>1, <1>5
  <2> QED
    BY <2>1
<1>7. IsLeft(left)
  <2> HIDE DEF IsLeft
  <2> QED
    BY <1>6
<1>8. left = [i \in 0 .. n |-> IF i = 0 THEN base ELSE Minus(left[i - 1], size(i))]
  BY <1>7
<1> HIDE DEF left, IsLeft
<1> DEFINE P == {i \in 0 .. n : /\ left[i] \in Nat
                                /\ allocatedVram = VramOf(loaded, registry) =>
                                     left[i] = VramOf(Rest(i), registry)}
<1>9. 0 \in P
  <2>1. left[0] = base /\ 0 \in 0 .. n
    BY <1>1, <1>8
  <2>2. Rest(0) = loaded
    OBVIOUS
  <2> HIDE DEF Rest
  <2> QED
    BY <1>1, <2>1, <2>2 DEF base
<1>10. ASSUME NEW i \in 0 .. n - 1, i \in P PROVE i + 1 \in P
  <2>1. i + 1 \in 1 .. n /\ (i + 1) - 1 = i /\ i + 1 \in 0 .. n /\ i + 1 # 0
    <3>1. n \in Nat
      BY <1>1
    <3> HIDE DEF P
    <3> QED
      BY <3>1
  <2>2. left[i + 1] = Minus(left[i], size(i + 1))
    BY <1>8, <2>1
  <2>3. left[i] \in Nat /\ size(i + 1) \in Nat
    BY <1>1, <1>10, <2>1
  <2>4. left[i + 1] \in Nat
    BY <2>2, <2>3, MinusIsNat
  <2>5. ASSUME allocatedVram = VramOf(loaded, registry)
        PROVE  left[i + 1] = VramOf(Rest(i + 1), registry)
    <3>1. left[i] = VramOf(Rest(i), registry)
      BY <1>10, <2>5
    <3>2. victims[i + 1] \in Rest(i)
      <4>1. \A k \in 1 .. i : victims[i + 1] # victims[k]
        <5>1. \A k \in 1 .. i : k \in DOMAIN victims /\ i + 1 \in DOMAIN victims /\ k # i + 1
          BY <1>1, <2>1 DEF n
        <5> QED
          BY <5>1 DEF Injective
      <4> QED
        BY <1>1, <2>1, <4>1
    <3>3. Rest(i + 1) = Rest(i) \ {victims[i + 1]}
      <4>1. 1 .. i + 1 = (1 .. i) \cup {i + 1}
        BY <1>1
      <4> QED
        BY <4>1
    <3>4. Rest(i) \in SUBSET DOMAIN registry /\ Rest(i) \in SUBSET loaded
      OBVIOUS
    <3>5. IsFiniteSet(Rest(i))
      BY <3>4, FS_Subset
    <3>6. size(i + 1) = registry[victims[i + 1]]
      BY <1>0, <2>1
    <3> HIDE DEF Rest
    <3>7. Minus(VramOf(Rest(i), registry), registry[victims[i + 1]])
            = VramOf(Rest(i) \ {victims[i + 1]}, registry)
      BY <3>2, <3>4, <3>5, VramOfOneFewer
    <3> QED
      BY <2>2, <3>1, <3>3, <3>6, <3>7
  <2> HIDE DEF Rest
  <2> QED
    BY <2>1, <2>4, <2>5
<1> HIDE DEF P
<1>11. 0 .. n \subseteq P
  BY <1>1, <1>9, <1>10, InductionOnSets
<1>12. \A i \in 0 .. n : /\ left[i] \in Nat
                         /\ allocatedVram = VramOf(loaded, registry) =>
                              left[i] = VramOf(Rest(i), registry)
  BY <1>11 DEF P
<1> QED
  BY <1>2, <1>12 DEF n

-----------------------------------------------------------------------------
(* The invariant holds when no model is registered.                        *)
LEMMA ModelsInitInv == ModelsInit => ModelsInv
<1> SUFFICES ASSUME ModelsInit PROVE ModelsInv
  OBVIOUS
<1>1. registry \in [DOMAIN registry -> Nat] /\ lru \in Seq(Models)
  BY DEF ModelsInit
<1>2. Injective(lru) /\ Items(lru) = {}
  BY NoItems DEF ModelsInit
<1>3. IsFiniteSet(loaded) /\ VramOf(loaded, registry) = 0
  <2>1. UNION {{m} \X (1 .. registry[m]) : m \in {}} = {}
    OBVIOUS
  <2> QED
    BY <2>1, FS_EmptySet DEF ModelsInit, VramOf
<1> QED
  BY <1>1, <1>2, <1>3 DEF ModelsInit, ModelsInv

(* What the registry is once m is registered.                              *)
LEMMA RegisteredOne ==
  ASSUME registry \in [DOMAIN registry -> Nat], NEW m, NEW size \in Nat
  PROVE  /\ Registered(m, size) \in [DOMAIN registry \cup {m} -> Nat]
         /\ DOMAIN Registered(m, size) = DOMAIN registry \cup {m}
         /\ Registered(m, size)[m] = size
         /\ \A x \in DOMAIN registry \ {m} : Registered(m, size)[x] = registry[x]
BY DEF Registered

(* The list with m at its end.                                             *)
LEMMA AppendedItem ==
  ASSUME NEW s \in Seq(Models), Injective(s), NEW m \in Models \ Items(s)
  PROVE  /\ Append(s, m) \in Seq(Models) /\ Injective(Append(s, m))
         /\ Items(Append(s, m)) = Items(s) \cup {m}
<1>1. Append(s, m) = s \o <<m>> /\ <<m>> \in Seq(Models)
  OBVIOUS
<1>2. Items(<<m>>) = {m} /\ Injective(<<m>>)
  BY OneItem
<1>3. Items(s) \cap {m} = {}
  OBVIOUS
<1> DEFINE one == <<m>>
<1>4. one \in Seq(Models) /\ Items(one) = {m} /\ Injective(one) /\ Items(s) \cap Items(one) = {}
  BY <1>1, <1>2, <1>3
<1>5. Append(s, m) = s \o one
  BY <1>1
<1> HIDE DEF one
<1>6. s \o one \in Seq(Models) /\ Injective(s \o one) /\ Items(s \o one) = Items(s) \cup Items(one)
  BY <1>4, JoinItems
<1> QED
  BY <1>4, <1>5, <1>6

(* Registering a model keeps the invariant.                                *)
LEMMA RegisterKeepsModels ==
  ASSUME ModelsInv, NEW m \in Models, NEW size \in VramSizes, NEW withRunner \in BOOLEAN,
         RegisterModel(m, size, withRunner)
  PROVE  ModelsInv'
<1> DEFINE enters == withRunner /\ m \notin ToSet(lru)
<1>1. /\ registry \in [DOMAIN registry -> Nat]
      /\ loaded \subseteq DOMAIN registry /\ IsFiniteSet(loaded)
      /\ lru \in Seq(Models) /\ Injective(lru) /\ loaded \subseteq Items(lru)
      /\ allocatedVram \in Nat
      /\ driftedVram \in BOOLEAN
      /\ ~driftedVram => allocatedVram = VramOf(loaded, registry)
  BY DEF ModelsInv
<1>2. size \in Nat
  BY ModelsAssumption
<1>3. ToSet(lru) = Items(lru)
  BY DEF ToSet, Items
<1>4. /\ registry' = Registered(m, size)
      /\ loaded' = IF withRunner THEN loaded \cup {m} ELSE loaded \ {m}
      /\ lru' = IF enters THEN Append(lru, m) ELSE lru
      /\ allocatedVram' = allocatedVram + (IF enters THEN size ELSE 0)
      /\ driftedVram' = (driftedVram \/ m \in Items(lru))
  BY <1>3 DEF RegisterModel
<1>5. /\ registry' \in [DOMAIN registry \cup {m} -> Nat]
      /\ DOMAIN registry' = DOMAIN registry \cup {m}
      /\ registry'[m] = size
      /\ \A x \in DOMAIN registry \ {m} : registry'[x] = registry[x]
  <2>1. registry' = Registered(m, size)
    BY <1>4
  <2>2. registry \in [DOMAIN registry -> Nat]
    BY <1>1
  <2>3. /\ Registered(m, size) \in [DOMAIN registry \cup {m} -> Nat]
        /\ DOMAIN Registered(m, size) = DOMAIN registry \cup {m}
        /\ Registered(m, size)[m] = size
        /\ \A x \in DOMAIN registry \ {m} : Registered(m, size)[x] = registry[x]
    BY <1>2, <2>2, RegisteredOne
  <2> QED
    BY <2>1, <2>3
<1>6. IsFiniteSet(loaded')
  <2>1. IsFiniteSet(loaded \cup {m})
    BY <1>1, FS_AddElement
  <2>2. IsFiniteSet(loaded \ {m})
    BY <1>1, FS_RemoveElement
  <2> QED
    BY <1>4, <2>1, <2>2
<1>7. lru' \in Seq(Models) /\ Injective(lru') /\ loaded' \subseteq Items(lru')
  <2>1. CASE enters
    <3>1. m \in Models \ Items(lru)
      BY <1>3, <2>1
    <3>2. Append(lru, m) \in Seq(Models) /\ Injective(Append(lru, m))
          /\ Items(Append(lru, m)) = Items(lru) \cup {m}
      BY <1>1, <3>1, AppendedItem
    <3> QED
      BY <1>1, <1>4, <2>1, <3>2
  <2>2. CASE ~enters
    BY <1>1, <1>3, <1>4, <2>2
  <2> QED
    BY <2>1, <2>2
<1>8. allocatedVram' \in Nat /\ driftedVram' \in BOOLEAN
  BY <1>1, <1>2, <1>4
<1>9. ASSUME ~driftedVram' PROVE allocatedVram' = VramOf(loaded', registry')
  <2>1. ~driftedVram /\ m \notin Items(lru) /\ m \notin loaded
    BY <1>1, <1>4, <1>9
  <2>2. VramOf(loaded, registry) = VramOf(loaded, registry')
    <3>1. \A x \in loaded : registry[x] = registry'[x]
      BY <1>1, <1>5, <2>1
    <3> QED
      BY <3>1, VramAgrees
  <2>3. CASE withRunner
    <3>1. VramOf(loaded \cup {m}, registry') = VramOf(loaded, registry') + registry'[m]
      <4>1. loaded \in SUBSET (DOMAIN registry \cup {m}) /\ m \in (DOMAIN registry \cup {m}) \ loaded
        BY <1>1, <2>1
      <4> QED
        BY <1>1, <1>5, <4>1, VramOfOneMore
    <3> QED
      BY <1>1, <1>3, <1>4, <1>5, <2>1, <2>2, <2>3, <3>1
  <2>4. CASE ~withRunner
    BY <1>1, <1>4, <2>1, <2>2, <2>4
  <2> QED
    BY <2>3, <2>4
<1> QED
  BY <1>1, <1>4, <1>5, <1>6, <1>7, <1>8, <1>9 DEF ModelsInv

(* So does evicting one.                                                   *)
LEMMA EvictKeepsModels ==
  ASSUME ModelsInv, NEW m \in Models, EvictModel(m)
  PROVE  ModelsInv'
<1>1. /\ registry \in [DOMAIN registry -> Nat]
      /\ loaded \subseteq DOMAIN registry /\ IsFiniteSet(loaded)
      /\ allocatedVram \in Nat
      /\ ~driftedVram => allocatedVram = VramOf(loaded, registry)
  BY DEF ModelsInv
<1>2. /\ m \in loaded /\ loaded' = loaded \ {m}
      /\ allocatedVram' = Minus(allocatedVram, registry[m])
      /\ registry' = registry /\ lru' = lru /\ driftedVram' = driftedVram
  BY DEF EvictModel
<1>3. registry[m] \in Nat
  BY <1>1, <1>2
<1>4. allocatedVram' \in Nat
  BY <1>1, <1>2, <1>3, MinusIsNat
<1>5. /\ Minus(VramOf(loaded, registry), registry[m]) = VramOf(loaded \ {m}, registry)
      /\ IsFiniteSet(loaded \ {m})
  BY <1>1, <1>2, VramOfOneFewer
<1>6. ~driftedVram' => allocatedVram' = VramOf(loaded', registry')
  BY <1>1, <1>2, <1>5
<1> QED
  BY <1>1, <1>2, <1>4, <1>5, <1>6 DEF ModelsInv

(* What a load that is not a hit does: the victims that it evicts are used *)
(* before the ones that it keeps, and it stops at the first that makes     *)
(* room, or has evicted every other model.                                 *)
Loaded(m, victims, n) ==
  LET known == IF m \in DOMAIN registry THEN registry ELSE Registered(m, DefaultVram)
      left == AfterEvicting(victims)
  IN /\ victims \in Keeping(lru, loaded \ {m})
     /\ n \in 0 .. Len(victims)
     /\ VramFits(left[n], known[m]) \/ n = Len(victims)
     /\ registry' = known /\ lru' \in Touched(m)
     /\ loaded' = (loaded \ ToSet(SubSeq(victims, 1, n))) \cup {m}
     /\ allocatedVram' = left[n] + known[m]
     /\ driftedVram' = driftedVram

(* Loading takes some models off the card and then adds the new one.       *)
LEMMA LoadingStops ==
  ASSUME ModelsInv, NEW m \in Models \ loaded, GetOrLoadModel(m)
  PROVE  \E victims, n : Loaded(m, victims, n)
<1> DEFINE known == IF m \in DOMAIN registry THEN registry ELSE Registered(m, DefaultVram)
           left(victims) == AfterEvicting(victims)
           enough(victims) == {i \in 0 .. Len(victims) : VramFits(left(victims)[i], known[m])}
           n(victims) == IF enough(victims) = {} THEN Len(victims)
                         ELSE CHOOSE i \in enough(victims) : \A j \in enough(victims) : i <= j
<1>1. lru \in Seq(Models)
  BY DEF ModelsInv
<1>2. PICK victims \in Keeping(lru, loaded \ {m}) :
        /\ registry' = known
        /\ lru' \in Touched(m)
        /\ loaded' = (loaded \ ToSet(SubSeq(victims, 1, n(victims)))) \cup {m}
        /\ allocatedVram' = left(victims)[n(victims)] + known[m]
        /\ driftedVram' = driftedVram
  BY DEF GetOrLoadModel
<1>3. victims \in Seq(Models)
  BY <1>1, KeepingFilters
<1> DEFINE room == enough(victims)
           stop == n(victims)
           rest == left(victims)
<1>4. room \subseteq 0 .. Len(victims) /\ \A i \in room : VramFits(rest[i], known[m])
  OBVIOUS
<1>5. stop = IF room = {} THEN Len(victims) ELSE CHOOSE i \in room : \A j \in room : i <= j
  OBVIOUS
<1>6. /\ lru' \in Touched(m) /\ registry' = known /\ driftedVram' = driftedVram
      /\ loaded' = (loaded \ ToSet(SubSeq(victims, 1, stop))) \cup {m}
      /\ allocatedVram' = rest[stop] + known[m]
  BY <1>2
<1>7. Len(victims) \in Nat
  BY <1>3
<1> HIDE DEF room, stop
<1>8. stop \in 0 .. Len(victims) /\ (stop \in room \/ stop = Len(victims))
  <2>1. CASE room = {}
    BY <1>5, <1>7, <2>1
  <2>2. CASE room # {}
    <3>1. room \in SUBSET Nat
      BY <1>4, <1>7
    <3>2. \E i \in room : \A j \in room : i <= j
      BY <2>2, <3>1, LeastNatural
    <3>3. (CHOOSE i \in room : \A j \in room : i <= j) \in room
      BY <3>2
    <3> QED
      BY <1>4, <1>5, <2>2, <3>3
  <2> QED
    BY <2>1, <2>2
<1>9. VramFits(rest[stop], known[m]) \/ stop = Len(victims)
  BY <1>4, <1>8
<1>10. Loaded(m, victims, stop)
  BY <1>6, <1>8, <1>9 DEF Loaded
<1> QED
  BY <1>10

(* The resident models that a load keeps, and what the sum is for them.    *)
LEMMA LoadingKeepsTheSum ==
  ASSUME ModelsInv, NEW m \in Models \ loaded, NEW victims, NEW n, Loaded(m, victims, n)
  PROVE  /\ ModelsInv'
         /\ ~driftedVram => allocatedVram' = VramOf(loaded', registry')
         /\ victims \in Seq(Models) /\ Items(victims) = loaded /\ Injective(victims)
         /\ loaded' = {x \in loaded : \A k \in 1 .. n : x # victims[k]} \cup {m}
<1> DEFINE known == IF m \in DOMAIN registry THEN registry ELSE Registered(m, DefaultVram)
           left == AfterEvicting(victims)
           kept == {x \in loaded : \A k \in 1 .. n : x # victims[k]}
<1>1. /\ registry \in [DOMAIN registry -> Nat]
      /\ loaded \subseteq DOMAIN registry /\ IsFiniteSet(loaded)
      /\ lru \in Seq(Models) /\ Injective(lru) /\ loaded \subseteq Items(lru)
      /\ allocatedVram \in Nat
      /\ driftedVram \in BOOLEAN
      /\ ~driftedVram => allocatedVram = VramOf(loaded, registry)
  BY DEF ModelsInv
<1>2. /\ victims \in Keeping(lru, loaded \ {m})
      /\ n \in 0 .. Len(victims)
      /\ registry' = known /\ lru' \in Touched(m)
      /\ loaded' = (loaded \ ToSet(SubSeq(victims, 1, n))) \cup {m}
      /\ allocatedVram' = left[n] + known[m]
      /\ driftedVram' = driftedVram
  BY DEF Loaded
<1>3. victims \in Seq(Models) /\ Items(victims) = loaded /\ Injective(victims)
  <2>1. /\ victims \in Seq(Models) /\ Injective(victims)
        /\ Items(victims) = Items(lru) \cap (loaded \ {m})
    BY <1>1, <1>2, KeepingFilters
  <2> QED
    BY <1>1, <2>1
<1>4. known \in [DOMAIN registry \cup {m} -> Nat] /\ \A x \in loaded : known[x] = registry[x]
  <2>1. CASE m \in DOMAIN registry
    <3>1. DOMAIN registry \cup {m} = DOMAIN registry
      BY <2>1
    <3> QED
      BY <1>1, <2>1, <3>1
  <2>2. CASE m \notin DOMAIN registry
    <3>1. DefaultVram \in Nat
      BY ModelsAssumption
    <3>2. /\ Registered(m, DefaultVram) \in [DOMAIN registry \cup {m} -> Nat]
          /\ \A x \in DOMAIN registry \ {m} : Registered(m, DefaultVram)[x] = registry[x]
      BY <1>1, <3>1, RegisteredOne
    <3> QED
      BY <1>1, <2>2, <3>2
  <2> QED
    BY <2>1, <2>2
<1> HIDE DEF known
<1>5. loaded' = kept \cup {m}
  <2>1. Len(victims) \in Nat
    BY <1>3
  <2>2. DOMAIN SubSeq(victims, 1, n) = 1 .. n /\ \A k \in 1 .. n : SubSeq(victims, 1, n)[k] = victims[k]
    BY <1>2, <1>3, <2>1
  <2>3. ToSet(SubSeq(victims, 1, n)) = {victims[k] : k \in 1 .. n}
    BY <2>2 DEF ToSet
  <2> QED
    BY <1>2, <2>3
<1>6. kept \in SUBSET (DOMAIN registry \cup {m}) /\ IsFiniteSet(kept) /\ m \notin kept
  <2>1. kept \in SUBSET loaded
    OBVIOUS
  <2>2. IsFiniteSet(kept)
    BY <1>1, <2>1, FS_Subset
  <2> QED
    BY <1>1, <2>1, <2>2
<1>7. left[n] \in Nat /\ (allocatedVram = VramOf(loaded, registry) => left[n] = VramOf(kept, registry))
  <2>1. Items(victims) \subseteq loaded
    BY <1>3
  <2> QED
    BY <1>1, <1>2, <1>3, <2>1, EvictingKeepsTheSum
<1>8. known[m] \in Nat
  BY <1>4
<1>9. ASSUME ~driftedVram PROVE allocatedVram' = VramOf(loaded', registry')
  <2>1. \A x \in kept : known[x] = registry[x]
    BY <1>4
  <2> HIDE DEF kept, left
  <2>2. VramOf(kept, known) = VramOf(kept, registry)
    BY <2>1, VramAgrees
  <2>3. m \in (DOMAIN registry \cup {m}) \ kept
    BY <1>6
  <2>4. VramOf(kept \cup {m}, known) = VramOf(kept, known) + known[m]
    BY <1>4, <1>6, <2>3, VramOfOneMore
  <2> QED
    BY <1>1, <1>2, <1>5, <1>7, <1>9, <2>2, <2>4
<1>10. lru' \in Seq(Models) /\ Injective(lru') /\ Items(lru') = Items(lru) \cup {m}
  <2>1. PICK others \in Keeping(lru, Models \ {m}) : lru' = Append(others, m)
    BY <1>2 DEF Touched
  <2>2. /\ others \in Seq(Models) /\ Injective(others)
        /\ Items(others) = Items(lru) \cap (Models \ {m})
    BY <1>1, KeepingFilters
  <2>3. Items(lru) \subseteq Models
    BY <1>1, ItemsAmong
  <2>4. m \in Models \ Items(others)
    BY <2>2
  <2> QED
    BY <2>1, <2>2, <2>3, <2>4, AppendedItem
<1>11. IsFiniteSet(loaded')
  BY <1>5, <1>6, FS_AddElement
<1>12. loaded' \subseteq Items(lru')
  BY <1>1, <1>5, <1>10
<1>13. allocatedVram' \in Nat
  BY <1>2, <1>7, <1>8
<1>14. registry' \in [DOMAIN registry' -> Nat] /\ loaded' \subseteq DOMAIN registry'
  BY <1>2, <1>4, <1>5, <1>6
<1>15. ModelsInv'
  BY <1>1, <1>2, <1>9, <1>10, <1>11, <1>12, <1>13, <1>14 DEF ModelsInv
<1> QED
  BY <1>3, <1>5, <1>9, <1>15

(* The sum that the last test read is that of what a load keeps, so that   *)
(* the load stays within the budget or has evicted every other model.      *)
LEMMA LoadFitsOrEvictsAll ==
  ASSUME ModelsInv, NEW m \in Models \ loaded, NEW victims, NEW n, Loaded(m, victims, n),
         ~driftedVram
  PROVE  VramOf(loaded', registry') <= VramBudget \/ loaded' = {m}
<1> DEFINE known == IF m \in DOMAIN registry THEN registry ELSE Registered(m, DefaultVram)
           left == AfterEvicting(victims)
<1>1. /\ allocatedVram' = VramOf(loaded', registry')
      /\ victims \in Seq(Models) /\ Items(victims) = loaded
      /\ loaded' = {x \in loaded : \A k \in 1 .. n : x # victims[k]} \cup {m}
  BY LoadingKeepsTheSum
<1>2. /\ VramFits(left[n], known[m]) \/ n = Len(victims)
      /\ allocatedVram' = left[n] + known[m]
  BY DEF Loaded
<1>3. CASE VramFits(left[n], known[m])
  BY <1>1, <1>2, <1>3 DEF VramFits
<1>4. CASE n = Len(victims)
  <2>1. DOMAIN victims = 1 .. n
    BY <1>1, <1>4
  <2>2. \A x \in loaded : \E k \in 1 .. n : x = victims[k]
    BY <1>1, <2>1 DEF Items
  <2> QED
    BY <1>1, <2>2
<1> QED
  BY <1>2, <1>3, <1>4

(* What a load evicts was used before what it keeps.                       *)
LEMMA LoadEvictsTheOldest ==
  ASSUME ModelsInv, NEW m \in Models \ loaded, NEW victims, NEW n, Loaded(m, victims, n),
         NEW i \in DOMAIN lru, NEW j \in DOMAIN lru,
         lru[i] \in loaded \ loaded', lru[j] \in loaded' \ {m}
  PROVE  i < j
<1>1. /\ victims \in Seq(Models) /\ Items(victims) = loaded /\ Injective(victims)
      /\ loaded' = {x \in loaded : \A k \in 1 .. n : x # victims[k]} \cup {m}
  BY LoadingKeepsTheSum
<1>2. victims \in Keeping(lru, loaded \ {m}) /\ n \in 0 .. Len(victims)
  BY DEF Loaded
<1>3. lru \in Seq(Models) /\ Injective(lru)
  BY DEF ModelsInv
<1>4. PICK a \in 1 .. n : lru[i] = victims[a]
  BY <1>1
<1>5. lru[j] \in loaded /\ \A k \in 1 .. n : lru[j] # victims[k]
  BY <1>1
<1>6. PICK b \in DOMAIN victims : lru[j] = victims[b]
  BY <1>1, <1>5 DEF Items
<1>7. a \in DOMAIN victims /\ a < b
  <2>1. DOMAIN victims = 1 .. Len(victims) /\ Len(victims) \in Nat
    BY <1>1
  <2>2. b \notin 1 .. n
    BY <1>5, <1>6
  <2> QED
    BY <1>2, <2>1, <2>2
<1>8. PICK k \in DOMAIN lru, l \in DOMAIN lru : k < l /\ lru[k] = victims[a] /\ lru[l] = victims[b]
  BY <1>2, <1>3, <1>7, KeepingOrder
<1>9. k = i /\ l = j
  BY <1>3, <1>4, <1>6, <1>8 DEF Injective
<1> QED
  BY <1>8, <1>9

(* A hit changes the LRU order only.                                       *)
LEMMA HitKeepsModels ==
  ASSUME ModelsInv, NEW m \in Models, m \in loaded, GetOrLoadModel(m)
  PROVE  ModelsInv'
<1>1. /\ registry \in [DOMAIN registry -> Nat]
      /\ loaded \subseteq DOMAIN registry
      /\ lru \in Seq(Models) /\ Injective(lru) /\ loaded \subseteq Items(lru)
  BY DEF ModelsInv
<1>2. /\ registry' = registry /\ lru' \in Touched(m)
      /\ UNCHANGED <<loaded, allocatedVram, driftedVram>>
  BY <1>1 DEF GetOrLoadModel
<1>3. PICK others \in Keeping(lru, Models \ {m}) : lru' = Append(others, m)
  BY <1>2 DEF Touched
<1>4. /\ others \in Seq(Models) /\ Injective(others)
      /\ Items(others) = Items(lru) \cap (Models \ {m})
  BY <1>1, KeepingFilters
<1>5. Items(lru) \subseteq Models
  BY <1>1, ItemsAmong
<1>6. lru' \in Seq(Models) /\ Injective(lru') /\ Items(lru') = Items(others) \cup {m}
  BY <1>3, <1>4, AppendedItem
<1>7. loaded' \subseteq Items(lru')
  BY <1>1, <1>2, <1>4, <1>5, <1>6
<1> QED
  BY <1>2, <1>6, <1>7 DEF ModelsInv

(* Every step keeps the invariant.                                         *)
LEMMA NextKeepsModels == ModelsInv /\ [ModelsNext]_modelVars => ModelsInv'
<1> SUFFICES ASSUME ModelsInv, [ModelsNext]_modelVars PROVE ModelsInv'
  OBVIOUS
<1>1. ASSUME NEW m \in Models, NEW size \in VramSizes, NEW runner \in BOOLEAN,
             RegisterModel(m, size, runner)
      PROVE  ModelsInv'
  BY <1>1, RegisterKeepsModels
<1>2. ASSUME NEW m \in Models, EvictModel(m) PROVE ModelsInv'
  BY <1>2, EvictKeepsModels
<1>3. ASSUME NEW m \in Models, GetOrLoadModel(m) PROVE ModelsInv'
  <2>1. CASE m \in loaded
    BY <1>3, <2>1, HitKeepsModels
  <2>2. CASE m \notin loaded
    <3>1. PICK victims, n : Loaded(m, victims, n)
      BY <1>3, <2>2, LoadingStops
    <3> QED
      BY <2>2, <3>1, LoadingKeepsTheSum
  <2> QED
    BY <2>1, <2>2
<1>4. CASE UNCHANGED modelVars
  BY <1>4 DEF modelVars, ModelsInv
<1> QED
  BY <1>1, <1>2, <1>3, <1>4 DEF ModelsNext

(* LoadsStayInBudget for any models, estimates and budget: a load ends     *)
(* within the budget or with every other model evicted, and evicts the     *)
(* least recently used (get_or_load_model).                                *)
THEOREM LoadsFitTheBudget == ModelsSpec => LoadsStayInBudget
<1> DEFINE Fits(m) ==
             /\ VramOf(loaded', registry') <= VramBudget \/ loaded' = {m}
             /\ \A i, j \in DOMAIN lru :
                  lru[i] \in loaded \ loaded' /\ lru[j] \in loaded' \ {m} => i < j
<1>1. ASSUME ModelsInv
      PROVE  \A m \in Models \ loaded : GetOrLoadModel(m) /\ ~driftedVram => Fits(m)
  <2> SUFFICES ASSUME NEW m \in Models \ loaded, GetOrLoadModel(m), ~driftedVram
               PROVE  Fits(m)
    OBVIOUS
  <2>1. PICK victims, n : Loaded(m, victims, n)
    BY <1>1, LoadingStops
  <2>2. VramOf(loaded', registry') <= VramBudget \/ loaded' = {m}
    BY <1>1, <2>1, LoadFitsOrEvictsAll
  <2>3. ASSUME NEW i \in DOMAIN lru, NEW j \in DOMAIN lru,
               lru[i] \in loaded \ loaded', lru[j] \in loaded' \ {m}
        PROVE  i < j
    BY <1>1, <2>1, <2>3, LoadEvictsTheOldest
  <2> QED
    BY <2>2, <2>3
<1>2. ModelsInv /\ [ModelsNext]_modelVars
        => [\A m \in Models \ loaded : GetOrLoadModel(m) /\ ~driftedVram => Fits(m)]_modelVars
  BY <1>1
<1>3. LoadsStayInBudget
        <=> [][\A m \in Models \ loaded : GetOrLoadModel(m) /\ ~driftedVram => Fits(m)]_modelVars
  BY DEF LoadsStayInBudget
<1> QED
  BY <1>2, <1>3, ModelsInitInv, NextKeepsModels, PTL DEF ModelsSpec

-----------------------------------------------------------------------------
(* VirtualPages.                                                           *)

Entries == [tier : Tiers, block : Nat, valid : Nat]

(* The fields of a page entry.                                             *)
LEMMA EntryFields ==
  ASSUME NEW e \in Entries
  PROVE  e.tier \in Tiers /\ e.block \in Nat /\ e.valid \in Nat
BY DEF Entries

(* The running sums of a table.                                            *)
Counting(f, table) ==
  /\ f[0] = 0
  /\ \A i \in 1 .. Len(table) : f[i] = f[i - 1] + table[i].valid

(* TokensIn is the last of the running sums.                               *)
LEMMA TokensAreSums ==
  ASSUME NEW table \in Seq(Entries)
  PROVE  \E f \in [0 .. Len(table) -> Nat] : Counting(f, table) /\ TokensIn(table) = f[Len(table)]
<1> DEFINE n == Len(table)
           zero == 0
           size(i) == table[i].valid
           step == [pair \in (1 .. n) \X Nat |-> pair[2] + size(pair[1])]
           IsSum(f) == f = [i \in 0 .. n |-> IF i = 0 THEN 0 ELSE f[i - 1] + size(i)]
           upto == CHOOSE f : IsSum(f)
<1>1. n \in Nat /\ zero \in Nat /\ \A i \in 1 .. n : size(i) \in Nat
  <2>1. \A i \in 1 .. n : table[i] \in Entries
    OBVIOUS
  <2> QED
    BY <2>1, EntryFields
<1>2. TokensIn(table) = upto[n]
  BY DEF TokensIn
<1> HIDE DEF n, zero, size
<1>3. step \in [(1 .. n) \X Nat -> Nat] /\ \A i \in 1 .. n, v \in Nat : step[<<i, v>>] = v + size(i)
  BY <1>1
<1> HIDE DEF step
<1>4. PICK f \in [0 .. n -> Nat] : Steps(f, n, zero, step)
  BY <1>1, <1>3, StepwiseFunction
<1>5. f[0] = 0 /\ \A i \in 1 .. n : f[i] = f[i - 1] + size(i)
  <2>1. \A i \in 1 .. n : f[i - 1] \in Nat
    BY <1>1
  <2> QED
    BY <1>3, <1>4, <2>1 DEF Steps, zero
<1>6. IsSum(f)
  <2>1. \A i \in 0 .. n : f[i] = IF i = 0 THEN 0 ELSE f[i - 1] + size(i)
    BY <1>1, <1>5
  <2> QED
    BY <2>1
<1>7. IsSum(upto)
  <2> HIDE DEF IsSum
  <2> QED
    BY <1>6
<1>8. upto = [i \in 0 .. n |-> IF i = 0 THEN 0 ELSE upto[i - 1] + size(i)]
  BY <1>7
<1> HIDE DEF upto, IsSum
<1> DEFINE P == {i \in 0 .. n : upto[i] = f[i]}
<1>9. 0 \in P
  BY <1>1, <1>5, <1>8
<1>10. ASSUME NEW i \in 0 .. n - 1, i \in P PROVE i + 1 \in P
  <2>1. i + 1 \in 1 .. n /\ (i + 1) - 1 = i /\ i + 1 \in 0 .. n /\ i + 1 # 0
    BY <1>1
  <2>2. upto[i + 1] = upto[i] + size(i + 1) /\ f[i + 1] = f[i] + size(i + 1)
    BY <1>5, <1>8, <2>1
  <2> QED
    BY <1>10, <2>1, <2>2
<1> HIDE DEF P
<1>11. 0 .. n \subseteq P
  BY <1>1, <1>9, <1>10, InductionOnSets
<1>12. upto[n] = f[n]
  BY <1>1, <1>11 DEF P
<1>13. Counting(f, table)
  BY <1>5 DEF Counting, n, size
<1> QED
  BY <1>2, <1>12, <1>13 DEF n

(* The empty table.                                                        *)
LEMMA NoTokens == TokensIn(<< >>) = 0 /\ << >> \in Seq(Entries)
<1>1. << >> \in Seq(Entries) /\ Len(<< >>) = 0
  OBVIOUS
<1>2. PICK f \in [0 .. Len(<< >>) -> Nat] :
        Counting(f, << >>) /\ TokensIn(<< >>) = f[Len(<< >>)]
  BY <1>1, TokensAreSums
<1> QED
  BY <1>1, <1>2 DEF Counting

(* The sums of the first sizes, from c on.                                 *)
SumsFrom(f, c, size, n) ==
  f[0] = c /\ \A i \in 1 .. n : f[i] = f[i - 1] + size[i]

Ahead(f, g, c, n) == \A i \in 0 .. n : g[i] = c + f[i]

(* Two running sums of the same sizes differ by what they start from.      *)
LEMMA SumsAgree ==
  ASSUME NEW n \in Nat, NEW c \in Nat, NEW size \in [1 .. n -> Nat], NEW f \in [0 .. n -> Nat],
         NEW g, SumsFrom(f, 0, size, n), SumsFrom(g, c, size, n)
  PROVE  Ahead(f, g, c, n)
<1> DEFINE P == {i \in 0 .. n : g[i] = c + f[i]}
<1>1. 0 \in P
  BY DEF SumsFrom
<1>2. ASSUME NEW i \in 0 .. n - 1, i \in P PROVE i + 1 \in P
  <2>1. i + 1 \in 1 .. n /\ (i + 1) - 1 = i /\ i + 1 \in 0 .. n
    OBVIOUS
  <2>2. f[i + 1] = f[i] + size[i + 1] /\ g[i + 1] = g[i] + size[i + 1]
    BY <2>1 DEF SumsFrom
  <2>3. g[i] = c + f[i] /\ f[i] \in Nat /\ size[i + 1] \in Nat
    BY <1>2, <2>1
  <2>4. g[i + 1] = c + f[i + 1]
    BY <2>2, <2>3
  <2> QED
    BY <2>1, <2>4
<1> HIDE DEF P
<1>3. 0 .. n \subseteq P
  BY <1>1, <1>2, InductionOnSets
<1> QED
  BY <1>3 DEF P, Ahead

(* The tokens of two joined tables.                                        *)
LEMMA JoinedTokens ==
  ASSUME NEW a \in Seq(Entries), NEW b \in Seq(Entries)
  PROVE  /\ TokensIn(a) \in Nat /\ TokensIn(b) \in Nat
         /\ TokensIn(a \o b) = TokensIn(a) + TokensIn(b)
<1> DEFINE both == a \o b  n == Len(a)  m == Len(b)
<1>1. /\ both \in Seq(Entries) /\ Len(both) = n + m /\ n \in Nat /\ m \in Nat
      /\ \A i \in 1 .. n : both[i] = a[i]
      /\ \A j \in 1 .. m : both[n + j] = b[j]
  BY JoinedElements
<1>2. PICK f \in [0 .. n -> Nat] : Counting(f, a) /\ TokensIn(a) = f[n]
  BY TokensAreSums
<1>3. PICK g \in [0 .. m -> Nat] : Counting(g, b) /\ TokensIn(b) = g[m]
  BY TokensAreSums
<1>14. both \in Seq(Entries)
  BY <1>1
<1>4. PICK h \in [0 .. Len(both) -> Nat] : Counting(h, both) /\ TokensIn(both) = h[Len(both)]
  <2> HIDE DEF both
  <2> QED
    BY <1>14, TokensAreSums
<1>5. \A i \in 1 .. n : a[i].valid \in Nat
  <2>1. \A i \in 1 .. n : a[i] \in Entries
    OBVIOUS
  <2> QED
    BY <2>1, EntryFields
<1>6. \A i \in 1 .. m : b[i].valid \in Nat
  <2>1. \A i \in 1 .. m : b[i] \in Entries
    OBVIOUS
  <2> QED
    BY <2>1, EntryFields
<1>7. f[0] = 0 /\ \A i \in 1 .. n : f[i] = f[i - 1] + a[i].valid
  BY <1>2 DEF Counting
<1>8. g[0] = 0 /\ \A i \in 1 .. m : g[i] = g[i - 1] + b[i].valid
  BY <1>3 DEF Counting
<1>9. h[0] = 0 /\ \A i \in 1 .. n + m : h[i] = h[i - 1] + both[i].valid
  BY <1>1, <1>4 DEF Counting
<1> HIDE DEF both, n, m
<1>15. n \in Nat /\ m \in Nat
  BY <1>1
<1>10. \A i \in 0 .. n : h[i] = 0 + f[i]
  <2> DEFINE size == [i \in 1 .. n |-> a[i].valid]
  <2>1. \A i \in 1 .. n : size[i] \in Nat
    BY <1>5
  <2>2. \A i \in 0 .. n : f[i] \in Nat
    OBVIOUS
  <2>3. ASSUME NEW i \in 1 .. n PROVE f[i] = f[i - 1] + size[i] /\ h[i] = h[i - 1] + size[i]
    <3>1. i \in 1 .. n + m
      BY <1>15
    <3> QED
      BY <1>1, <1>7, <1>9, <3>1
  <2>4. size \in [1 .. n -> Nat] /\ 0 \in Nat
    BY <2>1
  <2>5. SumsFrom(f, 0, size, n) /\ SumsFrom(h, 0, size, n)
    BY <1>7, <1>9, <2>3 DEF SumsFrom
  <2>6. f \in [0 .. n -> Nat]
    OBVIOUS
  <2> HIDE DEF size
  <2>7. Ahead(f, h, 0, n)
    BY <1>15, <2>4, <2>5, <2>6, SumsAgree
  <2> QED
    BY <2>7 DEF Ahead
<1>11. \A i \in 0 .. m : h[n + i] = f[n] + g[i]
  <2> DEFINE size == [i \in 1 .. m |-> b[i].valid]
             later == [i \in 0 .. m |-> h[n + i]]
  <2>1. \A i \in 1 .. m : size[i] \in Nat
    BY <1>6
  <2>2. \A i \in 0 .. m : g[i] \in Nat
    OBVIOUS
  <2>3. f[n] \in Nat /\ later[0] = f[n]
    <3>1. n \in 0 .. n /\ n + 0 = n /\ 0 \in 0 .. m
      BY <1>15
    <3>2. f[n] \in Nat
      BY <3>1
    <3> QED
      BY <1>10, <3>1, <3>2
  <2>4. ASSUME NEW i \in 1 .. m PROVE g[i] = g[i - 1] + size[i] /\ later[i] = later[i - 1] + size[i]
    <3>1. /\ n + i \in 1 .. n + m /\ (n + i) - 1 = n + (i - 1)
          /\ i - 1 \in 0 .. m /\ i \in 0 .. m
      BY <1>15
    <3>2. h[n + i] = h[(n + i) - 1] + both[n + i].valid
      BY <1>9, <3>1
    <3>3. both[n + i].valid = size[i]
      BY <1>1
    <3> QED
      BY <1>8, <3>1, <3>2, <3>3
  <2>5. \A i \in 0 .. m : later[i] = h[n + i]
    OBVIOUS
  <2>7. size \in [1 .. m -> Nat]
    BY <2>1
  <2>8. SumsFrom(g, 0, size, m) /\ SumsFrom(later, f[n], size, m)
    BY <1>8, <2>3, <2>4 DEF SumsFrom
  <2> HIDE DEF size, later
  <2>6. Ahead(g, later, f[n], m)
    <3>1. g \in [0 .. m -> Nat] /\ f[n] \in Nat
      BY <2>3
    <3> QED
      BY <1>15, <2>7, <2>8, <3>1, SumsAgree
  <2> QED
    BY <2>5, <2>6 DEF Ahead
<1>12. f[n] \in Nat /\ g[m] \in Nat /\ h[n + m] = f[n] + g[m]
  BY <1>15, <1>11
<1>13. TokensIn(both) = h[n + m]
  BY <1>1, <1>4
<1> QED
  BY <1>2, <1>3, <1>12, <1>13 DEF both

(* A table of one page.                                                    *)
LEMMA OnePage ==
  ASSUME NEW e \in Entries
  PROVE  <<e>> \in Seq(Entries) /\ TokensIn(<<e>>) = e.valid
<1>1. <<e>> \in Seq(Entries) /\ Len(<<e>>) = 1 /\ <<e>>[1] = e
  OBVIOUS
<1> DEFINE one == <<e>>
<1> HIDE DEF one
<1>2. PICK f \in [0 .. Len(one) -> Nat] : Counting(f, one) /\ TokensIn(one) = f[Len(one)]
  BY <1>1, TokensAreSums DEF one
<1>3. f[0] = 0 /\ f[1] = f[1 - 1] + e.valid
  BY <1>1, <1>2 DEF Counting, one
<1>4. e.valid \in Nat
  BY DEF Entries
<1> QED
  BY <1>1, <1>2, <1>3, <1>4 DEF one

(* A table is what stands before its last page, and that page.             *)
LEMMA LastPage ==
  ASSUME NEW table \in Seq(Entries), NEW n, n = Len(table), table # << >>
  PROVE  /\ n \in Nat \ {0} /\ table[n] \in Entries
         /\ SubSeq(table, 1, n - 1) \in Seq(Entries)
         /\ Len(SubSeq(table, 1, n - 1)) = n - 1
         /\ TokensIn(table) = TokensIn(SubSeq(table, 1, n - 1)) + table[n].valid
         /\ TokensIn(SubSeq(table, 1, n - 1)) \in Nat
<1>1. n \in Nat \ {0} /\ table[n] \in Entries
  OBVIOUS
<1> DEFINE front == SubSeq(table, 1, n - 1)
           last == <<table[n]>>
<1>2. front \in Seq(Entries) /\ Len(front) = n - 1 /\ \A i \in 1 .. n - 1 : front[i] = table[i]
  BY <1>1
<1>3. last \in Seq(Entries) /\ TokensIn(last) = table[n].valid
  BY <1>1, OnePage
<1>4. table = front \o last
  BY <1>1, <1>2
<1> HIDE DEF front, last
<1>5. TokensIn(front) \in Nat /\ TokensIn(front \o last) = TokensIn(front) + TokensIn(last)
  BY <1>2, <1>3, JoinedTokens
<1> QED
  BY <1>1, <1>2, <1>3, <1>4, <1>5 DEF front

(* A table is cut in two.                                                  *)
LEMMA CutTokens ==
  ASSUME NEW table \in Seq(Entries), NEW k \in 0 .. Len(table)
  PROVE  /\ SubSeq(table, 1, k) \in Seq(Entries) /\ Len(SubSeq(table, 1, k)) = k
         /\ \A i \in 1 .. k : SubSeq(table, 1, k)[i] = table[i]
         /\ SubSeq(table, k + 1, Len(table)) \in Seq(Entries)
         /\ Len(SubSeq(table, k + 1, Len(table))) = Len(table) - k
         /\ \A i \in 1 .. Len(table) - k : SubSeq(table, k + 1, Len(table))[i] = table[k + i]
         /\ TokensIn(table) = TokensIn(SubSeq(table, 1, k)) + TokensIn(SubSeq(table, k + 1, Len(table)))
         /\ TokensIn(SubSeq(table, 1, k)) \in Nat
         /\ TokensIn(SubSeq(table, k + 1, Len(table))) \in Nat
<1> DEFINE a == SubSeq(table, 1, k)  b == SubSeq(table, k + 1, Len(table))
<1>1. Len(table) \in Nat
  OBVIOUS
<1>2. a \in Seq(Entries) /\ Len(a) = k /\ \A i \in 1 .. k : a[i] = table[i]
  BY <1>1
<1>3. b \in Seq(Entries) /\ Len(b) = Len(table) - k
  BY <1>1
<1>4. ASSUME NEW i \in 1 .. Len(table) - k PROVE b[i] = table[k + i]
  BY <1>1
<1>5. table = a \o b
  <2> DEFINE both == a \o b
  <2>1. /\ both \in Seq(Entries) /\ Len(both) = Len(a) + Len(b)
        /\ \A i \in 1 .. Len(a) : both[i] = a[i]
        /\ \A j \in 1 .. Len(b) : both[Len(a) + j] = b[j]
    <3> HIDE DEF a, b
    <3> QED
      BY <1>2, <1>3, JoinedElements
  <2> HIDE DEF a, b, both
  <2>2. Len(both) = Len(table)
    BY <1>1, <1>2, <1>3, <2>1
  <2>3. ASSUME NEW i \in 1 .. Len(table) PROVE both[i] = table[i]
    <3>1. CASE i \in 1 .. k
      BY <1>2, <2>1, <3>1
    <3>2. CASE i \notin 1 .. k
      <4>1. i - k \in 1 .. Len(table) - k /\ k + (i - k) = i
        BY <1>1, <3>2
      <4>2. b[i - k] = table[i]
        BY <1>4, <4>1
      <4>3. both[Len(a) + (i - k)] = b[i - k]
        BY <1>3, <2>1, <4>1
      <4> QED
        BY <1>2, <4>1, <4>2, <4>3
    <3> QED
      BY <3>1, <3>2
  <2>4. both = table
    BY <2>1, <2>2, <2>3
  <2> QED
    BY <2>4 DEF both
<1> HIDE DEF a, b
<1>6. TokensIn(a) \in Nat /\ TokensIn(b) \in Nat /\ TokensIn(a \o b) = TokensIn(a) + TokensIn(b)
  BY <1>2, <1>3, JoinedTokens
<1> QED
  BY <1>2, <1>3, <1>4, <1>5, <1>6 DEF a, b

-----------------------------------------------------------------------------
(* The pages of a prompt.                                                  *)

(* Products of natural numbers, in the small steps that the provers need.  *)
LEMMA OneMoreTime == ASSUME NEW i \in Nat, NEW c \in Nat PROVE (i + 1) * c = i * c + c
OBVIOUS

(* A product is a natural number,                                          *)
LEMMA ProductIsNat == ASSUME NEW i \in Nat, NEW c \in Nat PROVE i * c \in Nat
OBVIOUS

(* and it grows with its factor.                                           *)
LEMMA ProductGrows ==
  ASSUME NEW i \in Nat, NEW j \in Nat, NEW c \in Nat, i <= j
  PROVE  i * c <= j * c
<1> DEFINE d == j - i
<1>1. d \in Nat /\ j = i + d
  OBVIOUS
<1> HIDE DEF d
<1>2. (i + d) * c = i * c + d * c
  BY <1>1
<1>3. i * c \in Nat /\ d * c \in Nat
  BY <1>1, ProductIsNat
<1> DEFINE x == i * c  y == d * c
<1>4. x <= x + y
  <2> HIDE DEF x, y
  <2> QED
    BY <1>3 DEF x, y
<1> QED
  BY <1>1, <1>2, <1>4

(* A quotient, multiplied again, is not more than was divided.             *)
LEMMA QuotientFits ==
  ASSUME NEW n \in Nat, NEW d \in Nat \ {0}
  PROVE  n \div d \in Nat /\ (n \div d) * d <= n
OBVIOUS

(* Before each of the first k pages of c tokens some of n tokens are left. *)
Left(k, c, n) == \A i \in 1 .. k : (i - 1) * c < n

(* As many pages as the tokens fill: before each of them some are left.    *)
LEMMA FullPagesLeft ==
  ASSUME NEW k \in Nat, NEW c \in Nat \ {0}, NEW n \in Nat, k * c <= n
  PROVE  Left(k, c, n)
<1> SUFFICES ASSUME NEW i \in 1 .. k PROVE (i - 1) * c < n
  BY DEF Left
<1> DEFINE j == i - 1
<1>1. j \in Nat /\ j + 1 \in Nat /\ j + 1 <= k /\ j + 1 = i
  OBVIOUS
<1> HIDE DEF j
<1>2. (j + 1) * c <= k * c
  BY <1>1, ProductGrows
<1>3. (j + 1) * c = j * c + c
  BY <1>1, OneMoreTime
<1>4. j * c \in Nat /\ k * c \in Nat
  BY <1>1, ProductIsNat
<1> DEFINE x == j * c  y == k * c
<1>5. x + c <= y /\ y <= n /\ x \in Nat /\ y \in Nat
  BY <1>2, <1>3, <1>4
<1> HIDE DEF x, y
<1>6. x < n
  BY <1>5
<1> QED
  BY <1>6 DEF x, j

(* As many pages as the tokens need, rounded up, are all needed.           *)
LEMMA RoundedUpPagesLeft ==
  ASSUME NEW c \in Nat \ {0}, NEW n \in Nat, NEW k \in Nat, k <= (n + (c - 1)) \div c
  PROVE  Left(k, c, n)
<1> SUFFICES ASSUME NEW i \in 1 .. k PROVE (i - 1) * c < n
  BY DEF Left
<1> DEFINE q == (n + (c - 1)) \div c
           j == i - 1
<1>1. q \in Nat /\ q * c <= n + (c - 1)
  <2> DEFINE m == n + (c - 1)
  <2>1. m \in Nat
    OBVIOUS
  <2> HIDE DEF m
  <2>2. m \div c \in Nat /\ (m \div c) * c <= m
    BY <2>1, QuotientFits
  <2> QED
    BY <2>2 DEF m
<1> HIDE DEF q
<1>2. j \in Nat /\ j + 1 \in Nat /\ j + 1 <= q
  BY <1>1 DEF q
<1> HIDE DEF j
<1>3. (j + 1) * c <= q * c
  BY <1>1, <1>2, ProductGrows
<1>4. (j + 1) * c = j * c + c
  BY <1>2, OneMoreTime
<1>5. j * c \in Nat /\ q * c \in Nat
  BY <1>1, <1>2, ProductIsNat
<1> DEFINE x == j * c  y == q * c
<1>6. x + c <= y /\ y <= n + (c - 1) /\ x \in Nat /\ y \in Nat
  BY <1>1, <1>3, <1>4, <1>5
<1> HIDE DEF x, y
<1>7. x < n
  BY <1>6
<1> QED
  BY <1>7 DEF x, j

Pools == [Tiers -> Seq(Nat)]

(* A table of k pages of tier t, with room for n tokens.                   *)
PagesAre(table, pool, t, n, k) ==
  /\ table \in Seq(Entries) /\ Len(table) = k
  /\ \A i \in 1 .. k :
       /\ table[i].tier = t /\ table[i].block = pool[t][i]
       /\ table[i].valid \in 1 .. TierSize[t]
       /\ i < k \/ k * TierSize[t] <= n => table[i].valid = TierSize[t]
  /\ TokensIn(table) = Least(k * TierSize[t], n)

(* TierPages is such a table, if some tokens are left before each of its   *)
(* pages.                                                                  *)
LEMMA PagesOfTier ==
  ASSUME NEW pool \in Pools, NEW t \in Tiers, NEW n \in Nat, NEW k \in 0 .. Len(pool[t]),
         Left(k, TierSize[t], n)
  PROVE  PagesAre(TierPages(pool, t, k, n), pool, t, n, k)
<1> DEFINE c == TierSize[t]
           pages == TierPages(pool, t, k, n)
           size(i) == Least(c, n - (i - 1) * c)
<1>1. c \in Nat \ {0} /\ k \in Nat /\ pool[t] \in Seq(Nat)
  BY VirtualPagesAssumption DEF Pools
<1>2. \A i \in 1 .. k : pool[t][i] \in Nat
  BY <1>1
<1>3. ASSUME NEW i \in 1 .. k
      PROVE  size(i) \in 1 .. c /\ (i < k \/ k * c <= n => size(i) = c)
  <2> DEFINE j == i - 1
  <2>1. j \in Nat /\ j + 1 \in Nat /\ j + 1 <= k /\ (i < k => (j + 1) + 1 <= k /\ j + 1 + 1 \in 1 .. k)
    BY <1>1
  <2>2. j * c < n
    BY DEF Left
  <2>3. i < k => (j + 1) * c < n
    <3> SUFFICES ASSUME i < k PROVE (j + 1) * c < n
      OBVIOUS
    <3>1. i + 1 \in 1 .. k /\ (i + 1) - 1 = j + 1
      BY <1>1
    <3>2. ((i + 1) - 1) * c < n
      BY <3>1 DEF Left
    <3> QED
      BY <3>1, <3>2
  <2> HIDE DEF c
  <2>4. size(i) = Least(c, n - j * c)
    OBVIOUS
  <2> HIDE DEF j, size
  <2>5. (j + 1) * c = j * c + c /\ j * c \in Nat /\ k * c \in Nat
    BY <1>1, <2>1, OneMoreTime, ProductIsNat
  <2>6. (j + 1) * c <= k * c
    BY <1>1, <2>1, ProductGrows
  <2> DEFINE x == j * c  y == k * c
  <2>7. /\ x \in Nat /\ y \in Nat /\ x + c <= y /\ x < n
        /\ (i < k => x + c < n)
        /\ size(i) = Least(c, n - x)
    BY <2>2, <2>3, <2>4, <2>5, <2>6
  <2> HIDE DEF x, y
  <2>8. size(i) \in 1 .. c
    BY <1>1, <2>7 DEF Least
  <2>9. i < k \/ y <= n => size(i) = c
    BY <1>1, <2>7 DEF Least
  <2> QED
    BY <2>8, <2>9 DEF y
<1>4. pages = [i \in 1 .. k |-> [tier |-> t, block |-> pool[t][i], valid |-> size(i)]]
  BY DEF TierPages, PageEntry
<1> HIDE DEF c, pages, size
<1>5. ASSUME NEW i \in 1 .. k
      PROVE  /\ pages[i] = [tier |-> t, block |-> pool[t][i], valid |-> size(i)]
             /\ pages[i] \in Entries
  <2>1. pages[i] = [tier |-> t, block |-> pool[t][i], valid |-> size(i)]
    BY <1>4
  <2>2. size(i) \in Nat /\ pool[t][i] \in Nat
    BY <1>1, <1>2, <1>3
  <2> QED
    BY <2>1, <2>2 DEF Entries
<1>6. pages \in Seq(Entries) /\ Len(pages) = k
  <2>1. pages = [i \in 1 .. k |-> pages[i]]
    BY <1>4
  <2>2. \A i \in 1 .. k : pages[i] \in Entries
    BY <1>5
  <2> QED
    BY <1>1, <2>1, <2>2
<1>7. \A i \in 1 .. k : /\ pages[i].tier = t /\ pages[i].block = pool[t][i]
                        /\ pages[i].valid = size(i)
  <2> SUFFICES ASSUME NEW i \in 1 .. k
               PROVE  /\ pages[i].tier = t /\ pages[i].block = pool[t][i]
                      /\ pages[i].valid = size(i)
    OBVIOUS
  <2>1. pages[i] = [tier |-> t, block |-> pool[t][i], valid |-> size(i)]
    BY <1>5
  <2> QED
    BY <2>1
<1>8. TokensIn(pages) = Least(k * c, n)
  <2>1. PICK f \in [0 .. Len(pages) -> Nat] : Counting(f, pages) /\ TokensIn(pages) = f[Len(pages)]
    BY <1>6, TokensAreSums
  <2>2. f[0] = 0 /\ \A i \in 1 .. k : f[i] = f[i - 1] + size(i)
    BY <1>6, <1>7, <2>1 DEF Counting
  <2> DEFINE P == {i \in 0 .. k : f[i] = Least(i * c, n)}
  <2>3. 0 \in P
    <3>1. 0 * c = 0
      BY <1>1
    <3>2. f[0] = Least(0 * c, n)
      BY <2>2, <3>1 DEF Least
    <3> QED
      BY <1>1, <3>2
  <2>4. ASSUME NEW i \in 0 .. k - 1, i \in P PROVE i + 1 \in P
    <3>1. i + 1 \in 1 .. k /\ (i + 1) - 1 = i /\ i + 1 \in 0 .. k /\ i \in Nat
      BY <1>1
    <3>2. f[i + 1] = f[i] + size(i + 1)
      BY <2>2, <3>1
    <3>3. f[i] = Least(i * c, n)
      BY <2>4
    <3>4. ((i + 1) - 1) * c < n
      BY <3>1 DEF Left, c
    <3>5. size(i + 1) = Least(c, n - ((i + 1) - 1) * c)
      BY DEF size
    <3>6. (i + 1) * c = i * c + c /\ i * c \in Nat
      BY <1>1, <3>1, OneMoreTime, ProductIsNat
    <3> DEFINE x == i * c
    <3>7. /\ x \in Nat /\ x < n /\ size(i + 1) = Least(c, n - x)
          /\ f[i] = Least(x, n) /\ (i + 1) * c = x + c
      BY <3>1, <3>3, <3>4, <3>5, <3>6
    <3> HIDE DEF x, P
    <3>8. f[i + 1] = Least(x, n) + Least(c, n - x)
      BY <3>2, <3>7
    <3>9. Least(x, n) + Least(c, n - x) = Least(x + c, n)
      BY <1>1, <3>7 DEF Least
    <3>10. f[i + 1] = Least((i + 1) * c, n)
      BY <3>7, <3>8, <3>9
    <3> QED
      BY <3>1, <3>10 DEF P
  <2> HIDE DEF P
  <2>5. 0 .. k \subseteq P
    BY <1>1, <2>3, <2>4, InductionOnSets
  <2>6. f[k] = Least(k * c, n)
    BY <1>1, <2>5 DEF P
  <2> QED
    BY <1>6, <2>1, <2>6
<1>9. \A i \in 1 .. k : /\ pages[i].valid \in 1 .. c
                        /\ i < k \/ k * c <= n => pages[i].valid = c
  BY <1>3, <1>7
<1> QED
  BY <1>6, <1>7, <1>8, <1>9 DEF pages, c, PagesAre

Distinct(table) ==
  \A i, j \in DOMAIN table :
    table[i].tier = table[j].tier /\ table[i].block = table[j].block => i = j

Dense(table) ==
  \A i \in DOMAIN table :
    /\ table[i].valid \in 1 .. TierSize[table[i].tier]
    /\ i < Len(table) => table[i].valid = TierSize[table[i].tier]

AllFull(table) ==
  \A i \in DOMAIN table :
    /\ table[i].valid \in 1 .. TierSize[table[i].tier]
    /\ table[i].valid = TierSize[table[i].tier]

(* What two tables have, their join has.                                   *)
LEMMA JoinedPages ==
  ASSUME NEW a \in Seq(Entries), NEW b \in Seq(Entries)
  PROVE  /\ BlocksOf(a \o b) = BlocksOf(a) \cup BlocksOf(b)
         /\ AllFull(a) /\ Dense(b) => Dense(a \o b)
         /\ AllFull(a) /\ AllFull(b) => AllFull(a \o b)
         /\ Distinct(a) /\ Distinct(b) /\ BlocksOf(a) \cap BlocksOf(b) = {} => Distinct(a \o b)
<1> DEFINE both == a \o b  n == Len(a)  m == Len(b)
<1>1. /\ both \in Seq(Entries) /\ Len(both) = n + m
      /\ \A i \in 1 .. n : both[i] = a[i]
      /\ \A j \in 1 .. m : both[n + j] = b[j]
  BY JoinedElements
<1>2. n \in Nat /\ m \in Nat /\ DOMAIN a = 1 .. n /\ DOMAIN b = 1 .. m
  OBVIOUS
<1>3. DOMAIN both = 1 .. n + m
  BY <1>1
<1> HIDE DEF both, n, m
<1>4. \A i \in 1 .. n : i \in 1 .. n + m
  BY <1>2
<1>5. \A j \in 1 .. m : n + j \in 1 .. n + m /\ n + j \notin 1 .. n
  BY <1>2
<1>6. ASSUME NEW i \in 1 .. n + m
      PROVE  i \in 1 .. n \/ (i - n \in 1 .. m /\ i = n + (i - n))
  BY <1>2
<1>7. BlocksOf(both) = BlocksOf(a) \cup BlocksOf(b)
  <2>1. ASSUME NEW i \in 1 .. n + m
        PROVE  <<both[i].tier, both[i].block>> \in BlocksOf(a) \cup BlocksOf(b)
    <3>1. CASE i \in 1 .. n
      BY <1>1, <1>2, <3>1 DEF BlocksOf
    <3>2. CASE i - n \in 1 .. m /\ i = n + (i - n)
      <4>1. both[i] = b[i - n]
        BY <1>1, <3>2
      <4> QED
        BY <1>2, <3>2, <4>1 DEF BlocksOf
    <3> QED
      BY <1>6, <3>1, <3>2
  <2>2. ASSUME NEW i \in 1 .. n PROVE <<a[i].tier, a[i].block>> \in BlocksOf(both)
    BY <1>1, <1>3, <1>4 DEF BlocksOf
  <2>3. ASSUME NEW j \in 1 .. m PROVE <<b[j].tier, b[j].block>> \in BlocksOf(both)
    BY <1>1, <1>3, <1>5 DEF BlocksOf
  <2>4. /\ BlocksOf(both) = {<<both[i].tier, both[i].block>> : i \in 1 .. n + m}
        /\ BlocksOf(a) = {<<a[i].tier, a[i].block>> : i \in 1 .. n}
        /\ BlocksOf(b) = {<<b[i].tier, b[i].block>> : i \in 1 .. m}
    BY <1>2, <1>3 DEF BlocksOf
  <2> QED
    BY <2>1, <2>2, <2>3, <2>4
<1>8. ASSUME AllFull(a), Dense(b) PROVE Dense(both)
  <2> SUFFICES ASSUME NEW i \in 1 .. n + m
               PROVE  /\ both[i].valid \in 1 .. TierSize[both[i].tier]
                      /\ i < Len(both) => both[i].valid = TierSize[both[i].tier]
    BY <1>3 DEF Dense
  <2>1. CASE i \in 1 .. n
    BY <1>1, <1>2, <1>8, <2>1 DEF AllFull
  <2>2. CASE i - n \in 1 .. m /\ i = n + (i - n)
    <3>1. both[i] = b[i - n] /\ i - n \in DOMAIN b
      BY <1>1, <1>2, <2>2
    <3>2. i < Len(both) => i - n < m
      BY <1>1, <1>2
    <3>3. b[i - n].valid \in 1 .. TierSize[b[i - n].tier]
          /\ (i - n < Len(b) => b[i - n].valid = TierSize[b[i - n].tier])
      BY <1>8, <3>1 DEF Dense
    <3> QED
      BY <3>1, <3>2, <3>3 DEF m
  <2> QED
    BY <1>6, <2>1, <2>2
<1>9. ASSUME AllFull(a), AllFull(b) PROVE AllFull(both)
  <2> SUFFICES ASSUME NEW i \in 1 .. n + m
               PROVE  /\ both[i].valid \in 1 .. TierSize[both[i].tier]
                      /\ both[i].valid = TierSize[both[i].tier]
    BY <1>3 DEF AllFull
  <2>1. CASE i \in 1 .. n
    BY <1>1, <1>2, <1>9, <2>1 DEF AllFull
  <2>2. CASE i - n \in 1 .. m /\ i = n + (i - n)
    <3>1. both[i] = b[i - n] /\ i - n \in DOMAIN b
      BY <1>1, <1>2, <2>2
    <3> QED
      BY <1>9, <3>1 DEF AllFull
  <2> QED
    BY <1>6, <2>1, <2>2
<1>10. ASSUME Distinct(a), Distinct(b), BlocksOf(a) \cap BlocksOf(b) = {}
       PROVE  Distinct(both)
  <2>1. ASSUME NEW i \in 1 .. n, NEW j \in 1 .. m,
               a[i].tier = b[j].tier, a[i].block = b[j].block
        PROVE  FALSE
    <3>1. <<a[i].tier, a[i].block>> \in BlocksOf(a) /\ <<b[j].tier, b[j].block>> \in BlocksOf(b)
      BY <1>2 DEF BlocksOf
    <3>2. <<a[i].tier, a[i].block>> = <<b[j].tier, b[j].block>>
      BY <2>1
    <3> QED
      BY <1>10, <3>1, <3>2
  <2> SUFFICES ASSUME NEW i \in 1 .. n + m, NEW j \in 1 .. n + m,
                      both[i].tier = both[j].tier, both[i].block = both[j].block
               PROVE  i = j
    BY <1>3 DEF Distinct
  <2>2. CASE i \in 1 .. n /\ j \in 1 .. n
    BY <1>1, <1>2, <1>10, <2>2 DEF Distinct
  <2>3. CASE i \in 1 .. n /\ j - n \in 1 .. m /\ j = n + (j - n)
    <3>1. both[i] = a[i] /\ both[j] = b[j - n]
      BY <1>1, <2>3
    <3> QED
      BY <2>1, <2>3, <3>1
  <2>4. CASE j \in 1 .. n /\ i - n \in 1 .. m /\ i = n + (i - n)
    <3>1. both[j] = a[j] /\ both[i] = b[i - n]
      BY <1>1, <2>4
    <3> QED
      BY <2>1, <2>4, <3>1
  <2>5. CASE i - n \in 1 .. m /\ i = n + (i - n) /\ j - n \in 1 .. m /\ j = n + (j - n)
    <3>1. both[j] = b[j - n] /\ both[i] = b[i - n] /\ i - n \in DOMAIN b /\ j - n \in DOMAIN b
      BY <1>1, <1>2, <2>5
    <3>2. i - n = j - n
      BY <1>10, <3>1 DEF Distinct
    <3> QED
      BY <2>5, <3>2
  <2> QED
    BY <1>6, <2>2, <2>3, <2>4, <2>5
<1> QED
  BY <1>7, <1>8, <1>9, <1>10 DEF both

(* How many blocks a prompt takes, and how many tokens they leave.         *)
Rest1(pool, n) == n - PromptBlocks(pool, n)[1] * TierSize[1]
Rest2(pool, n) == Rest1(pool, n) - PromptBlocks(pool, n)[2] * TierSize[2]

(* As many blocks as the tokens fill, or as there are.                     *)
LEMMA LeastTakes ==
  ASSUME NEW n \in Nat, NEW c \in Nat \ {0}, NEW l \in Nat, NEW k, k = Least(n \div c, l)
  PROVE  k \in 0 .. l /\ k * c <= n /\ k * c \in Nat
<1> DEFINE q == n \div c
<1>1. q \in Nat /\ q * c <= n
  BY QuotientFits
<1> HIDE DEF q
<1>2. k = Least(q, l)
  BY DEF q
<1>3. k \in 0 .. l /\ k \in Nat /\ k <= q
  BY <1>1, <1>2 DEF Least
<1>4. k * c <= q * c
  BY <1>1, <1>3, ProductGrows
<1>5. k * c \in Nat /\ q * c \in Nat
  BY <1>1, <1>3, ProductIsNat
<1> DEFINE x == k * c  y == q * c
<1>6. x \in Nat /\ y \in Nat /\ x <= y /\ y <= n
  BY <1>1, <1>4, <1>5
<1> HIDE DEF x, y
<1>7. x <= n
  BY <1>6
<1> QED
  BY <1>3, <1>5, <1>7 DEF x

(* A prompt takes no more blocks than there are, and none that it does not *)
(* need.                                                                   *)
LEMMA PromptTakes ==
  ASSUME NEW pool \in Pools, NEW n \in Nat
  PROVE  /\ \A t \in Tiers : PromptBlocks(pool, n)[t] \in 0 .. Len(pool[t])
         /\ PromptBlocks(pool, n)[1] * TierSize[1] \in Nat
         /\ PromptBlocks(pool, n)[2] * TierSize[2] \in Nat
         /\ PromptBlocks(pool, n)[1] * TierSize[1] <= n /\ Rest1(pool, n) \in Nat
         /\ PromptBlocks(pool, n)[2] * TierSize[2] <= Rest1(pool, n) /\ Rest2(pool, n) \in Nat
         /\ Left(PromptBlocks(pool, n)[3], TierSize[3], Rest2(pool, n))
<1> DEFINE huge == Least(n \div TierSize[1], Len(pool[1]))
           rest == n - huge * TierSize[1]
           medium == Least(rest \div TierSize[2], Len(pool[2]))
           tail == rest - medium * TierSize[2]
           small == Least((tail + (TierSize[3] - 1)) \div TierSize[3], Len(pool[3]))
<1>1. PromptBlocks(pool, n) = <<huge, medium, small>>
  BY DEF PromptBlocks
<1>2. /\ TierSize[1] \in Nat \ {0} /\ TierSize[2] \in Nat \ {0} /\ TierSize[3] \in Nat \ {0}
      /\ Len(pool[1]) \in Nat /\ Len(pool[2]) \in Nat /\ Len(pool[3]) \in Nat
  <2>1. 1 \in Tiers /\ 2 \in Tiers /\ 3 \in Tiers
    BY DEF Tiers
  <2>2. pool[1] \in Seq(Nat) /\ pool[2] \in Seq(Nat) /\ pool[3] \in Seq(Nat)
    BY <2>1 DEF Pools
  <2> QED
    BY <2>1, <2>2, VirtualPagesAssumption
<1>3. huge \in 0 .. Len(pool[1]) /\ huge * TierSize[1] <= n /\ huge * TierSize[1] \in Nat
  <2> DEFINE k == huge c == TierSize[1] l == Len(pool[1])
  <2>1. c \in Nat \ {0} /\ l \in Nat /\ k = Least(n \div c, l)
    BY <1>2
  <2> HIDE DEF k, c, l
  <2>2. k \in 0 .. l /\ k * c <= n /\ k * c \in Nat
    BY <2>1, LeastTakes
  <2> QED
    BY <2>2 DEF k, c, l
<1> DEFINE x == huge * TierSize[1]
<1>4. rest \in Nat
  <2>1. rest = n - x /\ x \in Nat /\ x <= n
    BY <1>3
  <2> HIDE DEF x, rest
  <2> QED
    BY <2>1
<1>5. medium \in 0 .. Len(pool[2]) /\ medium * TierSize[2] <= rest /\ medium * TierSize[2] \in Nat
  <2> DEFINE k == medium c == TierSize[2] l == Len(pool[2]) m == rest
  <2>1. c \in Nat \ {0} /\ l \in Nat /\ k = Least(m \div c, l) /\ m \in Nat
    BY <1>2, <1>4
  <2> HIDE DEF k, c, l, m
  <2>2. k \in 0 .. l /\ k * c <= m /\ k * c \in Nat
    BY <2>1, LeastTakes
  <2> QED
    BY <2>2 DEF k, c, l, m
<1> DEFINE y == medium * TierSize[2]
<1>6. tail \in Nat
  <2>1. tail = rest - y /\ y \in Nat /\ y <= rest
    BY <1>5
  <2> HIDE DEF y, rest, tail
  <2> QED
    BY <1>4, <2>1
<1>7. small \in 0 .. Len(pool[3]) /\ Left(small, TierSize[3], tail)
  <2> DEFINE k == small c == TierSize[3] l == Len(pool[3]) m == tail
             q == (m + (c - 1)) \div c
  <2>1. c \in Nat \ {0} /\ l \in Nat /\ k = Least(q, l) /\ m \in Nat
    BY <1>2, <1>6
  <2> HIDE DEF k, c, l, m
  <2>2. q \in Nat
    BY <2>1
  <2>3. k \in 0 .. l /\ k \in Nat /\ k <= q
    <3> HIDE DEF q
    <3> QED
      BY <2>1, <2>2 DEF Least
  <2>4. Left(k, c, m)
    BY <2>1, <2>3, RoundedUpPagesLeft
  <2> QED
    BY <2>3, <2>4 DEF k, c, l, m
<1> HIDE DEF huge, rest, medium, tail, small
<1>8. PromptBlocks(pool, n)[1] = huge /\ PromptBlocks(pool, n)[2] = medium
      /\ PromptBlocks(pool, n)[3] = small
  BY <1>1
<1>9. Rest1(pool, n) = rest /\ Rest2(pool, n) = tail
  BY <1>8 DEF Rest1, Rest2, rest, tail
<1>10. \A t \in Tiers : PromptBlocks(pool, n)[t] \in 0 .. Len(pool[t])
  <2>1. \A t \in Tiers : t = 1 \/ t = 2 \/ t = 3
    BY DEF Tiers
  <2> QED
    BY <1>3, <1>5, <1>7, <1>8, <2>1
<1> QED
  BY <1>3, <1>4, <1>5, <1>6, <1>7, <1>8, <1>9, <1>10

(* The pairs of a tier and one of its listed blocks.                       *)
Pairs(lists) == {pair \in Tiers \X Nat : pair[2] \in Items(lists[pair[1]])}

Firsts(pool, n) == [t \in Tiers |-> SubSeq(pool[t], 1, PromptBlocks(pool, n)[t])]
Others(pool, n) ==
  [t \in Tiers |-> SubSeq(pool[t], PromptBlocks(pool, n)[t] + 1, Len(pool[t]))]

AllInjective(pool) == \A t \in Tiers : Injective(pool[t])

(* A prompt splits the lists.                                              *)
LEMMA PoolIsCut ==
  ASSUME NEW pool \in Pools, NEW n \in Nat
  PROVE  /\ Others(pool, n) \in Pools
         /\ \A t \in Tiers :
              /\ Items(Firsts(pool, n)[t]) = {pool[t][i] : i \in 1 .. PromptBlocks(pool, n)[t]}
              /\ Items(Firsts(pool, n)[t]) \subseteq Nat
         /\ AllInjective(pool) =>
              /\ AllInjective(Others(pool, n))
              /\ Pairs(Firsts(pool, n)) \cup Pairs(Others(pool, n)) = Pairs(pool)
              /\ Pairs(Firsts(pool, n)) \cap Pairs(Others(pool, n)) = {}
<1> DEFINE k(t) == PromptBlocks(pool, n)[t]
<1>1. \A t \in Tiers : pool[t] \in Seq(Nat) /\ k(t) \in 0 .. Len(pool[t])
  BY PromptTakes DEF Pools
<1>2. \A t \in Tiers : /\ Firsts(pool, n)[t] = SubSeq(pool[t], 1, k(t))
                       /\ Others(pool, n)[t] = SubSeq(pool[t], k(t) + 1, Len(pool[t]))
  BY DEF Firsts, Others
<1> HIDE DEF k
<1>3. ASSUME NEW t \in Tiers
      PROVE  /\ Firsts(pool, n)[t] \in Seq(Nat) /\ Others(pool, n)[t] \in Seq(Nat)
             /\ Items(Firsts(pool, n)[t]) = {pool[t][i] : i \in 1 .. k(t)}
  <2> DEFINE list == pool[t]  l == k(t)
  <2>1. list \in Seq(Nat) /\ l \in 0 .. Len(list)
    BY <1>1
  <2> HIDE DEF list, l
  <2>2. SubSeq(list, 1, l) \in Seq(Nat) /\ SubSeq(list, l + 1, Len(list)) \in Seq(Nat)
    BY <2>1
  <2>3. Len(SubSeq(list, 1, l)) = l /\ \A i \in 1 .. l : SubSeq(list, 1, l)[i] = list[i]
    BY <2>1
  <2>4. DOMAIN SubSeq(list, 1, l) = 1 .. l
    BY <2>2, <2>3
  <2>5. Items(SubSeq(list, 1, l)) = {list[i] : i \in 1 .. l}
    BY <2>3, <2>4 DEF Items
  <2> QED
    BY <1>2, <2>2, <2>5 DEF list, l
<1>4. \A t \in Tiers : Items(Firsts(pool, n)[t]) \subseteq Nat
  <2> SUFFICES ASSUME NEW t \in Tiers PROVE Items(Firsts(pool, n)[t]) \subseteq Nat
    OBVIOUS
  <2> DEFINE list == Firsts(pool, n)[t]
  <2>1. list \in Seq(Nat)
    BY <1>3
  <2> HIDE DEF list
  <2>2. Items(list) \subseteq Nat
    BY <2>1, ItemsAmong
  <2> QED
    BY <2>2 DEF list
<1>5. Others(pool, n) \in Pools
  BY <1>3 DEF Others, Pools
<1>6. ASSUME AllInjective(pool), NEW t \in Tiers
      PROVE  /\ Injective(Others(pool, n)[t])
             /\ Items(Firsts(pool, n)[t]) \cup Items(Others(pool, n)[t]) = Items(pool[t])
             /\ Items(Firsts(pool, n)[t]) \cap Items(Others(pool, n)[t]) = {}
  <2> DEFINE list == pool[t]  l == k(t)
  <2>1. list \in Seq(Nat) /\ l \in 0 .. Len(list) /\ Injective(list)
    BY <1>1, <1>6 DEF AllInjective
  <2> HIDE DEF list, l
  <2>2. /\ Injective(SubSeq(list, l + 1, Len(list)))
        /\ Items(SubSeq(list, 1, l)) \cup Items(SubSeq(list, l + 1, Len(list))) = Items(list)
        /\ Items(SubSeq(list, 1, l)) \cap Items(SubSeq(list, l + 1, Len(list))) = {}
    BY <2>1, CutParts
  <2> QED
    BY <1>2, <2>2 DEF list, l
<1>7. ASSUME AllInjective(pool)
      PROVE  /\ AllInjective(Others(pool, n))
             /\ Pairs(Firsts(pool, n)) \cup Pairs(Others(pool, n)) = Pairs(pool)
             /\ Pairs(Firsts(pool, n)) \cap Pairs(Others(pool, n)) = {}
  <2>1. \A t \in Tiers : /\ Injective(Others(pool, n)[t])
             /\ Items(Firsts(pool, n)[t]) \cup Items(Others(pool, n)[t]) = Items(pool[t])
             /\ Items(Firsts(pool, n)[t]) \cap Items(Others(pool, n)[t]) = {}
    BY <1>6, <1>7
  <2>2. AllInjective(Others(pool, n))
    BY <2>1 DEF AllInjective
  <2>3. Pairs(Firsts(pool, n)) \cup Pairs(Others(pool, n)) = Pairs(pool)
    BY <2>1 DEF Pairs
  <2>4. Pairs(Firsts(pool, n)) \cap Pairs(Others(pool, n)) = {}
    BY <2>1 DEF Pairs
  <2> QED
    BY <2>2, <2>3, <2>4
<1>8. \A t \in Tiers : Items(Firsts(pool, n)[t])
                       = {pool[t][i] : i \in 1 .. PromptBlocks(pool, n)[t]}
  BY <1>3 DEF k
<1> QED
  BY <1>4, <1>5, <1>7, <1>8

FirstBlocks(table, t, list, k) ==
  \A i \in 1 .. k : table[i].tier = t /\ table[i].block = list[i]

(* The blocks of such a table, each of them once if the list has it once.  *)
LEMMA BlocksOfTier ==
  ASSUME NEW table \in Seq(Entries), NEW t \in Tiers, NEW list \in Seq(Nat),
         NEW k \in 0 .. Len(list), Len(table) = k, FirstBlocks(table, t, list, k)
  PROVE  /\ BlocksOf(table) = {<<t, list[i]>> : i \in 1 .. k}
         /\ Injective(list) => Distinct(table)
<1>1. DOMAIN table = 1 .. k /\ DOMAIN list = 1 .. Len(list) /\ k \in Nat
  OBVIOUS
<1>2. \A i \in 1 .. k : i \in 1 .. Len(list)
  OBVIOUS
<1>3. BlocksOf(table) = {<<t, list[i]>> : i \in 1 .. k}
  BY <1>1 DEF BlocksOf, FirstBlocks
<1>4. Injective(list) => Distinct(table)
  BY <1>1, <1>2 DEF Injective, Distinct, FirstBlocks
<1> QED
  BY <1>3, <1>4

(* The table of a prompt: dense, with the tokens that there is room for,   *)
(* and with the first blocks of every list.                                *)
LEMMA PromptTable ==
  ASSUME NEW pool \in Pools, NEW n \in Nat
  PROVE  /\ PromptPages(pool, n) \in Seq(Entries)
         /\ Dense(PromptPages(pool, n))
         /\ TokensIn(PromptPages(pool, n)) = Least(n, RoomIn(PromptBlocks(pool, n)))
         /\ Least(n, RoomIn(PromptBlocks(pool, n))) \in Nat
         /\ BlocksOf(PromptPages(pool, n)) = Pairs(Firsts(pool, n))
         /\ AllInjective(pool) => Distinct(PromptPages(pool, n))
<1> DEFINE k1 == PromptBlocks(pool, n)[1]
           k2 == PromptBlocks(pool, n)[2]
           k3 == PromptBlocks(pool, n)[3]
           p1 == TierPages(pool, 1, k1, n)
           p2 == TierPages(pool, 2, k2, Rest1(pool, n))
           p3 == TierPages(pool, 3, k3, Rest2(pool, n))
           x == k1 * TierSize[1]
           y == k2 * TierSize[2]
           z == k3 * TierSize[3]
<1>1. PromptPages(pool, n) = (p1 \o p2) \o p3
  BY DEF PromptPages, Rest1, Rest2
<1>2. RoomIn(PromptBlocks(pool, n)) = (x + y) + z
  BY DEF RoomIn
<1>3. Rest1(pool, n) = n - x /\ Rest2(pool, n) = Rest1(pool, n) - y
  BY DEF Rest1, Rest2
<1>4. /\ k1 \in 0 .. Len(pool[1]) /\ k2 \in 0 .. Len(pool[2]) /\ k3 \in 0 .. Len(pool[3])
      /\ x \in Nat /\ y \in Nat
      /\ x <= n /\ Rest1(pool, n) \in Nat
      /\ y <= Rest1(pool, n) /\ Rest2(pool, n) \in Nat
      /\ Left(k3, TierSize[3], Rest2(pool, n))
  BY PromptTakes DEF Tiers
<1>5. /\ 1 \in Tiers /\ 2 \in Tiers /\ 3 \in Tiers
      /\ \A t \in Tiers : TierSize[t] \in Nat \ {0} /\ pool[t] \in Seq(Nat)
      /\ \A t \in Tiers : t = 1 \/ t = 2 \/ t = 3
  BY VirtualPagesAssumption DEF Tiers, Pools
<1> HIDE DEF k1, k2, k3
<1>6. k1 \in Nat /\ k2 \in Nat /\ k3 \in Nat /\ z \in Nat
  <2>1. k1 \in Nat /\ k2 \in Nat /\ k3 \in Nat
    BY <1>4
  <2> QED
    BY <1>5, <2>1, ProductIsNat
<1>7. Left(k1, TierSize[1], n)
  <2>1. TierSize[1] \in Nat \ {0} /\ k1 * TierSize[1] <= n
    BY <1>4, <1>5
  <2> QED
    BY <1>6, <2>1, FullPagesLeft
<1>8. Left(k2, TierSize[2], Rest1(pool, n))
  <2>1. TierSize[2] \in Nat \ {0} /\ k2 * TierSize[2] <= Rest1(pool, n) /\ Rest1(pool, n) \in Nat
    BY <1>4, <1>5
  <2> QED
    BY <1>6, <2>1, FullPagesLeft
<1>9. /\ p1 \in Seq(Entries) /\ Len(p1) = k1
      /\ \A i \in 1 .. k1 : /\ p1[i].tier = 1 /\ p1[i].block = pool[1][i]
                            /\ p1[i].valid \in 1 .. TierSize[1]
                            /\ i < k1 \/ k1 * TierSize[1] <= n => p1[i].valid = TierSize[1]
      /\ TokensIn(p1) = Least(k1 * TierSize[1], n)
  <2>1. /\ 1 \in Tiers /\ n \in Nat /\ k1 \in 0 .. Len(pool[1])
        /\ Left(k1, TierSize[1], n)
    BY <1>4, <1>5, <1>7
  <2>2. PagesAre(TierPages(pool, 1, k1, n), pool, 1, n, k1)
    BY <2>1, PagesOfTier
  <2>3. PagesAre(p1, pool, 1, n, k1)
    BY <2>2
  <2> HIDE DEF p1
  <2> QED
    BY <2>3 DEF PagesAre
<1>10. /\ p2 \in Seq(Entries) /\ Len(p2) = k2
       /\ \A i \in 1 .. k2 : /\ p2[i].tier = 2 /\ p2[i].block = pool[2][i]
                             /\ p2[i].valid \in 1 .. TierSize[2]
                             /\ i < k2 \/ k2 * TierSize[2] <= Rest1(pool, n)
                                  => p2[i].valid = TierSize[2]
       /\ TokensIn(p2) = Least(k2 * TierSize[2], Rest1(pool, n))
  <2>1. /\ 2 \in Tiers /\ Rest1(pool, n) \in Nat /\ k2 \in 0 .. Len(pool[2])
        /\ Left(k2, TierSize[2], Rest1(pool, n))
    BY <1>4, <1>5, <1>8
  <2>2. PagesAre(TierPages(pool, 2, k2, Rest1(pool, n)), pool, 2, Rest1(pool, n), k2)
    BY <2>1, PagesOfTier
  <2>3. PagesAre(p2, pool, 2, Rest1(pool, n), k2)
    BY <2>2
  <2> HIDE DEF p2
  <2> QED
    BY <2>3 DEF PagesAre
<1>11. /\ p3 \in Seq(Entries) /\ Len(p3) = k3
       /\ \A i \in 1 .. k3 : /\ p3[i].tier = 3 /\ p3[i].block = pool[3][i]
                             /\ p3[i].valid \in 1 .. TierSize[3]
                             /\ i < k3 \/ k3 * TierSize[3] <= Rest2(pool, n)
                                  => p3[i].valid = TierSize[3]
       /\ TokensIn(p3) = Least(k3 * TierSize[3], Rest2(pool, n))
  <2>1. /\ 3 \in Tiers /\ Rest2(pool, n) \in Nat /\ k3 \in 0 .. Len(pool[3])
        /\ Left(k3, TierSize[3], Rest2(pool, n))
    BY <1>4, <1>5
  <2>2. PagesAre(TierPages(pool, 3, k3, Rest2(pool, n)), pool, 3, Rest2(pool, n), k3)
    BY <2>1, PagesOfTier
  <2>3. PagesAre(p3, pool, 3, Rest2(pool, n), k3)
    BY <2>2
  <2> HIDE DEF p3
  <2> QED
    BY <2>3 DEF PagesAre
<1> HIDE DEF p1, p2, p3
<1>12. AllFull(p1)
  <2>1. DOMAIN p1 = 1 .. k1
    BY <1>6, <1>9
  <2>2. k1 * TierSize[1] <= n
    BY <1>4
  <2>3. \A i \in 1 .. k1 : /\ p1[i].valid \in 1 .. TierSize[1] /\ p1[i].tier = 1
                           /\ p1[i].valid = TierSize[1]
    BY <1>9, <2>2
  <2> QED
    BY <2>1, <2>3 DEF AllFull
<1>13. AllFull(p2)
  <2>1. DOMAIN p2 = 1 .. k2
    BY <1>6, <1>10
  <2>2. k2 * TierSize[2] <= Rest1(pool, n)
    BY <1>4
  <2>3. \A i \in 1 .. k2 : /\ p2[i].valid \in 1 .. TierSize[2] /\ p2[i].tier = 2
                           /\ p2[i].valid = TierSize[2]
    BY <1>10, <2>2
  <2> QED
    BY <2>1, <2>3 DEF AllFull
<1>14. Dense(p3)
  <2>1. DOMAIN p3 = 1 .. k3
    BY <1>6, <1>11
  <2>2. \A i \in 1 .. k3 : /\ p3[i].valid \in 1 .. TierSize[3] /\ p3[i].tier = 3
                           /\ i < k3 => p3[i].valid = TierSize[3]
    BY <1>11
  <2> QED
    BY <1>11, <2>1, <2>2 DEF Dense
<1>15. /\ BlocksOf(p1) = {<<1, pool[1][i]>> : i \in 1 .. k1}
       /\ Injective(pool[1]) => Distinct(p1)
  <2>1. FirstBlocks(p1, 1, pool[1], k1)
    BY <1>9 DEF FirstBlocks
  <2>2. k1 \in 0 .. Len(pool[1]) /\ pool[1] \in Seq(Nat) /\ 1 \in Tiers
    BY <1>4, <1>5
  <2>3. p1 \in Seq(Entries) /\ Len(p1) = k1
    BY <1>9
  <2> QED
    BY <2>1, <2>2, <2>3, BlocksOfTier
<1>16. /\ BlocksOf(p2) = {<<2, pool[2][i]>> : i \in 1 .. k2}
       /\ Injective(pool[2]) => Distinct(p2)
  <2>1. FirstBlocks(p2, 2, pool[2], k2)
    BY <1>10 DEF FirstBlocks
  <2>2. k2 \in 0 .. Len(pool[2]) /\ pool[2] \in Seq(Nat) /\ 2 \in Tiers
    BY <1>4, <1>5
  <2>3. p2 \in Seq(Entries) /\ Len(p2) = k2
    BY <1>10
  <2> QED
    BY <2>1, <2>2, <2>3, BlocksOfTier
<1>17. /\ BlocksOf(p3) = {<<3, pool[3][i]>> : i \in 1 .. k3}
       /\ Injective(pool[3]) => Distinct(p3)
  <2>1. FirstBlocks(p3, 3, pool[3], k3)
    BY <1>11 DEF FirstBlocks
  <2>2. k3 \in 0 .. Len(pool[3]) /\ pool[3] \in Seq(Nat) /\ 3 \in Tiers
    BY <1>4, <1>5
  <2>3. p3 \in Seq(Entries) /\ Len(p3) = k3
    BY <1>11
  <2> QED
    BY <2>1, <2>2, <2>3, BlocksOfTier
<1>18. /\ p1 \o p2 \in Seq(Entries)
       /\ BlocksOf(p1 \o p2) = BlocksOf(p1) \cup BlocksOf(p2)
       /\ AllFull(p1 \o p2)
       /\ Distinct(p1) /\ Distinct(p2) /\ BlocksOf(p1) \cap BlocksOf(p2) = {} => Distinct(p1 \o p2)
       /\ TokensIn(p1 \o p2) = TokensIn(p1) + TokensIn(p2)
  <2>1. p1 \o p2 \in Seq(Entries)
    BY <1>9, <1>10, JoinedElements
  <2>2. TokensIn(p1 \o p2) = TokensIn(p1) + TokensIn(p2)
    BY <1>9, <1>10, JoinedTokens
  <2> QED
    BY <1>9, <1>10, <1>12, <1>13, <2>1, <2>2, JoinedPages
<1> DEFINE both == p1 \o p2  all == both \o p3
<1>19. both \in Seq(Entries) /\ AllFull(both)
  BY <1>18
<1> HIDE DEF both
<1>20. /\ all \in Seq(Entries)
       /\ BlocksOf(all) = BlocksOf(both) \cup BlocksOf(p3)
       /\ Dense(all)
       /\ Distinct(both) /\ Distinct(p3) /\ BlocksOf(both) \cap BlocksOf(p3) = {} => Distinct(all)
       /\ TokensIn(all) = TokensIn(both) + TokensIn(p3)
  <2>1. all \in Seq(Entries)
    BY <1>11, <1>19, JoinedElements
  <2>2. TokensIn(all) = TokensIn(both) + TokensIn(p3)
    BY <1>11, <1>19, JoinedTokens
  <2> QED
    BY <1>11, <1>14, <1>19, <2>1, <2>2, JoinedPages
<1> HIDE DEF all
<1>21. PromptPages(pool, n) = all
  BY <1>1 DEF all, both
<1>22. TokensIn(all) = Least(n, (x + y) + z) /\ Least(n, (x + y) + z) \in Nat
  <2>1. TokensIn(all) = (TokensIn(p1) + TokensIn(p2)) + TokensIn(p3)
    BY <1>18, <1>20 DEF both
  <2>2. TokensIn(p1) = Least(x, n) /\ TokensIn(p2) = Least(y, n - x)
        /\ TokensIn(p3) = Least(z, (n - x) - y)
    BY <1>3, <1>9, <1>10, <1>11
  <2>3. x \in Nat /\ y \in Nat /\ z \in Nat /\ x <= n /\ y <= n - x
    BY <1>3, <1>4, <1>6
  <2> HIDE DEF x, y, z
  <2>4. Least(x, n) = x /\ Least(y, n - x) = y
    BY <2>3 DEF Least
  <2>5. (x + y) + Least(z, (n - x) - y) = Least(n, (x + y) + z)
    BY <2>3 DEF Least
  <2>6. Least(n, (x + y) + z) \in Nat
    BY <2>3 DEF Least
  <2> QED
    BY <2>1, <2>2, <2>4, <2>5, <2>6
<1>23. BlocksOf(all) = Pairs(Firsts(pool, n))
  <2>1. /\ Items(Firsts(pool, n)[1]) = {pool[1][i] : i \in 1 .. k1}
        /\ Items(Firsts(pool, n)[2]) = {pool[2][i] : i \in 1 .. k2}
        /\ Items(Firsts(pool, n)[3]) = {pool[3][i] : i \in 1 .. k3}
        /\ \A t \in Tiers : Items(Firsts(pool, n)[t]) \subseteq Nat
    <3>1. \A t \in Tiers :
            /\ Items(Firsts(pool, n)[t]) = {pool[t][i] : i \in 1 .. PromptBlocks(pool, n)[t]}
            /\ Items(Firsts(pool, n)[t]) \subseteq Nat
      BY PoolIsCut
    <3> QED
      BY <1>5, <3>1 DEF k1, k2, k3
  <2>2. BlocksOf(all) = (BlocksOf(p1) \cup BlocksOf(p2)) \cup BlocksOf(p3)
    BY <1>18, <1>20 DEF both
  <2> DEFINE first == Firsts(pool, n)
  <2>3. \A b : <<1, b>> \in BlocksOf(p1) <=> b \in Items(first[1])
    BY <1>15, <2>1
  <2>4. \A b : <<2, b>> \in BlocksOf(p2) <=> b \in Items(first[2])
    BY <1>16, <2>1
  <2>5. \A b : <<3, b>> \in BlocksOf(p3) <=> b \in Items(first[3])
    BY <1>17, <2>1
  <2>6. /\ \A pair \in BlocksOf(p1) : pair = <<1, pair[2]>> /\ pair[2] \in Nat
        /\ \A pair \in BlocksOf(p2) : pair = <<2, pair[2]>> /\ pair[2] \in Nat
        /\ \A pair \in BlocksOf(p3) : pair = <<3, pair[2]>> /\ pair[2] \in Nat
    <3>1. \A t \in Tiers : Items(first[t]) \subseteq Nat
      BY <2>1
    <3> HIDE DEF first
    <3>2. \A pair \in BlocksOf(p1) : pair = <<1, pair[2]>>
      BY <1>15
    <3>3. \A pair \in BlocksOf(p2) : pair = <<2, pair[2]>>
      BY <1>16
    <3>4. \A pair \in BlocksOf(p3) : pair = <<3, pair[2]>>
      BY <1>17
    <3> QED
      BY <1>5, <2>3, <2>4, <2>5, <3>1, <3>2, <3>3, <3>4
  <2> HIDE DEF first
  <2>7. ASSUME NEW pair \in BlocksOf(all) PROVE pair \in Pairs(first)
    <3>1. CASE pair \in BlocksOf(p1)
      BY <1>5, <2>3, <2>6, <3>1 DEF Pairs
    <3>2. CASE pair \in BlocksOf(p2)
      BY <1>5, <2>4, <2>6, <3>2 DEF Pairs
    <3>3. CASE pair \in BlocksOf(p3)
      BY <1>5, <2>5, <2>6, <3>3 DEF Pairs
    <3> QED
      BY <2>2, <3>1, <3>2, <3>3
  <2>8. ASSUME NEW pair \in Pairs(first) PROVE pair \in BlocksOf(all)
    <3>1. /\ pair = <<pair[1], pair[2]>> /\ pair[1] \in Tiers
          /\ pair[2] \in Items(first[pair[1]])
      BY DEF Pairs
    <3> QED
      BY <1>5, <2>2, <2>3, <2>4, <2>5, <3>1
  <2> QED
    BY <2>7, <2>8 DEF first
<1>24. ASSUME AllInjective(pool) PROVE Distinct(all)
  <2>1. Distinct(p1) /\ Distinct(p2) /\ Distinct(p3)
    BY <1>5, <1>15, <1>16, <1>17, <1>24 DEF AllInjective
  <2>2. BlocksOf(p1) \cap BlocksOf(p2) = {}
    BY <1>15, <1>16
  <2>3. (BlocksOf(p1) \cup BlocksOf(p2)) \cap BlocksOf(p3) = {}
    BY <1>15, <1>16, <1>17
  <2> QED
    BY <1>18, <1>20, <2>1, <2>2, <2>3 DEF both
<1> QED
  BY <1>2, <1>20, <1>21, <1>22, <1>23, <1>24

-----------------------------------------------------------------------------
(* The blocks of a tier that a table lists.                                *)

Listing(f, table, t) ==
  /\ f[0] = << >>
  /\ \A i \in 1 .. Len(table) :
       f[i] = IF table[i].tier = t THEN Append(f[i - 1], table[i].block) ELSE f[i - 1]

(* ListedBlocks goes through the table page by page.                       *)
LEMMA ListingsAre ==
  ASSUME NEW table \in Seq(Entries), NEW t \in Tiers
  PROVE  \E f \in [0 .. Len(table) -> Seq(Nat)] :
           Listing(f, table, t) /\ ListedBlocks(table, t) = f[Len(table)]
<1> DEFINE n == Len(table)
           empty == << >>
           V == Seq(Nat)
           Next(i, l) == IF table[i].tier = t THEN Append(l, table[i].block) ELSE l
           step == [pair \in (1 .. n) \X V |-> Next(pair[1], pair[2])]
           IsList(f) == f = [i \in 0 .. n |-> IF i = 0 THEN empty ELSE Next(i, f[i - 1])]
           upto == CHOOSE f : IsList(f)
<1>1. n \in Nat /\ empty \in V /\ \A i \in 1 .. n : \A l \in V : Next(i, l) \in V
  <2>1. \A i \in 1 .. n : table[i] \in Entries
    OBVIOUS
  <2>2. \A i \in 1 .. n : table[i].block \in Nat
    BY <2>1, EntryFields
  <2> QED
    BY <2>2
<1>2. ListedBlocks(table, t) = upto[n]
  BY DEF ListedBlocks
<1>3. \A i \in 1 .. n : \A l : Next(i, l) = IF table[i].tier = t THEN Append(l, table[i].block) ELSE l
  OBVIOUS
<1> HIDE DEF n, empty, V, Next
<1>4. step \in [(1 .. n) \X V -> V] /\ \A i \in 1 .. n, l \in V : step[<<i, l>>] = Next(i, l)
  BY <1>1
<1> HIDE DEF step
<1>5. PICK f \in [0 .. n -> V] : Steps(f, n, empty, step)
  BY <1>1, <1>4, StepwiseFunction
<1>6. f[0] = empty /\ \A i \in 1 .. n : f[i] = Next(i, f[i - 1])
  <2>1. \A i \in 1 .. n : f[i - 1] \in V
    BY <1>1
  <2> QED
    BY <1>4, <1>5, <2>1 DEF Steps
<1>7. IsList(f)
  <2>1. \A i \in 0 .. n : f[i] = IF i = 0 THEN empty ELSE Next(i, f[i - 1])
    BY <1>1, <1>6
  <2> QED
    BY <2>1
<1>8. IsList(upto)
  <2> HIDE DEF IsList
  <2> QED
    BY <1>7
<1>9. upto = [i \in 0 .. n |-> IF i = 0 THEN empty ELSE Next(i, upto[i - 1])]
  BY <1>8
<1> HIDE DEF upto, IsList
<1> DEFINE P == {i \in 0 .. n : upto[i] = f[i]}
<1>10. 0 \in P
  BY <1>1, <1>6, <1>9
<1>11. ASSUME NEW i \in 0 .. n - 1, i \in P PROVE i + 1 \in P
  <2>1. i + 1 \in 1 .. n /\ (i + 1) - 1 = i /\ i + 1 \in 0 .. n /\ i + 1 # 0
    BY <1>1
  <2>2. upto[i + 1] = Next(i + 1, upto[i]) /\ f[i + 1] = Next(i + 1, f[i])
    BY <1>6, <1>9, <2>1
  <2> QED
    BY <1>11, <2>1, <2>2
<1> HIDE DEF P
<1>12. 0 .. n \subseteq P
  BY <1>1, <1>10, <1>11, InductionOnSets
<1>13. upto[n] = f[n]
  BY <1>1, <1>12 DEF P
<1>14. Listing(f, table, t)
  BY <1>3, <1>6 DEF Listing, n, empty
<1> QED
  BY <1>2, <1>13, <1>14 DEF n, V

(* A list, or the list with one more element.                              *)
LEMMA OneMoreItem ==
  ASSUME NEW l \in Seq(Nat), NEW b \in Nat
  PROVE  /\ Append(l, b) \in Seq(Nat) /\ Items(Append(l, b)) = Items(l) \cup {b}
         /\ Injective(l) /\ b \notin Items(l) => Injective(Append(l, b))
<1>1. Append(l, b) \in Seq(Nat) /\ DOMAIN Append(l, b) = 1 .. Len(l) + 1 /\ Len(l) \in Nat
  OBVIOUS
<1>2. DOMAIN l = 1 .. Len(l) /\ Append(l, b)[Len(l) + 1] = b
      /\ \A i \in 1 .. Len(l) : Append(l, b)[i] = l[i]
  OBVIOUS
<1>3. 1 .. Len(l) + 1 = (1 .. Len(l)) \cup {Len(l) + 1}
  BY <1>1
<1> DEFINE m == Append(l, b)  n == Len(l)
<1> HIDE DEF m, n
<1>4. Items(m) = Items(l) \cup {b}
  BY <1>1, <1>2, <1>3 DEF Items, m, n
<1>5. ASSUME Injective(l), b \notin Items(l) PROVE Injective(m)
  <2>1. DOMAIN m = (1 .. n) \cup {n + 1} /\ DOMAIN l = 1 .. n /\ m[n + 1] = b
        /\ \A i \in 1 .. n : m[i] = l[i]
    BY <1>1, <1>2, <1>3 DEF m, n
  <2> SUFFICES ASSUME NEW i \in DOMAIN m, NEW j \in DOMAIN m, m[i] = m[j] PROVE i = j
    BY DEF Injective
  <2>2. CASE i \in 1 .. n /\ j \in 1 .. n
    BY <1>5, <2>1, <2>2 DEF Injective
  <2>3. CASE i \in 1 .. n /\ j = n + 1
    BY <1>5, <2>1, <2>3 DEF Items
  <2>4. CASE j \in 1 .. n /\ i = n + 1
    BY <1>5, <2>1, <2>4 DEF Items
  <2> QED
    BY <2>1, <2>2, <2>3, <2>4
<1> QED
  BY <1>1, <1>4, <1>5 DEF m

(* It lists the blocks of the tier, each once if the table has it once.    *)
LEMMA ListedBlocksAre ==
  ASSUME NEW table \in Seq(Entries), NEW t \in Tiers
  PROVE  /\ ListedBlocks(table, t) \in Seq(Nat)
         /\ Items(ListedBlocks(table, t)) = {b \in Nat : <<t, b>> \in BlocksOf(table)}
         /\ Distinct(table) => Injective(ListedBlocks(table, t))
<1> DEFINE n == Len(table)
<1>1. PICK f \in [0 .. n -> Seq(Nat)] : Listing(f, table, t) /\ ListedBlocks(table, t) = f[n]
  BY ListingsAre
<1>2. n \in Nat /\ DOMAIN table = 1 .. n
  OBVIOUS
<1>3. \A i \in 1 .. n : table[i].tier \in Tiers /\ table[i].block \in Nat
  <2>1. \A i \in 1 .. n : table[i] \in Entries
    OBVIOUS
  <2> QED
    BY <2>1, EntryFields
<1>4. f[0] = << >> /\ \A i \in 1 .. n :
        f[i] = IF table[i].tier = t THEN Append(f[i - 1], table[i].block) ELSE f[i - 1]
  BY <1>1 DEF Listing
<1> DEFINE Listed(k) == {table[i].block : i \in {j \in 1 .. k : table[j].tier = t}}
           P == {k \in 0 .. n : /\ Items(f[k]) = Listed(k)
                                /\ Distinct(table) => Injective(f[k])}
<1> HIDE DEF n
<1>5. 0 \in P
  <2>1. Items(<< >>) = {} /\ Injective(<< >>)
    BY DEF Items, Injective
  <2>2. Listed(0) = {}
    OBVIOUS
  <2> QED
    BY <1>2, <1>4, <2>1, <2>2
<1>6. ASSUME NEW k \in 0 .. n - 1, k \in P PROVE k + 1 \in P
  <2>1. /\ k + 1 \in 1 .. n /\ (k + 1) - 1 = k /\ k + 1 \in 0 .. n
        /\ 1 .. k + 1 = (1 .. k) \cup {k + 1} /\ k + 1 \notin 1 .. k
        /\ k \in 0 .. n /\ \A i \in 1 .. k : i \in 1 .. n
    <3>1. k \in Nat /\ k <= n - 1
      BY <1>2
    <3>2. 1 .. k + 1 = (1 .. k) \cup {k + 1} /\ k + 1 \notin 1 .. k
      BY <3>1
    <3>3. k + 1 \in 1 .. n /\ (k + 1) - 1 = k /\ k + 1 \in 0 .. n /\ k \in 0 .. n
      BY <1>2, <3>1
    <3>4. \A i \in 1 .. k : i \in 1 .. n
      BY <1>2, <3>1
    <3> QED
      BY <3>2, <3>3, <3>4
  <2>2. Items(f[k]) = Listed(k) /\ (Distinct(table) => Injective(f[k])) /\ f[k] \in Seq(Nat)
    BY <1>6, <2>1
  <2>3. CASE table[k + 1].tier # t
    <3>1. f[k + 1] = f[k]
      BY <1>4, <2>1, <2>3
    <3>2. Listed(k + 1) = Listed(k)
      BY <2>1, <2>3
    <3> QED
      BY <2>1, <2>2, <3>1, <3>2
  <2>4. CASE table[k + 1].tier = t
    <3> DEFINE b == table[k + 1].block
    <3>1. f[k + 1] = Append(f[k], b) /\ b \in Nat
      BY <1>3, <1>4, <2>1, <2>4
    <3>2. Listed(k + 1) = Listed(k) \cup {b}
      BY <2>1, <2>4
    <3>3. Distinct(table) => b \notin Listed(k)
      BY <1>2, <2>1, <2>4 DEF Distinct
    <3> HIDE DEF b, Listed
    <3> DEFINE l == f[k]
    <3>4. l \in Seq(Nat)
      BY <2>2
    <3> HIDE DEF l
    <3>5. Items(Append(l, b)) = Items(l) \cup {b}
          /\ (Injective(l) /\ b \notin Items(l) => Injective(Append(l, b)))
      BY <3>1, <3>4, OneMoreItem
    <3> QED
      BY <2>1, <2>2, <3>1, <3>2, <3>3, <3>5 DEF l
  <2> QED
    BY <2>3, <2>4
<1> HIDE DEF P
<1>7. 0 .. n \subseteq P
  BY <1>2, <1>5, <1>6, InductionOnSets
<1>8. Items(f[n]) = Listed(n) /\ (Distinct(table) => Injective(f[n])) /\ f[n] \in Seq(Nat)
  BY <1>2, <1>7 DEF P
<1>9. Listed(n) = {b \in Nat : <<t, b>> \in BlocksOf(table)}
  <2>1. ASSUME NEW i \in 1 .. n, table[i].tier = t
        PROVE  table[i].block \in Nat /\ <<t, table[i].block>> \in BlocksOf(table)
    BY <1>2, <1>3, <2>1 DEF BlocksOf
  <2>2. ASSUME NEW b \in Nat, <<t, b>> \in BlocksOf(table) PROVE b \in Listed(n)
    <3>1. PICK i \in 1 .. n : <<t, b>> = <<table[i].tier, table[i].block>>
      BY <1>2, <2>2 DEF BlocksOf
    <3> QED
      BY <3>1
  <2> QED
    BY <2>1, <2>2
<1> QED
  BY <1>1, <1>8, <1>9

(* The same entries backwards.                                             *)
LEMMA ReversedTable ==
  ASSUME NEW table \in Seq(Entries)
  PROVE  /\ Reverse(table) \in Seq(Entries)
         /\ BlocksOf(Reverse(table)) = BlocksOf(table)
         /\ Distinct(table) => Distinct(Reverse(table))
<1> DEFINE n == Len(table)  back == Reverse(table)
<1>1. n \in Nat /\ DOMAIN table = 1 .. n /\ \A i \in 1 .. n : table[i] \in Entries
  OBVIOUS
<1>2. back = [i \in 1 .. n |-> table[(n - i) + 1]]
  BY DEF Reverse
<1> HIDE DEF n, back
<1>3. \A i \in 1 .. n : (n - i) + 1 \in 1 .. n /\ (n - ((n - i) + 1)) + 1 = i
  BY <1>1
<1>4. DOMAIN back = 1 .. n /\ \A i \in 1 .. n : back[i] = table[(n - i) + 1]
  BY <1>2
<1>5. back \in Seq(Entries)
  <2>1. \A i \in 1 .. n : back[i] \in Entries
    BY <1>1, <1>3, <1>4
  <2>2. back = [i \in 1 .. n |-> back[i]]
    BY <1>2
  <2> QED
    BY <1>1, <2>1, <2>2
<1>6. BlocksOf(back) = BlocksOf(table)
  <2>1. ASSUME NEW i \in 1 .. n PROVE <<back[i].tier, back[i].block>> \in BlocksOf(table)
    BY <1>1, <1>3, <1>4 DEF BlocksOf
  <2>2. ASSUME NEW i \in 1 .. n PROVE <<table[i].tier, table[i].block>> \in BlocksOf(back)
    <3>1. (n - i) + 1 \in DOMAIN back /\ back[(n - i) + 1] = table[i]
      BY <1>3, <1>4
    <3> QED
      BY <3>1 DEF BlocksOf
  <2>3. /\ BlocksOf(back) = {<<back[i].tier, back[i].block>> : i \in 1 .. n}
        /\ BlocksOf(table) = {<<table[i].tier, table[i].block>> : i \in 1 .. n}
    BY <1>1, <1>4 DEF BlocksOf
  <2> QED
    BY <2>1, <2>2, <2>3
<1>7. ASSUME Distinct(table) PROVE Distinct(back)
  <2> SUFFICES ASSUME NEW i \in 1 .. n, NEW j \in 1 .. n,
                      back[i].tier = back[j].tier, back[i].block = back[j].block
               PROVE  i = j
    BY <1>4 DEF Distinct
  <2>1. (n - i) + 1 = (n - j) + 1
    BY <1>1, <1>3, <1>4, <1>7 DEF Distinct
  <2> QED
    BY <1>1, <2>1
<1> QED
  BY <1>5, <1>6, <1>7 DEF back

(* A block of a table is a tier and a number.                              *)
LEMMA BlocksArePairs ==
  ASSUME NEW table \in Seq(Entries)
  PROVE  \A pair \in BlocksOf(table) :
           pair = <<pair[1], pair[2]>> /\ pair[1] \in Tiers /\ pair[2] \in Nat
<1> SUFFICES ASSUME NEW pair \in BlocksOf(table)
             PROVE  pair = <<pair[1], pair[2]>> /\ pair[1] \in Tiers /\ pair[2] \in Nat
  OBVIOUS
<1>1. PICK i \in DOMAIN table : pair = <<table[i].tier, table[i].block>>
  BY DEF BlocksOf
<1>2. table[i] \in Entries
  OBVIOUS
<1>3. table[i].tier \in Tiers /\ table[i].block \in Nat
  BY <1>2, EntryFields
<1> QED
  BY <1>1, <1>3

(* The blocks of a table go to the ends of the lists.                      *)
Returned(free, table) == [t \in Tiers |-> free[t] \o ListedBlocks(table, t)]

(* The lists have the blocks of the table then, each once.                 *)
LEMMA ReturnedBlocks ==
  ASSUME NEW free \in Pools, NEW table \in Seq(Entries)
  PROVE  /\ Returned(free, table) \in Pools
         /\ Pairs(Returned(free, table)) = Pairs(free) \cup BlocksOf(table)
         /\ AllInjective(free) /\ Distinct(table) /\ BlocksOf(table) \cap Pairs(free) = {}
              => AllInjective(Returned(free, table))
<1> DEFINE more == Returned(free, table)
<1>1. ASSUME NEW t \in Tiers
      PROVE  /\ more[t] \in Seq(Nat)
             /\ Items(more[t]) = Items(free[t]) \cup {b \in Nat : <<t, b>> \in BlocksOf(table)}
             /\ Injective(free[t]) /\ Distinct(table)
                  /\ Items(free[t]) \cap {b \in Nat : <<t, b>> \in BlocksOf(table)} = {}
                => Injective(more[t])
  <2> DEFINE a == free[t]  b == ListedBlocks(table, t)
  <2>1. more[t] = a \o b
    BY DEF Returned
  <2>2. a \in Seq(Nat) /\ b \in Seq(Nat)
    BY ListedBlocksAre DEF Pools
  <2>3. Items(b) = {x \in Nat : <<t, x>> \in BlocksOf(table)} /\ (Distinct(table) => Injective(b))
    BY ListedBlocksAre
  <2> HIDE DEF a, b, more
  <2>4. /\ a \o b \in Seq(Nat)
        /\ Items(a \o b) = Items(a) \cup Items(b)
        /\ Injective(a) /\ Injective(b) /\ Items(a) \cap Items(b) = {} => Injective(a \o b)
    BY <2>2, JoinItems
  <2> QED
    BY <2>1, <2>3, <2>4 DEF a
<1>2. more \in Pools
  BY <1>1 DEF Returned, Pools
<1> HIDE DEF more
<1>3. Pairs(more) = Pairs(free) \cup BlocksOf(table)
  <2>1. ASSUME NEW pair \in Tiers \X Nat
        PROVE  pair \in Pairs(more) <=> pair \in Pairs(free) \/ pair \in BlocksOf(table)
    <3>1. pair = <<pair[1], pair[2]>> /\ pair[1] \in Tiers /\ pair[2] \in Nat
      OBVIOUS
    <3>2. pair[2] \in Items(more[pair[1]])
            <=> pair[2] \in Items(free[pair[1]]) \/ <<pair[1], pair[2]>> \in BlocksOf(table)
      BY <1>1, <3>1
    <3> QED
      BY <3>1, <3>2 DEF Pairs
  <2>2. \A pair \in BlocksOf(table) : pair \in Tiers \X Nat
    BY BlocksArePairs
  <2>3. \A pair : pair \in Pairs(more) \/ pair \in Pairs(free) => pair \in Tiers \X Nat
    BY DEF Pairs
  <2> QED
    BY <2>1, <2>2, <2>3
<1>4. ASSUME AllInjective(free), Distinct(table), BlocksOf(table) \cap Pairs(free) = {}
      PROVE  AllInjective(more)
  <2> SUFFICES ASSUME NEW t \in Tiers PROVE Injective(more[t])
    BY DEF AllInjective
  <2>1. Items(free[t]) \cap {b \in Nat : <<t, b>> \in BlocksOf(table)} = {}
    <3> SUFFICES ASSUME NEW b \in Nat, b \in Items(free[t]), <<t, b>> \in BlocksOf(table)
                 PROVE  FALSE
      OBVIOUS
    <3>1. <<t, b>> \in Pairs(free)
      BY DEF Pairs
    <3> QED
      BY <1>4, <3>1
  <2>2. Injective(free[t])
    BY <1>4 DEF AllInjective
  <2> QED
    BY <1>1, <1>4, <2>1, <2>2
<1> QED
  BY <1>2, <1>3, <1>4 DEF more

(* The blocks of a table that is cut in two are divided between the parts. *)
LEMMA CutBlocks ==
  ASSUME NEW table \in Seq(Entries), NEW k \in 0 .. Len(table)
  PROVE  /\ BlocksOf(SubSeq(table, 1, k)) \cup BlocksOf(SubSeq(table, k + 1, Len(table)))
              = BlocksOf(table)
         /\ Distinct(table) =>
              /\ Distinct(SubSeq(table, 1, k))
              /\ Distinct(SubSeq(table, k + 1, Len(table)))
              /\ BlocksOf(SubSeq(table, 1, k)) \cap BlocksOf(SubSeq(table, k + 1, Len(table))) = {}
         /\ Dense(table) => Dense(SubSeq(table, 1, k))
<1> DEFINE n == Len(table)
           a == SubSeq(table, 1, k)
           b == SubSeq(table, k + 1, n)
<1>1. /\ a \in Seq(Entries) /\ Len(a) = k /\ \A i \in 1 .. k : a[i] = table[i]
      /\ b \in Seq(Entries) /\ Len(b) = n - k /\ \A i \in 1 .. n - k : b[i] = table[k + i]
  BY CutTokens
<1>2. n \in Nat /\ k \in 0 .. n /\ DOMAIN table = 1 .. n /\ Len(table) = n
  OBVIOUS
<1> HIDE DEF n, a, b
<1>3. DOMAIN a = 1 .. k /\ DOMAIN b = 1 .. n - k
  BY <1>1, <1>2
<1>4. \A i \in 1 .. k : i \in 1 .. n
  BY <1>2
<1>5. \A i \in 1 .. n - k : k + i \in 1 .. n /\ k + i \notin 1 .. k
  BY <1>2
<1>6. \A i \in 1 .. n : i \in 1 .. k \/ (i - k \in 1 .. n - k /\ k + (i - k) = i)
  BY <1>2
<1>7. /\ BlocksOf(table) = {<<table[i].tier, table[i].block>> : i \in 1 .. n}
      /\ BlocksOf(a) = {<<table[i].tier, table[i].block>> : i \in 1 .. k}
      /\ BlocksOf(b) = {<<table[k + i].tier, table[k + i].block>> : i \in 1 .. n - k}
  BY <1>1, <1>2, <1>3 DEF BlocksOf
<1>8. BlocksOf(a) \cup BlocksOf(b) = BlocksOf(table)
  <2>1. ASSUME NEW i \in 1 .. n
        PROVE  <<table[i].tier, table[i].block>> \in BlocksOf(a) \cup BlocksOf(b)
    <3>1. CASE i \in 1 .. k
      BY <1>7, <3>1
    <3>2. CASE i - k \in 1 .. n - k /\ k + (i - k) = i
      <4> DEFINE j == i - k
      <4>1. j \in 1 .. n - k /\ k + j = i
        BY <3>2
      <4> HIDE DEF j
      <4>2. <<table[k + j].tier, table[k + j].block>> \in BlocksOf(b)
        BY <1>7, <4>1
      <4> QED
        BY <4>1, <4>2
    <3> QED
      BY <1>6, <3>1, <3>2
  <2> QED
    BY <1>4, <1>5, <1>7, <2>1
<1>9. ASSUME Distinct(table)
      PROVE  Distinct(a) /\ Distinct(b) /\ BlocksOf(a) \cap BlocksOf(b) = {}
  <2>1. \A i, j \in 1 .. n :
          table[i].tier = table[j].tier /\ table[i].block = table[j].block => i = j
    BY <1>2, <1>9 DEF Distinct
  <2>2. Distinct(a)
    BY <1>1, <1>3, <1>4, <2>1 DEF Distinct
  <2>3. Distinct(b)
    <3> SUFFICES ASSUME NEW i \in 1 .. n - k, NEW j \in 1 .. n - k,
                        b[i].tier = b[j].tier, b[i].block = b[j].block
                 PROVE  i = j
      BY <1>3 DEF Distinct
    <3>1. b[i] = table[k + i] /\ b[j] = table[k + j]
      BY <1>1
    <3>2. table[k + i].tier = table[k + j].tier /\ table[k + i].block = table[k + j].block
      BY <3>1
    <3>3. k + i \in 1 .. n /\ k + j \in 1 .. n
      BY <1>5
    <3> DEFINE x == k + i  y == k + j
    <3>4. x \in 1 .. n /\ y \in 1 .. n /\ table[x].tier = table[y].tier
          /\ table[x].block = table[y].block
      BY <3>2, <3>3
    <3> HIDE DEF x, y
    <3>5. x = y
      BY <2>1, <3>4
    <3> QED
      BY <1>2, <3>5 DEF x, y
  <2>4. BlocksOf(a) \cap BlocksOf(b) = {}
    BY <1>4, <1>5, <1>7, <2>1
  <2> QED
    BY <2>2, <2>3, <2>4
<1>10. ASSUME Dense(table) PROVE Dense(a)
  <2>1. \A i \in 1 .. n : /\ table[i].valid \in 1 .. TierSize[table[i].tier]
                          /\ i < n => table[i].valid = TierSize[table[i].tier]
    BY <1>2, <1>10 DEF Dense
  <2>2. \A i \in 1 .. k : i < k => i < n
    BY <1>2
  <2> QED
    BY <1>1, <1>3, <1>4, <2>1, <2>2 DEF Dense
<1> QED
  BY <1>8, <1>9, <1>10 DEF a, b, n

(* The last page with another number of tokens.                            *)
WithLast(table, v) ==
  [i \in 1 .. Len(table) |-> IF i = Len(table) THEN [table[i] EXCEPT !.valid = v] ELSE table[i]]

(* This changes the number of tokens and nothing else.                     *)
LEMMA LastChanged ==
  ASSUME NEW table \in Seq(Entries), table # << >>, NEW v \in Nat
  PROVE  /\ WithLast(table, v) \in Seq(Entries)
         /\ TokensIn(WithLast(table, v)) + table[Len(table)].valid = TokensIn(table) + v
         /\ TokensIn(WithLast(table, v)) \in Nat
         /\ BlocksOf(WithLast(table, v)) = BlocksOf(table)
         /\ Distinct(table) => Distinct(WithLast(table, v))
         /\ Dense(table) /\ v \in 1 .. TierSize[table[Len(table)].tier]
              => Dense(WithLast(table, v))
<1> DEFINE n == Len(table)  new == WithLast(table, v)
           last == [table[n] EXCEPT !.valid = v]
<1>1. n \in Nat \ {0} /\ n \in 1 .. n /\ DOMAIN table = 1 .. n
      /\ \A i \in 1 .. n : table[i] \in Entries
  OBVIOUS
<1>2. /\ last \in Entries /\ last.tier = table[n].tier /\ last.block = table[n].block
      /\ last.valid = v
  <2> DEFINE e == table[n]
  <2>1. e \in Entries
    BY <1>1
  <2> HIDE DEF e
  <2>2. /\ [e EXCEPT !.valid = v] \in Entries /\ [e EXCEPT !.valid = v].tier = e.tier
        /\ [e EXCEPT !.valid = v].block = e.block /\ [e EXCEPT !.valid = v].valid = v
    BY <2>1 DEF Entries
  <2> QED
    BY <2>2 DEF e
<1>3. new = [i \in 1 .. n |-> IF i = n THEN last ELSE table[i]]
  BY DEF WithLast
<1>4. Len(table) = n
  OBVIOUS
<1> HIDE DEF n, new, last
<1>5. DOMAIN new = 1 .. n /\ new[n] = last /\ \A i \in 1 .. n : i # n => new[i] = table[i]
  BY <1>1, <1>3
<1>6. new \in Seq(Entries) /\ Len(new) = n /\ new # << >>
  <2>1. \A i \in 1 .. n : new[i] \in Entries
    BY <1>1, <1>2, <1>5
  <2>2. new = [i \in 1 .. n |-> new[i]]
    BY <1>3
  <2>3. new \in Seq(Entries) /\ Len(new) = n
    BY <1>1, <2>1, <2>2
  <2> QED
    BY <1>1, <2>3
<1>7. \A i \in 1 .. n : new[i].tier = table[i].tier /\ new[i].block = table[i].block
  BY <1>2, <1>5
<1>8. BlocksOf(new) = BlocksOf(table) /\ (Distinct(table) => Distinct(new))
  <2>1. BlocksOf(new) = BlocksOf(table)
    BY <1>1, <1>5, <1>7 DEF BlocksOf
  <2>2. Distinct(table) => Distinct(new)
    BY <1>1, <1>5, <1>7 DEF Distinct
  <2> QED
    BY <2>1, <2>2
<1>9. SubSeq(new, 1, n - 1) = SubSeq(table, 1, n - 1)
  <2>1. n - 1 \in 0 .. n
    BY <1>1
  <2> DEFINE k == n - 1
  <2>2. /\ SubSeq(new, 1, k) \in Seq(Entries) /\ Len(SubSeq(new, 1, k)) = k
        /\ \A i \in 1 .. k : SubSeq(new, 1, k)[i] = new[i]
    BY <1>6, <2>1, CutTokens
  <2>3. /\ SubSeq(table, 1, k) \in Seq(Entries) /\ Len(SubSeq(table, 1, k)) = k
        /\ \A i \in 1 .. k : SubSeq(table, 1, k)[i] = table[i]
    BY <1>4, <2>1, CutTokens
  <2>4. \A i \in 1 .. k : new[i] = table[i]
    BY <1>1, <1>5
  <2> HIDE DEF k
  <2>5. SubSeq(new, 1, k) = SubSeq(table, 1, k)
    <3> DEFINE x == SubSeq(new, 1, k)  y == SubSeq(table, 1, k)
    <3>1. x \in Seq(Entries) /\ y \in Seq(Entries) /\ Len(x) = Len(y)
          /\ \A i \in 1 .. Len(x) : x[i] = y[i]
      BY <2>2, <2>3, <2>4
    <3> HIDE DEF x, y
    <3>2. x = y
      BY <3>1
    <3> QED
      BY <3>2 DEF x, y
  <2> QED
    BY <2>5 DEF k
<1>10. /\ TokensIn(table) = TokensIn(SubSeq(table, 1, n - 1)) + table[n].valid
       /\ TokensIn(SubSeq(table, 1, n - 1)) \in Nat
  BY <1>4, LastPage
<1>11. TokensIn(new) = TokensIn(SubSeq(new, 1, n - 1)) + new[n].valid
  BY <1>6, LastPage
<1>12. table[n].valid \in Nat
  BY <1>1, EntryFields
<1>13. TokensIn(new) + table[n].valid = TokensIn(table) + v /\ TokensIn(new) \in Nat
  <2> DEFINE before == TokensIn(SubSeq(table, 1, n - 1))  was == table[n].valid
  <2>1. new[n].valid = v
    BY <1>2, <1>5
  <2>2. /\ before \in Nat /\ was \in Nat
        /\ TokensIn(table) = before + was /\ TokensIn(new) = before + v
    BY <1>9, <1>10, <1>11, <1>12, <2>1
  <2> HIDE DEF before, was
  <2> QED
    BY <2>2 DEF was
<1>14. ASSUME Dense(table), v \in 1 .. TierSize[table[n].tier] PROVE Dense(new)
  <2>1. \A i \in 1 .. n : /\ table[i].valid \in 1 .. TierSize[table[i].tier]
                          /\ i < n => table[i].valid = TierSize[table[i].tier]
    BY <1>1, <1>4, <1>14 DEF Dense
  <2>2. \A i \in 1 .. n : i < n => i # n
    BY <1>1
  <2> SUFFICES ASSUME NEW i \in 1 .. n
               PROVE  /\ new[i].valid \in 1 .. TierSize[new[i].tier]
                      /\ i < n => new[i].valid = TierSize[new[i].tier]
    BY <1>5, <1>6 DEF Dense
  <2>3. CASE i = n
    BY <1>2, <1>5, <1>14, <2>2, <2>3
  <2>4. CASE i # n
    BY <1>5, <2>1, <2>4
  <2> QED
    BY <2>3, <2>4
<1> QED
  BY <1>4, <1>6, <1>8, <1>13, <1>14 DEF new

-----------------------------------------------------------------------------
(* The invariant.                                                          *)

PagingTypeOK ==
  /\ pageTable \in [PagedSeqs -> Seq(Entries)]
  /\ freeBlocks \in Pools
  /\ bitmapFree \in [Tiers -> SUBSET Nat]
  /\ \A t \in Tiers : IsFiniteSet(bitmapFree[t])
  /\ hasCsrc \in BOOLEAN
  /\ stored \in [PagedSeqs -> Nat]

TablesHold ==
  \A s \in PagedSeqs : Dense(pageTable[s]) /\ TokensIn(pageTable[s]) = stored[s]

AllBlocks == {pair \in Tiers \X Nat : pair[2] \in 0 .. TierBlocks[pair[1]] - 1}

(* Every block is in one of the lists, in one page of one table, or lost,  *)
(* and in no two of these.                                                 *)
Exact(table, free, lost) ==
  /\ AllInjective(free)
  /\ Pairs(free) \cap lost = {}
  /\ \A s \in PagedSeqs : /\ Distinct(table[s])
                          /\ BlocksOf(table[s]) \cap (Pairs(free) \cup lost) = {}
  /\ \A s, u \in PagedSeqs : s # u => BlocksOf(table[s]) \cap BlocksOf(table[u]) = {}
  /\ \A pair \in AllBlocks :
       pair \in Pairs(free) \cup lost \/ \E s \in PagedSeqs : pair \in BlocksOf(table[s])

BlocksPlaced == ~hasCsrc => Exact(pageTable, freeBlocks, forgotten)

PagingInv == PagingTypeOK /\ TablesHold /\ BlocksPlaced

(* One table changes, and its blocks, those of the lists and the lost ones *)
(* are divided anew.                                                       *)
Divided(blocks, free, lost) ==
  blocks \cap Pairs(free) = {} /\ blocks \cap lost = {} /\ Pairs(free) \cap lost = {}

(* Then every block is still in exactly one part.                          *)
LEMMA TableMoves ==
  ASSUME NEW table \in [PagedSeqs -> Seq(Entries)], NEW free \in Pools, NEW lost,
         NEW s \in PagedSeqs, NEW new \in Seq(Entries), NEW more \in Pools, NEW gone,
         Exact(table, free, lost), Distinct(new), AllInjective(more),
         Divided(BlocksOf(new), more, gone),
         BlocksOf(new) \cup (Pairs(more) \cup gone)
           = BlocksOf(table[s]) \cup (Pairs(free) \cup lost)
  PROVE  Exact([table EXCEPT ![s] = new], more, gone)
<1> DEFINE after == [table EXCEPT ![s] = new]
           B(u) == BlocksOf(table[u])
           A(u) == BlocksOf(after[u])
           N == BlocksOf(new)
           F == Pairs(free)
           G == Pairs(more)
<1>1. /\ A(s) = N /\ after[s] = new
      /\ \A u \in PagedSeqs : u # s => A(u) = B(u) /\ after[u] = table[u]
  OBVIOUS
<1>2. /\ F \cap lost = {}
      /\ \A u \in PagedSeqs : Distinct(table[u]) /\ B(u) \cap (F \cup lost) = {}
      /\ \A u, w \in PagedSeqs : u # w => B(u) \cap B(w) = {}
      /\ \A pair \in AllBlocks : pair \in F \cup lost \/ \E u \in PagedSeqs : pair \in B(u)
  BY DEF Exact
<1>3. /\ N \cap G = {} /\ N \cap gone = {} /\ G \cap gone = {}
      /\ N \cup (G \cup gone) = B(s) \cup (F \cup lost)
  BY DEF Divided
<1> HIDE DEF after, A, B, N, F, G
<1>4. \A u \in PagedSeqs : Distinct(after[u])
  BY <1>1, <1>2
<1>5. \A u \in PagedSeqs : u # s => B(u) \cap (N \cup (G \cup gone)) = {}
  <2> SUFFICES ASSUME NEW u \in PagedSeqs, u # s PROVE B(u) \cap (N \cup (G \cup gone)) = {}
    OBVIOUS
  <2>1. B(u) \cap B(s) = {} /\ B(u) \cap (F \cup lost) = {}
    BY <1>2
  <2> QED
    BY <1>3, <2>1
<1>6. \A u \in PagedSeqs : A(u) \cap (G \cup gone) = {}
  <2> SUFFICES ASSUME NEW u \in PagedSeqs PROVE A(u) \cap (G \cup gone) = {}
    OBVIOUS
  <2>1. CASE u = s
    BY <1>1, <1>3, <2>1
  <2>2. CASE u # s
    <3>1. A(u) = B(u) /\ B(u) \cap (N \cup (G \cup gone)) = {}
      BY <1>1, <1>5, <2>2
    <3> QED
      BY <3>1
  <2> QED
    BY <2>1, <2>2
<1>7. \A u, w \in PagedSeqs : u # w => A(u) \cap A(w) = {}
  <2> SUFFICES ASSUME NEW u \in PagedSeqs, NEW w \in PagedSeqs, u # w
               PROVE  A(u) \cap A(w) = {}
    OBVIOUS
  <2>1. CASE u = s
    <3>1. A(w) = B(w) /\ A(u) = N /\ B(w) \cap (N \cup (G \cup gone)) = {}
      BY <1>1, <1>5, <2>1
    <3> QED
      BY <3>1
  <2>2. CASE w = s
    <3>1. A(u) = B(u) /\ A(w) = N /\ B(u) \cap (N \cup (G \cup gone)) = {}
      BY <1>1, <1>5, <2>2
    <3> QED
      BY <3>1
  <2>3. CASE u # s /\ w # s
    BY <1>1, <1>2, <2>3
  <2> QED
    BY <2>1, <2>2, <2>3
<1>8. ASSUME NEW pair \in AllBlocks
      PROVE  pair \in G \cup gone \/ \E u \in PagedSeqs : pair \in A(u)
  <2>1. CASE pair \in F \cup lost
    <3>1. pair \in N \/ pair \in G \cup gone
      BY <1>3, <2>1
    <3> QED
      BY <1>1, <3>1
  <2>2. ASSUME NEW u \in PagedSeqs, pair \in B(u)
        PROVE  pair \in G \cup gone \/ \E w \in PagedSeqs : pair \in A(w)
    <3>1. CASE u = s
      <4>1. pair \in N \/ pair \in G \cup gone
        BY <1>3, <2>2, <3>1
      <4> QED
        BY <1>1, <4>1
    <3>2. CASE u # s
      BY <1>1, <2>2, <3>2
    <3> QED
      BY <3>1, <3>2
  <2> QED
    BY <1>2, <2>1, <2>2
<1>9. G \cap gone = {}
  BY <1>3
<1>10. Exact(after, more, gone)
  BY <1>4, <1>6, <1>7, <1>8, <1>9 DEF Exact, A, G
<1> QED
  BY <1>10 DEF after

(* What holds of a table without pages.                                    *)
LEMMA EmptyTable ==
  /\ << >> \in Seq(Entries) /\ Dense(<< >>) /\ Distinct(<< >>) /\ BlocksOf(<< >>) = {}
  /\ TokensIn(<< >>) = 0
<1>1. DOMAIN << >> = {}
  OBVIOUS
<1> QED
  BY <1>1, NoTokens DEF Dense, Distinct, BlocksOf

(* The invariant holds at first.                                           *)
LEMMA PagingInit_Inv == PagingInit => PagingInv
<1> SUFFICES ASSUME PagingInit PROVE PagingInv
  OBVIOUS
<1> USE DEF PagingInit
<1>1. \A t \in Tiers : TierBlocks[t] \in Nat
  BY VirtualPagesAssumption
<1>2. \A s \in PagedSeqs : pageTable[s] = << >> /\ stored[s] = 0
  OBVIOUS
<1>3. ASSUME NEW t \in Tiers
      PROVE  /\ freeBlocks[t] \in Seq(Nat) /\ Injective(freeBlocks[t])
             /\ Items(freeBlocks[t]) = 0 .. TierBlocks[t] - 1
             /\ IsFiniteSet(bitmapFree[t]) /\ bitmapFree[t] \in SUBSET Nat
  <2> DEFINE n == TierBlocks[t]
             l == [i \in 1 .. n |-> i - 1]
  <2>1. freeBlocks[t] = l /\ bitmapFree[t] = 0 .. n - 1 /\ n \in Nat
    BY <1>1
  <2> HIDE DEF n
  <2>2. l \in Seq(Nat) /\ Injective(l)
    BY <2>1 DEF Injective
  <2>3. Items(l) = 0 .. n - 1
    <3>1. \A b \in 0 .. n - 1 : b + 1 \in 1 .. n /\ b = (b + 1) - 1
      BY <2>1
    <3>2. \A i \in 1 .. n : i - 1 \in 0 .. n - 1
      BY <2>1
    <3>3. Items(l) = {i - 1 : i \in 1 .. n}
      BY DEF Items
    <3> QED
      BY <3>1, <3>2, <3>3
  <2>4. IsFiniteSet(0 .. n - 1)
    BY <2>1, FS_Interval
  <2> QED
    BY <2>1, <2>2, <2>3, <2>4 DEF n
<1>4. PagingTypeOK
  <2>1. pageTable \in [PagedSeqs -> Seq(Entries)] /\ stored \in [PagedSeqs -> Nat]
    BY EmptyTable
  <2>2. freeBlocks \in Pools /\ bitmapFree \in [Tiers -> SUBSET Nat]
    BY <1>3 DEF Pools
  <2> QED
    BY <1>3, <2>1, <2>2, VirtualPagesAssumption DEF PagingTypeOK
<1>5. TablesHold
  BY <1>2, EmptyTable DEF TablesHold
<1>6. Exact(pageTable, freeBlocks, forgotten)
  <2>1. AllInjective(freeBlocks)
    BY <1>3 DEF AllInjective
  <2>2. \A s \in PagedSeqs : Distinct(pageTable[s]) /\ BlocksOf(pageTable[s]) = {}
    BY <1>2, EmptyTable
  <2>3. forgotten = {}
    OBVIOUS
  <2>4. \A pair \in AllBlocks : pair \in Pairs(freeBlocks)
    BY <1>3 DEF AllBlocks, Pairs
  <2> QED
    BY <2>1, <2>2, <2>3, <2>4 DEF Exact
<1> QED
  BY <1>4, <1>5, <1>6 DEF PagingInv, BlocksPlaced

(* A step that changes one table and the tokens its sequence was given.    *)
LEMMA TableHolds ==
  ASSUME PagingTypeOK, TablesHold, NEW s \in PagedSeqs, NEW new \in Seq(Entries), NEW n \in Nat,
         Dense(new), TokensIn(new) = n,
         pageTable' = [pageTable EXCEPT ![s] = new], stored' = [stored EXCEPT ![s] = n]
  PROVE  /\ TablesHold'
         /\ pageTable' \in [PagedSeqs -> Seq(Entries)] /\ stored' \in [PagedSeqs -> Nat]
<1>1. pageTable \in [PagedSeqs -> Seq(Entries)] /\ stored \in [PagedSeqs -> Nat]
  BY DEF PagingTypeOK
<1>2. /\ pageTable'[s] = new /\ stored'[s] = n
      /\ \A u \in PagedSeqs : u # s => pageTable'[u] = pageTable[u] /\ stored'[u] = stored[u]
  BY <1>1
<1>3. TablesHold'
  <2> SUFFICES ASSUME NEW u \in PagedSeqs
               PROVE  Dense(pageTable'[u]) /\ TokensIn(pageTable'[u]) = stored'[u]
    BY DEF TablesHold
  <2>1. CASE u = s
    BY <1>2, <2>1
  <2>2. CASE u # s
    BY <1>2, <2>2 DEF TablesHold
  <2> QED
    BY <2>1, <2>2
<1> QED
  BY <1>1, <1>3

(* The blocks of a prompt come from lists of numbers; without the native   *)
(* allocator, from the Python lists.                                       *)
LEMMA PromptPoolsAre ==
  ASSUME PagingTypeOK, NEW pool \in PromptPools
  PROVE  pool \in Pools /\ (~hasCsrc => pool = freeBlocks)
<1>1. CASE hasCsrc
  <2>1. \A t \in Tiers : bitmapFree[t] \in SUBSET Nat /\ Cardinality(bitmapFree[t]) \in Nat
    BY FS_CardinalityType DEF PagingTypeOK
  <2>2. \A t \in Tiers : FromLowest(bitmapFree[t]) \subseteq Seq(Nat)
    BY <2>1 DEF FromLowest
  <2>3. PICK h \in FromLowest(bitmapFree[1]), m \in FromLowest(bitmapFree[2]),
             l \in FromLowest(bitmapFree[3]) : pool = <<h, m, l>>
    BY <1>1 DEF PromptPools
  <2>4. h \in Seq(Nat) /\ m \in Seq(Nat) /\ l \in Seq(Nat)
    BY <2>2 DEF Tiers
  <2>5. pool \in [1 .. 3 -> Seq(Nat)]
    BY <2>3, <2>4
  <2> QED
    BY <1>1, <2>5 DEF Pools, Tiers
<1>2. CASE ~hasCsrc
  BY <1>2 DEF PromptPools, PagingTypeOK
<1> QED
  BY <1>1, <1>2

(* Giving a prompt its pages keeps the invariant: blocks go from the lists *)
(* to the table, and those of the old table are lost.                      *)
LEMMA Allocate_Inv ==
  ASSUME PagingInv, NEW s \in PagedSeqs, NEW n \in Nat, AllocatePromptPages(s, n)
  PROVE  PagingInv'
<1>1. PICK pool \in PromptPools :
        LET taken == PromptBlocks(pool, n) IN
        /\ pageTable' = [pageTable EXCEPT ![s] = PromptPages(pool, n)]
        /\ stored' = [stored EXCEPT ![s] = Least(n, RoomIn(taken))]
        /\ forgotten' = forgotten \cup BlocksOf(pageTable[s])
        /\ IF hasCsrc
           THEN /\ bitmapFree' = [t \in Tiers |-> bitmapFree[t] \ Items(SubSeq(pool[t], 1, taken[t]))]
                /\ UNCHANGED freeBlocks
           ELSE /\ freeBlocks' = [t \in Tiers |-> SubSeq(pool[t], taken[t] + 1, Len(pool[t]))]
                /\ UNCHANGED bitmapFree
        /\ UNCHANGED hasCsrc
  BY DEF AllocatePromptPages
<1>2. pool \in Pools /\ (~hasCsrc => pool = freeBlocks)
  BY PromptPoolsAre DEF PagingInv
<1> DEFINE new == PromptPages(pool, n)
           room == Least(n, RoomIn(PromptBlocks(pool, n)))
<1>3. /\ new \in Seq(Entries) /\ Dense(new) /\ TokensIn(new) = room /\ room \in Nat
      /\ BlocksOf(new) = Pairs(Firsts(pool, n))
      /\ AllInjective(pool) => Distinct(new)
  BY <1>2, PromptTable
<1>4. pageTable' = [pageTable EXCEPT ![s] = new] /\ stored' = [stored EXCEPT ![s] = room]
  BY <1>1
<1>5. PagingTypeOK /\ TablesHold /\ BlocksPlaced
  BY DEF PagingInv
<1> HIDE DEF new, room
<1>6. /\ TablesHold'
      /\ pageTable' \in [PagedSeqs -> Seq(Entries)] /\ stored' \in [PagedSeqs -> Nat]
  BY <1>3, <1>4, <1>5, TableHolds
<1>7. ~hasCsrc => freeBlocks' = Others(pool, n) /\ UNCHANGED bitmapFree
  BY <1>1 DEF Others
<1>8. PagingTypeOK'
  <2>1. hasCsrc' \in BOOLEAN /\ (hasCsrc => freeBlocks' \in Pools)
    BY <1>1, <1>5 DEF PagingTypeOK
  <2>2. ~hasCsrc => freeBlocks' \in Pools
    BY <1>2, <1>7, PoolIsCut
  <2>3. bitmapFree' \in [Tiers -> SUBSET Nat] /\ \A t \in Tiers : IsFiniteSet(bitmapFree'[t])
    <3>1. CASE ~hasCsrc
      BY <1>5, <1>7, <3>1 DEF PagingTypeOK
    <3>2. CASE hasCsrc
      <4> DEFINE used(t) == Items(SubSeq(pool[t], 1, PromptBlocks(pool, n)[t]))
      <4>1. bitmapFree' = [t \in Tiers |-> bitmapFree[t] \ used(t)]
        BY <1>1, <3>2
      <4> HIDE DEF used
      <4>2. \A t \in Tiers : /\ bitmapFree[t] \in SUBSET Nat /\ IsFiniteSet(bitmapFree[t])
                             /\ bitmapFree'[t] = bitmapFree[t] \ used(t)
        BY <1>5, <4>1 DEF PagingTypeOK
      <4>3. \A t \in Tiers : IsFiniteSet(bitmapFree'[t]) /\ bitmapFree'[t] \in SUBSET Nat
        BY <4>2, FS_Difference
      <4> QED
        BY <4>1, <4>3
    <3> QED
      BY <3>1, <3>2
  <2> QED
    BY <1>6, <2>1, <2>2, <2>3 DEF PagingTypeOK
<1>9. BlocksPlaced'
  <2> SUFFICES ASSUME ~hasCsrc' PROVE Exact(pageTable', freeBlocks', forgotten')
    BY DEF BlocksPlaced
  <2>1. ~hasCsrc
    BY <1>1
  <2> DEFINE more == Others(pool, n)
             gone == forgotten \cup BlocksOf(pageTable[s])
  <2>2. /\ pool = freeBlocks /\ freeBlocks' = more /\ forgotten' = gone
        /\ Exact(pageTable, freeBlocks, forgotten)
    BY <1>1, <1>2, <1>5, <1>7, <2>1 DEF BlocksPlaced
  <2>3. AllInjective(freeBlocks) /\ Pairs(freeBlocks) \cap forgotten = {}
        /\ BlocksOf(pageTable[s]) \cap (Pairs(freeBlocks) \cup forgotten) = {}
    BY <2>2 DEF Exact
  <2>4. /\ more \in Pools /\ AllInjective(more)
        /\ Pairs(Firsts(pool, n)) \cup Pairs(more) = Pairs(pool)
        /\ Pairs(Firsts(pool, n)) \cap Pairs(more) = {}
    BY <1>2, <2>2, <2>3, PoolIsCut
  <2>5. Divided(BlocksOf(new), more, gone)
    BY <1>3, <2>2, <2>3, <2>4 DEF Divided
  <2>6. BlocksOf(new) \cup (Pairs(more) \cup gone)
          = BlocksOf(pageTable[s]) \cup (Pairs(freeBlocks) \cup forgotten)
    BY <1>3, <2>2, <2>4
  <2>7. Distinct(new) /\ new \in Seq(Entries) /\ freeBlocks \in Pools
        /\ pageTable \in [PagedSeqs -> Seq(Entries)]
    BY <1>2, <1>3, <1>5, <2>2, <2>3 DEF PagingTypeOK
  <2> HIDE DEF more, gone
  <2>8. Exact([pageTable EXCEPT ![s] = new], more, gone)
    BY <2>2, <2>4, <2>5, <2>6, <2>7, TableMoves
  <2> QED
    BY <1>4, <2>2, <2>8
<1> QED
  BY <1>6, <1>8, <1>9 DEF PagingInv

(* Freeing a sequence keeps it: the blocks of the table go back.           *)
LEMMA Free_Inv ==
  ASSUME PagingInv, NEW s \in PagedSeqs, FreeSequence(s)
  PROVE  PagingInv'
<1> DEFINE table == pageTable[s]
           more == Returned(freeBlocks, table)
           empty == << >>
           zero == 0
<1>1. /\ pageTable' = [pageTable EXCEPT ![s] = empty] /\ stored' = [stored EXCEPT ![s] = zero]
      /\ freeBlocks' = more
      /\ UNCHANGED <<bitmapFree, hasCsrc, forgotten>>
  BY DEF FreeSequence, Returned
<1>2. PagingTypeOK /\ TablesHold /\ BlocksPlaced
  BY DEF PagingInv
<1>3. /\ empty \in Seq(Entries) /\ Dense(empty) /\ Distinct(empty) /\ BlocksOf(empty) = {}
      /\ TokensIn(empty) = zero /\ zero \in Nat
  BY EmptyTable
<1>4. table \in Seq(Entries) /\ freeBlocks \in Pools
      /\ pageTable \in [PagedSeqs -> Seq(Entries)]
  BY <1>2 DEF PagingTypeOK
<1> HIDE DEF table, more, empty, zero
<1>5. /\ TablesHold'
      /\ pageTable' \in [PagedSeqs -> Seq(Entries)] /\ stored' \in [PagedSeqs -> Nat]
  BY <1>1, <1>2, <1>3, TableHolds
<1>6. /\ more \in Pools /\ Pairs(more) = Pairs(freeBlocks) \cup BlocksOf(table)
      /\ AllInjective(freeBlocks) /\ Distinct(table) /\ BlocksOf(table) \cap Pairs(freeBlocks) = {}
           => AllInjective(more)
  BY <1>4, ReturnedBlocks DEF more
<1>7. PagingTypeOK'
  BY <1>1, <1>2, <1>5, <1>6 DEF PagingTypeOK
<1>8. BlocksPlaced'
  <2> SUFFICES ASSUME ~hasCsrc' PROVE Exact(pageTable', freeBlocks', forgotten')
    BY DEF BlocksPlaced
  <2>1. Exact(pageTable, freeBlocks, forgotten) /\ forgotten' = forgotten
    BY <1>1, <1>2 DEF BlocksPlaced
  <2>2. AllInjective(freeBlocks) /\ Pairs(freeBlocks) \cap forgotten = {} /\ Distinct(table)
        /\ BlocksOf(table) \cap (Pairs(freeBlocks) \cup forgotten) = {}
    BY <2>1 DEF Exact, table
  <2>3. AllInjective(more)
    BY <1>6, <2>2
  <2>4. Divided(BlocksOf(empty), more, forgotten)
    BY <1>3, <1>6, <2>2 DEF Divided
  <2>5. BlocksOf(empty) \cup (Pairs(more) \cup forgotten)
          = BlocksOf(pageTable[s]) \cup (Pairs(freeBlocks) \cup forgotten)
    BY <1>3, <1>6 DEF table
  <2>6. Exact([pageTable EXCEPT ![s] = empty], more, forgotten)
    BY <1>3, <1>4, <1>6, <2>1, <2>3, <2>4, <2>5, TableMoves
  <2> QED
    BY <1>1, <2>1, <2>6
<1> QED
  BY <1>5, <1>7, <1>8 DEF PagingInv

(* One more page, behind pages that are all full.                          *)
LEMMA AppendedPage ==
  ASSUME NEW table \in Seq(Entries), NEW b \in Nat, TailIsFull(table), Dense(table)
  PROVE  LET new == Append(table, PageEntry(Small, b, 1)) IN
         /\ new \in Seq(Entries) /\ Dense(new) /\ TokensIn(new) = TokensIn(table) + 1
         /\ BlocksOf(new) = BlocksOf(table) \cup {<<Small, b>>}
         /\ Distinct(table) /\ <<Small, b>> \notin BlocksOf(table) => Distinct(new)
<1> DEFINE e == PageEntry(Small, b, 1)
           one == <<e>>
           n == Len(table)
<1>1. /\ e \in Entries /\ e.tier = Small /\ e.block = b /\ e.valid = 1
      /\ TierSize[Small] \in Nat \ {0}
  BY VirtualPagesAssumption DEF PageEntry, Entries, Small, Tiers
<1> HIDE DEF e
<1>2. one \in Seq(Entries) /\ TokensIn(one) = 1
  BY <1>1, OnePage
<1>3. DOMAIN one = {1} /\ one[1] = e /\ Len(one) = 1
  OBVIOUS
<1>4. Append(table, e) = table \o one
  BY <1>1
<1> HIDE DEF one
<1>5. BlocksOf(one) = {<<Small, b>>} /\ Distinct(one)
  BY <1>1, <1>3 DEF BlocksOf, Distinct
<1>6. Dense(one)
  BY <1>1, <1>3 DEF Dense
<1>7. n \in Nat /\ DOMAIN table = 1 .. n /\ (table # << >> => n \in 1 .. n) /\ Len(table) = n
  OBVIOUS
<1> HIDE DEF n
<1>8. AllFull(table)
  <2> SUFFICES ASSUME NEW i \in 1 .. n
               PROVE  /\ table[i].valid \in 1 .. TierSize[table[i].tier]
                      /\ table[i].valid = TierSize[table[i].tier]
    BY <1>7 DEF AllFull
  <2>1. /\ table[i].valid \in 1 .. TierSize[table[i].tier]
        /\ i < n => table[i].valid = TierSize[table[i].tier]
    BY <1>7 DEF Dense
  <2>2. i = n => table[i].valid >= TierSize[table[i].tier]
    BY <1>7 DEF TailIsFull
  <2>3. TierSize[table[i].tier] \in Nat
    <3>1. table[i] \in Entries
      BY <1>7
    <3>2. table[i].tier \in Tiers
      BY <3>1, EntryFields
    <3> QED
      BY <3>2, VirtualPagesAssumption
  <2> QED
    BY <1>7, <2>1, <2>2, <2>3
<1> DEFINE both == table \o one
<1>9. both \in Seq(Entries)
  BY <1>2, JoinedElements
<1>10. TokensIn(both) = TokensIn(table) + 1
  BY <1>2, JoinedTokens
<1>11. /\ BlocksOf(both) = BlocksOf(table) \cup BlocksOf(one)
       /\ AllFull(table) /\ Dense(one) => Dense(both)
       /\ Distinct(table) /\ Distinct(one) /\ BlocksOf(table) \cap BlocksOf(one) = {} => Distinct(both)
  BY <1>2, JoinedPages
<1> HIDE DEF both
<1> QED
  BY <1>4, <1>5, <1>6, <1>8, <1>9, <1>10, <1>11 DEF both, e

(* Appending a token keeps the invariant, with a new page or without.      *)
LEMMA Append_Inv ==
  ASSUME PagingInv, NEW s \in PagedSeqs, AppendToken(s)
  PROVE  PagingInv'
<1> DEFINE table == pageTable[s]
           n == Len(table)
           count == stored[s] + 1
<1>1. PagingTypeOK /\ TablesHold /\ BlocksPlaced
  BY DEF PagingInv
<1>2. /\ table \in Seq(Entries) /\ freeBlocks \in Pools /\ stored[s] \in Nat /\ count \in Nat
      /\ pageTable \in [PagedSeqs -> Seq(Entries)] /\ stored \in [PagedSeqs -> Nat]
  BY <1>1 DEF PagingTypeOK
<1>3. Dense(table) /\ TokensIn(table) = stored[s]
  BY <1>1 DEF TablesHold
<1>4. UNCHANGED <<bitmapFree, hasCsrc, forgotten>>
  BY DEF AppendToken
<1>5. stored' = [stored EXCEPT ![s] = count]
  BY <1>2 DEF AppendToken
<1>6. CASE TailIsFull(table)
  <2> DEFINE l == freeBlocks[Small]
             b == Head(l)
             new == Append(table, PageEntry(Small, b, 1))
             more == [freeBlocks EXCEPT ![Small] = Tail(l)]
  <2>1. /\ l # << >> /\ freeBlocks' = more
        /\ pageTable' = [pageTable EXCEPT ![s] = new]
    BY <1>6 DEF AppendToken
  <2>2. Small \in Tiers /\ l \in Seq(Nat)
    BY <1>2 DEF Pools, Small, Tiers
  <2>3. b \in Nat /\ Tail(l) \in Seq(Nat)
    <3> HIDE DEF l
    <3> QED
      BY <2>1, <2>2
  <2>4. /\ Items(l) = {b} \cup Items(Tail(l))
        /\ Injective(l) => Injective(Tail(l)) /\ b \notin Items(Tail(l))
    <3>1. /\ Len(l) \in Nat \ {0} /\ DOMAIN l = 1 .. Len(l) /\ b = l[1]
          /\ DOMAIN Tail(l) = 1 .. Len(l) - 1
          /\ \A i \in 1 .. Len(l) - 1 : Tail(l)[i] = l[i + 1]
      <4> HIDE DEF l
      <4> QED
        BY <2>1, <2>2
    <3> DEFINE rest == Tail(l)  m == Len(l)
    <3> HIDE DEF l, b, rest, m
    <3>2. /\ m \in Nat \ {0} /\ DOMAIN l = 1 .. m /\ b = l[1]
          /\ DOMAIN rest = 1 .. m - 1 /\ \A i \in 1 .. m - 1 : rest[i] = l[i + 1]
      BY <3>1 DEF rest, m
    <3>3. /\ \A i \in 1 .. m - 1 : i + 1 \in 1 .. m /\ i + 1 # 1
          /\ \A i \in 1 .. m : i = 1 \/ (i - 1 \in 1 .. m - 1 /\ (i - 1) + 1 = i)
          /\ 1 \in 1 .. m
      BY <3>2
    <3>4. Items(l) = {b} \cup Items(rest)
      <4>1. ASSUME NEW i \in 1 .. m PROVE l[i] \in {b} \cup Items(rest)
        <5>1. CASE i = 1
          BY <3>2, <5>1
        <5>2. CASE i # 1
          <6>1. i - 1 \in DOMAIN rest /\ rest[i - 1] = l[i]
            BY <3>2, <3>3, <5>2
          <6> QED
            BY <6>1 DEF Items
        <5> QED
          BY <5>1, <5>2
      <4>2. \A i \in 1 .. m - 1 : rest[i] \in Items(l)
        BY <3>2, <3>3 DEF Items
      <4>3. b \in Items(l)
        BY <3>2, <3>3 DEF Items
      <4>4. Items(l) = {l[i] : i \in 1 .. m} /\ Items(rest) = {rest[i] : i \in 1 .. m - 1}
        BY <3>2 DEF Items
      <4> QED
        BY <4>1, <4>2, <4>3, <4>4
    <3>5. ASSUME Injective(l) PROVE Injective(rest) /\ b \notin Items(rest)
      <4>1. \A i, j \in 1 .. m : l[i] = l[j] => i = j
        BY <3>2, <3>5 DEF Injective
      <4>2. b \notin Items(rest)
        BY <3>2, <3>3, <4>1 DEF Items
      <4>3. Injective(rest)
        <5> SUFFICES ASSUME NEW i \in 1 .. m - 1, NEW j \in 1 .. m - 1, rest[i] = rest[j]
                     PROVE  i = j
          BY <3>2 DEF Injective
        <5>1. i + 1 = j + 1
          BY <3>2, <3>3, <4>1
        <5> QED
          BY <3>2, <5>1
      <4> QED
        BY <4>2, <4>3
    <3> QED
      BY <3>4, <3>5 DEF rest
  <2>5. /\ more \in Pools /\ more[Small] = Tail(l)
        /\ \A t \in Tiers : t # Small => more[t] = freeBlocks[t]
    BY <1>2, <2>2, <2>3 DEF Pools
  <2>6. /\ new \in Seq(Entries) /\ Dense(new) /\ TokensIn(new) = TokensIn(table) + 1
        /\ BlocksOf(new) = BlocksOf(table) \cup {<<Small, b>>}
        /\ Distinct(table) /\ <<Small, b>> \notin BlocksOf(table) => Distinct(new)
    <3> HIDE DEF table, b
    <3> QED
      BY <1>2, <1>3, <1>6, <2>3, AppendedPage
  <2> HIDE DEF table, b, new, more, count, l
  <2>7. TokensIn(new) = count
    BY <1>3, <2>6 DEF count
  <2>8. /\ TablesHold'
        /\ pageTable' \in [PagedSeqs -> Seq(Entries)] /\ stored' \in [PagedSeqs -> Nat]
    BY <1>1, <1>2, <1>5, <2>1, <2>6, <2>7, TableHolds
  <2>9. PagingTypeOK'
    BY <1>1, <1>4, <2>1, <2>5, <2>8 DEF PagingTypeOK
  <2>10. BlocksPlaced'
    <3> SUFFICES ASSUME ~hasCsrc' PROVE Exact(pageTable', freeBlocks', forgotten')
      BY DEF BlocksPlaced
    <3>1. Exact(pageTable, freeBlocks, forgotten) /\ forgotten' = forgotten
      BY <1>1, <1>4 DEF BlocksPlaced
    <3>2. AllInjective(freeBlocks) /\ Pairs(freeBlocks) \cap forgotten = {} /\ Distinct(table)
          /\ BlocksOf(table) \cap (Pairs(freeBlocks) \cup forgotten) = {}
      BY <3>1 DEF Exact, table
    <3>3. Injective(l)
      BY <2>2, <3>2 DEF AllInjective, l
    <3>4. AllInjective(more)
      BY <2>4, <2>5, <3>2, <3>3 DEF AllInjective
    <3>5. Pairs(freeBlocks) = Pairs(more) \cup {<<Small, b>>} /\ <<Small, b>> \notin Pairs(more)
      <4>1. ASSUME NEW pair \in Tiers \X Nat
            PROVE  pair[2] \in Items(freeBlocks[pair[1]])
                     <=> pair[2] \in Items(more[pair[1]]) \/ pair = <<Small, b>>
        <5>1. pair = <<pair[1], pair[2]>> /\ pair[1] \in Tiers
          OBVIOUS
        <5>2. CASE pair[1] = Small
          BY <2>4, <2>5, <5>1, <5>2 DEF l
        <5>3. CASE pair[1] # Small
          BY <2>5, <5>1, <5>3
        <5> QED
          BY <5>2, <5>3
      <4>2. <<Small, b>> \in Tiers \X Nat
        BY <2>2, <2>3
      <4>3. <<Small, b>> \notin Pairs(more)
        BY <2>4, <2>5, <3>3 DEF Pairs
      <4> QED
        BY <4>1, <4>2, <4>3 DEF Pairs
    <3>6. Distinct(new)
      BY <2>6, <3>2, <3>5
    <3>7. Divided(BlocksOf(new), more, forgotten)
      BY <2>6, <3>2, <3>5 DEF Divided
    <3>8. BlocksOf(new) \cup (Pairs(more) \cup forgotten)
            = BlocksOf(pageTable[s]) \cup (Pairs(freeBlocks) \cup forgotten)
      BY <2>6, <3>5 DEF table
    <3>9. Exact([pageTable EXCEPT ![s] = new], more, forgotten)
      BY <1>2, <2>5, <2>6, <3>1, <3>4, <3>6, <3>7, <3>8, TableMoves
    <3> QED
      BY <2>1, <3>1, <3>9
  <2> QED
    BY <2>8, <2>9, <2>10 DEF PagingInv
<1>7. CASE ~TailIsFull(table)
  <2> DEFINE v == table[n].valid + 1
             new == WithLast(table, v)
  <2>1. table # << >> /\ ~(table[n].valid >= TierSize[table[n].tier])
    BY <1>7 DEF TailIsFull
  <2>2. n \in Nat \ {0} /\ n \in 1 .. n /\ n \in DOMAIN table /\ table[n] \in Entries
    BY <1>2, <2>1
  <2>3. /\ table[n].valid \in Nat /\ table[n].tier \in Tiers
        /\ TierSize[table[n].tier] \in Nat /\ v \in Nat
    BY <2>2, EntryFields, VirtualPagesAssumption
  <2>4. pageTable' = [pageTable EXCEPT ![s] = new] /\ freeBlocks' = freeBlocks
    <3>1. /\ pageTable' = [pageTable EXCEPT ![s][Len(table)].valid = @ + 1]
          /\ freeBlocks' = freeBlocks
      BY <1>7 DEF AppendToken
    <3>2. [table EXCEPT ![n].valid = @ + 1] = new
      <4>1. /\ table = [i \in 1 .. n |-> table[i]] /\ Len(table) = n
            /\ [table EXCEPT ![n].valid = @ + 1] = [table EXCEPT ![n] = [table[n] EXCEPT !.valid = v]]
        BY <1>2
      <4>2. new = [i \in 1 .. n |-> IF i = n THEN [table[n] EXCEPT !.valid = v] ELSE table[i]]
        BY DEF WithLast
      <4> DEFINE last == [table[n] EXCEPT !.valid = v]
      <4> HIDE DEF last, table, new, n, v
      <4>3. [table EXCEPT ![n] = last] = [i \in 1 .. n |-> IF i = n THEN last ELSE table[i]]
        BY <2>2, <4>1
      <4> QED
        BY <4>1, <4>2, <4>3 DEF last
    <3> QED
      BY <1>2, <3>1, <3>2
  <2>5. v \in 1 .. TierSize[table[n].tier]
    BY <2>1, <2>3
  <2>6. /\ new \in Seq(Entries)
        /\ TokensIn(new) + table[n].valid = TokensIn(table) + v /\ TokensIn(new) \in Nat
        /\ BlocksOf(new) = BlocksOf(table)
        /\ Distinct(table) => Distinct(new)
        /\ Dense(table) /\ v \in 1 .. TierSize[table[n].tier] => Dense(new)
    <3> HIDE DEF table, v
    <3> QED
      BY <1>2, <2>1, <2>3, LastChanged
  <2>7. TokensIn(new) = count
    <3> DEFINE x == TokensIn(new)  y == TokensIn(table)  z == table[n].valid
    <3>1. x \in Nat /\ y \in Nat /\ z \in Nat /\ x + z = y + (z + 1) /\ count = y + 1
      BY <1>2, <1>3, <2>3, <2>6
    <3> HIDE DEF x, y, z, count
    <3>2. x = count
      BY <3>1
    <3> QED
      BY <3>2 DEF x
  <2>8. Dense(new)
    BY <1>3, <2>5, <2>6
  <2> HIDE DEF table, new, count, v
  <2>9. /\ TablesHold'
        /\ pageTable' \in [PagedSeqs -> Seq(Entries)] /\ stored' \in [PagedSeqs -> Nat]
    BY <1>1, <1>2, <1>5, <2>4, <2>6, <2>7, <2>8, TableHolds
  <2>10. PagingTypeOK'
    BY <1>1, <1>4, <2>4, <2>9 DEF PagingTypeOK
  <2>11. BlocksPlaced'
    <3> SUFFICES ASSUME ~hasCsrc' PROVE Exact(pageTable', freeBlocks', forgotten')
      BY DEF BlocksPlaced
    <3>1. Exact(pageTable, freeBlocks, forgotten) /\ forgotten' = forgotten
      BY <1>1, <1>4 DEF BlocksPlaced
    <3>2. AllInjective(freeBlocks) /\ Pairs(freeBlocks) \cap forgotten = {} /\ Distinct(table)
          /\ BlocksOf(table) \cap (Pairs(freeBlocks) \cup forgotten) = {}
      BY <3>1 DEF Exact, table
    <3>3. Divided(BlocksOf(new), freeBlocks, forgotten)
      BY <2>6, <3>2 DEF Divided
    <3>4. BlocksOf(new) \cup (Pairs(freeBlocks) \cup forgotten)
            = BlocksOf(pageTable[s]) \cup (Pairs(freeBlocks) \cup forgotten)
      BY <2>6 DEF table
    <3>5. Distinct(new)
      BY <2>6, <3>2
    <3>6. Exact([pageTable EXCEPT ![s] = new], freeBlocks, forgotten)
      BY <1>2, <2>6, <3>1, <3>2, <3>3, <3>4, <3>5, TableMoves
    <3> QED
      BY <2>4, <3>1, <3>6
  <2> QED
    BY <2>9, <2>10, <2>11 DEF PagingInv
<1> QED
  BY <1>6, <1>7

(* What a rollback of n tokens leaves of a table: the first k pages, the   *)
(* last of them shortened.                                                 *)
KeptOf(table, n) ==
  CHOOSE x \in KeptPages(table, n) : \A y \in KeptPages(table, n) : x <= y

Behind(table, k) == SubSeq(table, k + 1, Len(table))

LeftOf(table, n, k) ==
  [i \in 1 .. k |-> IF i = k
     THEN [table[i] EXCEPT !.valid = @ - (n - TokensIn(Behind(table, k)))] ELSE table[i]]

(* The pages behind the k-th have no more than n tokens; with the k-th     *)
(* they have more.                                                         *)
LEMMA KeptPagesAre ==
  ASSUME NEW table \in Seq(Entries), NEW n \in Nat, NEW k, k = KeptOf(table, n)
  PROVE  /\ k \in 0 .. Len(table) /\ TokensIn(Behind(table, k)) <= n
         /\ k > 0 => TokensIn(Behind(table, k - 1)) > n
<1> DEFINE l == Len(table)  T == KeptPages(table, n)
<1>1. l \in Nat /\ l \in 0 .. l
  OBVIOUS
<1>2. \A x \in 0 .. l : TokensIn(Behind(table, x)) \in Nat
  BY CutTokens DEF Behind
<1>3. l \in T
  <2>1. Behind(table, l) = << >>
    BY <1>1 DEF Behind
  <2>2. TokensIn(Behind(table, l)) <= n
    BY <2>1, NoTokens
  <2> QED
    BY <1>1, <2>2 DEF KeptPages, Behind
<1>4. T \in SUBSET Nat /\ T # {}
  BY <1>3 DEF KeptPages
<1>5. T = {x \in 0 .. l : TokensIn(Behind(table, x)) <= n}
  BY DEF KeptPages, Behind
<1>6. k = CHOOSE x \in T : \A y \in T : x <= y
  BY DEF KeptOf
<1> HIDE DEF T, l
<1>7. \E x \in T : \A y \in T : x <= y
  BY <1>4, LeastNatural
<1>8. k \in T /\ \A y \in T : k <= y
  BY <1>6, <1>7
<1>9. ASSUME k > 0 PROVE TokensIn(Behind(table, k - 1)) > n
  <2>1. k - 1 \in 0 .. l /\ ~(k <= k - 1)
    BY <1>1, <1>5, <1>8, <1>9
  <2>2. k - 1 \notin T
    BY <1>8, <2>1
  <2>3. ~(TokensIn(Behind(table, k - 1)) <= n)
    BY <1>5, <2>1, <2>2
  <2> QED
    BY <1>2, <2>1, <2>3
<1> QED
  BY <1>5, <1>8, <1>9 DEF l

(* The first page of what was cut off.                                     *)
LEMMA OneMoreBehind ==
  ASSUME NEW table \in Seq(Entries), NEW k \in 1 .. Len(table)
  PROVE  /\ TokensIn(Behind(table, k - 1)) = table[k].valid + TokensIn(Behind(table, k))
         /\ table[k] \in Entries
<1> DEFINE l == Len(table)  a == <<table[k]>>  b == Behind(table, k)  c == Behind(table, k - 1)
<1>1. l \in Nat /\ k \in 1 .. l /\ k \in 0 .. l /\ k - 1 \in 0 .. l /\ table[k] \in Entries
  OBVIOUS
<1>2. a \in Seq(Entries) /\ TokensIn(a) = table[k].valid /\ Len(a) = 1 /\ a[1] = table[k]
  BY <1>1, OnePage
<1>3. b \in Seq(Entries) /\ Len(b) = l - k /\ \A i \in 1 .. l - k : b[i] = table[k + i]
  BY <1>1, CutTokens DEF Behind
<1>4. /\ c \in Seq(Entries) /\ Len(c) = l - (k - 1)
      /\ \A i \in 1 .. l - (k - 1) : c[i] = table[(k - 1) + i]
  <2> DEFINE j == k - 1
  <2>1. j \in 0 .. Len(table) /\ c = SubSeq(table, j + 1, Len(table))
    BY <1>1 DEF Behind
  <2>2. /\ SubSeq(table, j + 1, Len(table)) \in Seq(Entries)
        /\ Len(SubSeq(table, j + 1, Len(table))) = Len(table) - j
        /\ \A i \in 1 .. Len(table) - j : SubSeq(table, j + 1, Len(table))[i] = table[j + i]
    <3> HIDE DEF j
    <3> QED
      BY <2>1, CutTokens
  <2> QED
    BY <2>1, <2>2
<1> DEFINE both == a \o b
<1>5. /\ both \in Seq(Entries) /\ Len(both) = Len(a) + Len(b)
      /\ \A i \in 1 .. Len(a) : both[i] = a[i]
      /\ \A j \in 1 .. Len(b) : both[Len(a) + j] = b[j]
  <2>1. a \in Seq(Entries) /\ b \in Seq(Entries)
    BY <1>2, <1>3
  <2> HIDE DEF a, b
  <2> QED
    BY <2>1, JoinedElements
<1>6. TokensIn(both) = TokensIn(a) + TokensIn(b)
  <2>1. a \in Seq(Entries) /\ b \in Seq(Entries)
    BY <1>2, <1>3
  <2> HIDE DEF a, b
  <2> QED
    BY <2>1, JoinedTokens
<1> HIDE DEF a, b, c, both, l
<1>7. Len(both) = Len(c)
  BY <1>1, <1>2, <1>3, <1>4, <1>5
<1>8. ASSUME NEW i \in 1 .. Len(c) PROVE both[i] = c[i]
  <2>1. i \in 1 .. l - (k - 1) /\ c[i] = table[(k - 1) + i]
    BY <1>4
  <2>2. CASE i = 1
    <3>1. (k - 1) + i = k /\ i \in 1 .. Len(a)
      BY <1>1, <1>2, <2>2
    <3> QED
      BY <1>2, <1>5, <2>1, <2>2, <3>1
  <2>3. CASE i # 1
    <3> DEFINE j == i - 1
    <3>1. j \in 1 .. l - k /\ (k - 1) + i = k + j /\ i = 1 + j
      BY <1>1, <2>1, <2>3
    <3> HIDE DEF j
    <3>2. both[Len(a) + j] = b[j] /\ b[j] = table[k + j]
      BY <1>3, <1>5, <3>1
    <3> QED
      BY <1>2, <2>1, <3>1, <3>2
  <2> QED
    BY <2>2, <2>3
<1>9. both = c
  BY <1>4, <1>5, <1>7, <1>8
<1> QED
  BY <1>1, <1>2, <1>6, <1>9 DEF b, c

(* Those tokens are taken off the end of the table, which stays dense, and *)
(* its blocks are divided between what is left and what is cut off.        *)
LEMMA RolledBack ==
  ASSUME NEW table \in Seq(Entries), NEW n \in Nat, Dense(table), NEW k, k = KeptOf(table, n)
  PROVE  LET new == LeftOf(table, n, k)
             behind == Behind(table, k)
         IN /\ new \in Seq(Entries) /\ Dense(new) /\ behind \in Seq(Entries)
            /\ TokensIn(new) = IF TokensIn(table) >= n THEN TokensIn(table) - n ELSE 0
            /\ TokensIn(new) \in Nat
            /\ BlocksOf(new) \cup BlocksOf(behind) = BlocksOf(table)
            /\ Distinct(table) => /\ Distinct(new) /\ Distinct(behind)
                                  /\ BlocksOf(new) \cap BlocksOf(behind) = {}
<1> DEFINE front == SubSeq(table, 1, k)
           behind == Behind(table, k)
           new == LeftOf(table, n, k)
<1>1. /\ k \in 0 .. Len(table) /\ TokensIn(behind) <= n
      /\ k > 0 => TokensIn(Behind(table, k - 1)) > n
  BY KeptPagesAre
<1>2. /\ front \in Seq(Entries) /\ Len(front) = k /\ \A i \in 1 .. k : front[i] = table[i]
      /\ behind \in Seq(Entries)
      /\ TokensIn(table) = TokensIn(front) + TokensIn(behind)
      /\ TokensIn(front) \in Nat /\ TokensIn(behind) \in Nat
  BY <1>1, CutTokens DEF Behind
<1>3. /\ BlocksOf(front) \cup BlocksOf(behind) = BlocksOf(table)
      /\ Distinct(table) => /\ Distinct(front) /\ Distinct(behind)
                            /\ BlocksOf(front) \cap BlocksOf(behind) = {}
      /\ Dense(front)
  BY <1>1, CutBlocks DEF Behind
<1>4. CASE k = 0
  <2>1. new = << >> /\ front = << >>
    BY <1>2, <1>4 DEF LeftOf
  <2>2. TokensIn(front) = 0 /\ TokensIn(new) = 0
    BY <2>1, NoTokens
  <2>3. TokensIn(new) = IF TokensIn(table) >= n THEN TokensIn(table) - n ELSE 0
    <3> DEFINE x == TokensIn(table)  y == TokensIn(behind)
    <3>1. x = y /\ y \in Nat /\ y <= n
      BY <1>1, <1>2, <2>2
    <3> HIDE DEF x, y
    <3>2. (IF x >= n THEN x - n ELSE 0) = 0
      BY <3>1
    <3> QED
      BY <2>2, <3>2 DEF x
  <2>4. new = front
    BY <2>1
  <2> QED
    BY <1>2, <1>3, <2>2, <2>3, <2>4
<1>5. CASE k # 0
  <2> DEFINE cut == n - TokensIn(behind)
             v == table[k].valid - cut
  <2>1. k \in 1 .. Len(table) /\ k > 0 /\ k \in 1 .. k
    BY <1>1, <1>5
  <2>2. /\ TokensIn(Behind(table, k - 1)) = table[k].valid + TokensIn(behind)
        /\ table[k] \in Entries
    BY <2>1, OneMoreBehind
  <2>3. table[k].valid \in Nat /\ table[k].tier \in Tiers
    BY <2>2, EntryFields
  <2>4. table[k].valid <= TierSize[table[k].tier] /\ TierSize[table[k].tier] \in Nat
    <3>1. k \in DOMAIN table
      BY <2>1
    <3> QED
      BY <2>3, <3>1, VirtualPagesAssumption DEF Dense
  <2>5. cut \in Nat /\ v \in Nat /\ v \in 1 .. TierSize[table[k].tier] /\ v + cut = table[k].valid
    <3> DEFINE x == TokensIn(behind)  y == table[k].valid
    <3>1. x \in Nat /\ y \in Nat /\ x <= n /\ y + x > n /\ cut = n - x /\ v = y - cut
      BY <1>1, <1>2, <2>1, <2>2, <2>3
    <3> HIDE DEF x, y, cut, v
    <3>2. cut \in Nat /\ v \in Nat /\ v >= 1 /\ v <= y /\ v + cut = y
      BY <3>1
    <3> QED
      BY <2>4, <3>2 DEF y
  <2>6. front[k] = table[k] /\ front # << >> /\ Len(front) = k
    BY <1>2, <1>5, <2>1
  <2>7. new = WithLast(front, v)
    <3>1. \A i \in 1 .. k : front[i] = table[i]
      BY <1>2
    <3>2. new = [i \in 1 .. k |-> IF i = k THEN [table[k] EXCEPT !.valid = v] ELSE table[i]]
      <4>1. [table[k] EXCEPT !.valid = @ - cut] = [table[k] EXCEPT !.valid = v]
        OBVIOUS
      <4> QED
        BY <4>1 DEF LeftOf
    <3>3. WithLast(front, v)
            = [i \in 1 .. k |-> IF i = k THEN [front[k] EXCEPT !.valid = v] ELSE front[i]]
      BY <2>6 DEF WithLast
    <3> DEFINE last == [table[k] EXCEPT !.valid = v]
    <3>4. \A i \in 1 .. k : (IF i = k THEN [front[k] EXCEPT !.valid = v] ELSE front[i])
                              = (IF i = k THEN last ELSE table[i])
      <4> HIDE DEF front
      <4> QED
        BY <2>6, <3>1
    <3> HIDE DEF last, front, new, v
    <3>5. WithLast(front, v) = [i \in 1 .. k |-> IF i = k THEN last ELSE table[i]]
      BY <3>3, <3>4
    <3> QED
      BY <3>2, <3>5 DEF last
  <2> HIDE DEF front, behind, new, cut, v
  <2>8. /\ WithLast(front, v) \in Seq(Entries)
        /\ TokensIn(WithLast(front, v)) + front[Len(front)].valid = TokensIn(front) + v
        /\ TokensIn(WithLast(front, v)) \in Nat
        /\ BlocksOf(WithLast(front, v)) = BlocksOf(front)
        /\ Distinct(front) => Distinct(WithLast(front, v))
        /\ Dense(front) /\ v \in 1 .. TierSize[front[Len(front)].tier]
             => Dense(WithLast(front, v))
    BY <1>2, <2>5, <2>6, LastChanged
  <2>9. TokensIn(new) = IF TokensIn(table) >= n THEN TokensIn(table) - n ELSE 0
    <3> DEFINE x == TokensIn(table)  y == TokensIn(behind)  z == TokensIn(front)
               w == TokensIn(new)  p == table[k].valid
    <3>1. /\ y \in Nat /\ z \in Nat /\ w \in Nat /\ p \in Nat /\ v \in Nat /\ cut \in Nat
          /\ x = z + y /\ w + p = z + v /\ v + cut = p /\ cut = n - y
      BY <1>2, <2>3, <2>5, <2>6, <2>7, <2>8 DEF cut
    <3> HIDE DEF x, y, z, w, p
    <3>2. w = z - cut
      BY <3>1
    <3>3. w = (z + y) - n
      BY <3>1, <3>2
    <3>4. x >= n /\ w = x - n
      BY <3>1, <3>3
    <3> QED
      BY <3>4 DEF w, x
  <2> QED
    BY <1>2, <1>3, <2>5, <2>6, <2>7, <2>8, <2>9 DEF behind, new
<1> QED
  BY <1>4, <1>5

(* A rollback keeps the invariant: the blocks cut off go back.             *)
LEMMA Rollback_Inv ==
  ASSUME PagingInv, NEW s \in PagedSeqs, NEW n \in Nat, RollbackTail(s, n)
  PROVE  PagingInv'
<1> DEFINE table == pageTable[s]
           k == KeptOf(table, n)
           new == LeftOf(table, n, k)
           behind == Behind(table, k)
           back == Reverse(behind)
           more == Returned(freeBlocks, back)
           count == IF stored[s] >= n THEN stored[s] - n ELSE 0
<1>1. PagingTypeOK /\ TablesHold /\ BlocksPlaced
  BY DEF PagingInv
<1>2. /\ table \in Seq(Entries) /\ freeBlocks \in Pools /\ stored[s] \in Nat
      /\ pageTable \in [PagedSeqs -> Seq(Entries)] /\ stored \in [PagedSeqs -> Nat]
  BY <1>1 DEF PagingTypeOK
<1>3. Dense(table) /\ TokensIn(table) = stored[s]
  BY <1>1 DEF TablesHold
<1>4. UNCHANGED <<bitmapFree, hasCsrc, forgotten>>
  BY DEF RollbackTail
<1>5. /\ pageTable' = [pageTable EXCEPT ![s] = new]
      /\ freeBlocks' = more
  BY DEF RollbackTail, KeptOf, LeftOf, Behind, Returned
<1>6. stored' = [stored EXCEPT ![s] = count]
  BY <1>2 DEF RollbackTail
<1>7. /\ new \in Seq(Entries) /\ Dense(new) /\ behind \in Seq(Entries)
      /\ TokensIn(new) = IF TokensIn(table) >= n THEN TokensIn(table) - n ELSE 0
      /\ TokensIn(new) \in Nat
      /\ BlocksOf(new) \cup BlocksOf(behind) = BlocksOf(table)
      /\ Distinct(table) => /\ Distinct(new) /\ Distinct(behind)
                            /\ BlocksOf(new) \cap BlocksOf(behind) = {}
  BY <1>2, <1>3, RolledBack
<1>8. TokensIn(new) = count /\ count \in Nat
  BY <1>3, <1>7
<1> HIDE DEF table, k, new, behind, count
<1>9. /\ back \in Seq(Entries) /\ BlocksOf(back) = BlocksOf(behind)
      /\ Distinct(behind) => Distinct(back)
  BY <1>7, ReversedTable
<1> HIDE DEF back
<1>10. /\ more \in Pools /\ Pairs(more) = Pairs(freeBlocks) \cup BlocksOf(back)
       /\ AllInjective(freeBlocks) /\ Distinct(back) /\ BlocksOf(back) \cap Pairs(freeBlocks) = {}
            => AllInjective(more)
  BY <1>2, <1>9, ReturnedBlocks
<1> HIDE DEF more
<1>11. /\ TablesHold'
       /\ pageTable' \in [PagedSeqs -> Seq(Entries)] /\ stored' \in [PagedSeqs -> Nat]
  BY <1>1, <1>5, <1>6, <1>7, <1>8, TableHolds
<1>12. PagingTypeOK'
  BY <1>1, <1>4, <1>5, <1>10, <1>11 DEF PagingTypeOK
<1>13. BlocksPlaced'
  <2> SUFFICES ASSUME ~hasCsrc' PROVE Exact(pageTable', freeBlocks', forgotten')
    BY DEF BlocksPlaced
  <2>1. Exact(pageTable, freeBlocks, forgotten) /\ forgotten' = forgotten
    BY <1>1, <1>4 DEF BlocksPlaced
  <2>2. AllInjective(freeBlocks) /\ Pairs(freeBlocks) \cap forgotten = {} /\ Distinct(table)
        /\ BlocksOf(table) \cap (Pairs(freeBlocks) \cup forgotten) = {}
    BY <2>1 DEF Exact, table
  <2>3. /\ Distinct(new) /\ Distinct(back)
        /\ BlocksOf(new) \cap BlocksOf(back) = {}
        /\ BlocksOf(new) \cup BlocksOf(back) = BlocksOf(table)
    BY <1>7, <1>9, <2>2
  <2>4. AllInjective(more)
    BY <1>10, <2>2, <2>3
  <2>5. Divided(BlocksOf(new), more, forgotten)
    BY <1>10, <2>2, <2>3 DEF Divided
  <2>6. BlocksOf(new) \cup (Pairs(more) \cup forgotten)
          = BlocksOf(pageTable[s]) \cup (Pairs(freeBlocks) \cup forgotten)
    BY <1>10, <2>3 DEF table
  <2>7. Exact([pageTable EXCEPT ![s] = new], more, forgotten)
    BY <1>2, <1>7, <1>10, <2>1, <2>3, <2>4, <2>5, <2>6, TableMoves
  <2> QED
    BY <1>5, <2>1, <2>7
<1> QED
  BY <1>11, <1>12, <1>13 DEF PagingInv

(* Every step keeps it.                                                    *)
LEMMA PagingStep_Inv == PagingInv /\ [PagingNext]_pagingVars => PagingInv'
<1> SUFFICES ASSUME PagingInv, [PagingNext]_pagingVars PROVE PagingInv'
  OBVIOUS
<1>1. CASE PagingNext
  <2>1. MaxPrompt \in Nat
    BY VirtualPagesAssumption
  <2>2. \A n \in 0 .. MaxPrompt : n \in Nat
    BY <2>1
  <2> QED
    BY <1>1, <2>2, Allocate_Inv, Append_Inv, Rollback_Inv, Free_Inv DEF PagingNext
<1>2. CASE UNCHANGED pagingVars
  BY <1>2 DEF pagingVars, PagingInv, PagingTypeOK, TablesHold, BlocksPlaced
<1> QED
  BY <1>1, <1>2

(* A block that is in one part of the division is in one place.            *)
LEMMA ExactIsExact == PagingInv => PagesExact
<1> SUFFICES ASSUME PagingInv PROVE PagesExact
  OBVIOUS
<1>1. PagingTypeOK /\ TablesHold /\ BlocksPlaced
  BY DEF PagingInv
<1>2. TablesAreDense
  BY <1>1 DEF TablesAreDense, TablesHold, Dense
<1>3. ASSUME ~hasCsrc, NEW t \in Tiers, NEW b \in 0 .. TierBlocks[t] - 1
      PROVE  IF <<t, b>> \in forgotten THEN PlacesOf(t, b) = {}
             ELSE \E place \in PlacesOf(t, b) : PlacesOf(t, b) = {place}
  <2> DEFINE Free == {<<"free", i>> : i \in {j \in DOMAIN freeBlocks[t] : freeBlocks[t][j] = b}}
             Held(s) == {<<s, i>> : i \in {j \in DOMAIN pageTable[s] :
                           pageTable[s][j].tier = t /\ pageTable[s][j].block = b}}
  <2>1. PlacesOf(t, b) = Free \cup UNION {Held(s) : s \in PagedSeqs}
    BY DEF PlacesOf
  <2>2. b \in Nat /\ <<t, b>> \in AllBlocks
    BY VirtualPagesAssumption DEF AllBlocks
  <2>3. Exact(pageTable, freeBlocks, forgotten)
    BY <1>1, <1>3 DEF BlocksPlaced
  <2>4. <<t, b>> \notin Pairs(freeBlocks) => Free = {}
    BY <2>2 DEF Pairs, Items
  <2>5. \A s \in PagedSeqs : <<t, b>> \notin BlocksOf(pageTable[s]) => Held(s) = {}
    BY DEF BlocksOf
  <2>6. <<t, b>> \in Pairs(freeBlocks) => \E place : Free = {place}
    <3> SUFFICES ASSUME <<t, b>> \in Pairs(freeBlocks) PROVE \E place : Free = {place}
      OBVIOUS
    <3>1. PICK i \in DOMAIN freeBlocks[t] : freeBlocks[t][i] = b
      BY DEF Pairs, Items
    <3>2. Injective(freeBlocks[t])
      BY <2>3 DEF Exact, AllInjective
    <3>3. {j \in DOMAIN freeBlocks[t] : freeBlocks[t][j] = b} = {i}
      BY <3>1, <3>2 DEF Injective
    <3>4. Free = {<<"free", i>>}
      BY <3>3
    <3> QED
      BY <3>4
  <2>7. \A s \in PagedSeqs : <<t, b>> \in BlocksOf(pageTable[s]) => \E place : Held(s) = {place}
    <3> SUFFICES ASSUME NEW s \in PagedSeqs, <<t, b>> \in BlocksOf(pageTable[s])
                 PROVE  \E place : Held(s) = {place}
      OBVIOUS
    <3>1. PICK i \in DOMAIN pageTable[s] : pageTable[s][i].tier = t /\ pageTable[s][i].block = b
      BY DEF BlocksOf
    <3>2. Distinct(pageTable[s])
      BY <2>3 DEF Exact
    <3>3. {j \in DOMAIN pageTable[s] : pageTable[s][j].tier = t /\ pageTable[s][j].block = b} = {i}
      BY <3>1, <3>2 DEF Distinct
    <3>4. Held(s) = {<<s, i>>}
      BY <3>3
    <3> QED
      BY <3>4
  <2> HIDE DEF Free, Held
  <2> DEFINE B(s) == BlocksOf(pageTable[s])
             F == Pairs(freeBlocks)
             pair == <<t, b>>
  <2>8. /\ F \cap forgotten = {}
        /\ \A s \in PagedSeqs : B(s) \cap (F \cup forgotten) = {}
        /\ \A s, u \in PagedSeqs : s # u => B(s) \cap B(u) = {}
        /\ pair \in F \cup forgotten \/ \E s \in PagedSeqs : pair \in B(s)
    BY <2>2, <2>3 DEF Exact
  <2>9. /\ pair \notin F => Free = {}
        /\ \A s \in PagedSeqs : pair \notin B(s) => Held(s) = {}
        /\ pair \in F => \E place : Free = {place}
        /\ \A s \in PagedSeqs : pair \in B(s) => \E place : Held(s) = {place}
    BY <2>4, <2>5, <2>6, <2>7
  <2> HIDE DEF B, F, pair
  <2>10. CASE pair \in forgotten
    <3>1. pair \notin F /\ \A s \in PagedSeqs : pair \notin B(s)
      BY <2>8, <2>10
    <3>2. Free = {} /\ \A s \in PagedSeqs : Held(s) = {}
      BY <2>9, <3>1
    <3>3. PlacesOf(t, b) = {}
      BY <2>1, <3>2
    <3> QED
      BY <2>10, <3>3 DEF pair
  <2>11. ASSUME pair \in F
         PROVE  pair \notin forgotten /\ \E place : PlacesOf(t, b) = {place}
    <3>1. pair \notin forgotten /\ \A s \in PagedSeqs : pair \notin B(s)
      BY <2>8, <2>11
    <3>2. PICK place : Free = {place}
      BY <2>9, <2>11
    <3>3. \A s \in PagedSeqs : Held(s) = {}
      BY <2>9, <3>1
    <3>4. PlacesOf(t, b) = {place}
      BY <2>1, <3>2, <3>3
    <3> QED
      BY <3>1, <3>4
  <2>12. ASSUME NEW s \in PagedSeqs, pair \in B(s)
         PROVE  pair \notin forgotten /\ \E place : PlacesOf(t, b) = {place}
    <3>1. pair \notin forgotten /\ pair \notin F /\ \A u \in PagedSeqs : u # s => pair \notin B(u)
      BY <2>8, <2>12
    <3>2. PICK place : Held(s) = {place}
      BY <2>9, <2>12
    <3>3. Free = {} /\ \A u \in PagedSeqs : u # s => Held(u) = {}
      BY <2>9, <3>1
    <3>4. PlacesOf(t, b) = {place}
      BY <2>1, <3>2, <3>3
    <3> QED
      BY <3>1, <3>4
  <2>13. ASSUME pair \notin forgotten PROVE \E place : PlacesOf(t, b) = {place}
    BY <2>8, <2>11, <2>12, <2>13
  <2> QED
    BY <2>10, <2>13 DEF pair
<1> QED
  BY <1>2, <1>3 DEF PagesExact

(* PagesExact holds in every state: whatever prompts, appended tokens,     *)
(* rollbacks and frees are given in, the slots of a sequence stay dense,   *)
(* and without the native allocator no block is ever in two places or in   *)
(* none but those that a replaced table held (turing/core/paging.py).      *)
THEOREM PagesAreExact == PagingSpec => []PagesExact
<1>1. PagingInit => PagingInv
  BY PagingInit_Inv
<1>2. PagingInv /\ [PagingNext]_pagingVars => PagingInv'
  BY PagingStep_Inv
<1>3. PagingInv => PagesExact
  BY ExactIsExact
<1> QED
  BY <1>1, <1>2, <1>3, PTL DEF PagingSpec
=================================================================================
