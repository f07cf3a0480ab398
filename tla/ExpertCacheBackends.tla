--------------------------- MODULE ExpertCacheBackends ---------------------------
(***************************************************************************)
(* class GPULRUExpertCache of turing/core/expert_cache.py in a build with  *)
(* the extension: under policy "lru" each call goes to the native cache as *)
(* long as nothing is pinned, and to cache_map from the first pin to the   *)
(* last unpin.  The buffers of the slots are the same.                     *)
(***************************************************************************)
EXTENDS ExpertCache, NativeLfruCache

backendVars == <<cacheVars, lfruVars>>

BackendInit == CacheInit /\ LfruInit

AsksNative == Policy = "lru" /\ pinned_keys = {}

(* contains()                                                              *)
Served == IF AsksNative THEN Contained ELSE Resident

(* A slot of -1, the refusal, is the last row of a tensor.                 *)
Row(s) == IF s = -1 THEN NumSlots - 1 ELSE s

BackendHit(k) ==
  /\ k \in Served
  /\ \/ AsksNative /\ LfruGet(k) /\ UNCHANGED cacheVars
     \/ ~AsksNative /\ Hit(k) /\ UNCHANGED lfruVars

(* A fetch asks for a slot with the default candidate_heat, and loads the  *)
(* weights into whatever it was answered.                                  *)
FetchNative(k) ==
  /\ AsksNative
  /\ LfruAllocate(k, 1, FALSE)
  /\ content' = [content EXCEPT ![Row(key_to_slot_'[k])] = k]
  /\ UNCHANGED <<slot, older, free_slots, pinned_keys, active_slots, access_heat>>

BackendFetch(k) ==
  /\ k \notin Served
  /\ \/ FetchNative(k)
     \/ ~AsksNative /\ Fetch(k) /\ UNCHANGED lfruVars

BackendPin(keys) == Pin(keys) /\ PinKeys(keys)
BackendUnpin(keys) == Unpin(keys) /\ UnpinKeys(keys)

(* The native cache is not told of its new capacity.                       *)
BackendResize(n) == ResizeActiveSlots(n) /\ UNCHANGED lfruVars

BackendNext ==
  \/ \E k \in Experts : BackendHit(k) \/ BackendFetch(k)
  \/ \E keys \in SUBSET Experts : BackendPin(keys) \/ BackendUnpin(keys)
  \/ \E n \in 0 .. NumSlots : BackendResize(n)

BackendSpec == BackendInit /\ [][BackendNext]_backendVars

-----------------------------------------------------------------------------
(* expert_cache.py, allocate_or_evict_slot: "If full, evicts unpinned      *)
(* expert by LRU or LFRU".  An expert that is fetched would then be in the *)
(* cache afterwards.                                                       *)
FetchedAreServed ==
  [][\A k \in Experts : BackendFetch(k) => k \in Served']_backendVars
=============================================================================
