------------------------------ MODULE NativeProofs ------------------------------
(***************************************************************************)
(* Proofs about the components whose code is C++. What the native twins    *)
(* keep: the ledger of NativeTraffic for every finite set of ids, budget,  *)
(* watermarks and estimates, the expert cache of NativeLfruCache for any   *)
(* experts, slots and heats, the counts of RoutingHistory for any experts, *)
(* and the trades of NativeElastic for any sizes, limits and widths of int *)
(* and float. For any number of workers, callers and tasks of WorkerPool,  *)
(* no wake-up is lost, wait_all is a barrier, and the pool implements the  *)
(* abstract executor.                                                      *)
(***************************************************************************)
EXTENDS NativeTraffic, NativeLfruCache, RoutingHistory, NativeElastic, WorkerPool,
        AdmissionControlProofs, ListLemmas

-----------------------------------------------------------------------------
(* The native twins.                                                       *)

(* The types, and NativeSumCovers: the watermark test reads the sum, so it *)
(* bounds the entries only as long as the sum covers them.                 *)
NativeInv ==
  /\ allocated_map_ \in [Ids -> Nat]
  /\ allocated_bytes_ \in Nat
  /\ leaked_bytes \in Nat
  /\ NativeSumCovers

LEMMA NativeInitInv == NativeInit => NativeInv
<1> SUFFICES ASSUME NativeInit PROVE NativeInv
  OBVIOUS
<1>1. BytesOf(allocated_map_, Ids) = 0
  BY BytesNone DEF NativeInit
<1>2. HighPct * Budget \in Nat \ {0}
  BY AdmissionAssumption
<1> QED
  BY <1>1, <1>2 DEF NativeInit, NativeInv, NativeSumCovers

(* What is charged again stays in the sum: the entries grow by no more     *)
(* than the estimate, which the test has weighed with all that is leaked.  *)
LEMMA NativeAdmitKeepsInv ==
  ASSUME NativeInv, NEW id \in Ids, NEW est \in Nat, NativeAdmit(id, est)
  PROVE  NativeInv'
<1> DEFINE old == BytesOf(allocated_map_, Ids)
           was == allocated_map_[id]
<1>1. /\ allocated_map_ \in [Ids -> Nat] /\ was \in Nat
      /\ allocated_bytes_ \in Nat /\ leaked_bytes \in Nat
      /\ allocated_bytes_ = old + leaked_bytes
  BY DEF NativeInv, NativeSumCovers
<1>2. old \in Nat
  BY <1>1, ChargesFinite
<1>3. /\ allocated_map_' = [allocated_map_ EXCEPT ![id] = est]
      /\ allocated_bytes_' = allocated_bytes_ + est
      /\ leaked_bytes' = leaked_bytes + was
      /\ Decision(allocated_bytes_, est) = "admit"
  BY DEF NativeAdmit
<1>4. BytesOf(allocated_map_', Ids) = old - was + est
  BY <1>1, <1>3, BytesReplace
<1>5. (allocated_bytes_ + est) * 100 < HighPct * Budget
  BY <1>1, <1>3, AdmitFits
<1>6. /\ allocated_map_' \in [Ids -> Nat]
      /\ allocated_bytes_' \in Nat /\ leaked_bytes' \in Nat
  BY <1>1, <1>3
<1>7. BytesOf(allocated_map_', Ids) \in Nat
  BY <1>6, ChargesFinite
<1>8. HighPct * Budget \in Nat
  BY AdmissionAssumption
<1> HIDE DEF old, was
<1>9. allocated_bytes_' = BytesOf(allocated_map_', Ids) + leaked_bytes'
  BY <1>1, <1>2, <1>3, <1>4
<1>10. BytesOf(allocated_map_', Ids) * 100 < HighPct * Budget
  <2>1. BytesOf(allocated_map_', Ids) <= allocated_bytes_ + est
    BY <1>1, <1>2, <1>4
  <2> QED
    BY <2>1, <1>1, <1>5, <1>7, <1>8
<1> QED
  BY <1>6, <1>9, <1>10 DEF NativeInv, NativeSumCovers, BytesOf, Charges

LEMMA NativeReleaseKeepsInv ==
  ASSUME NativeInv, NEW id \in Ids, NativeRelease(id)
  PROVE  NativeInv'
<1> DEFINE old == BytesOf(allocated_map_, Ids)
           was == allocated_map_[id]
<1>1. /\ allocated_map_ \in [Ids -> Nat] /\ was \in Nat
      /\ allocated_bytes_ \in Nat /\ leaked_bytes \in Nat
      /\ allocated_bytes_ = old + leaked_bytes
      /\ old * 100 < HighPct * Budget
  BY DEF NativeInv, NativeSumCovers
<1>2. old \in Nat
  BY <1>1, ChargesFinite
<1>3. /\ allocated_map_' = [allocated_map_ EXCEPT ![id] = 0]
      /\ allocated_bytes_' = allocated_bytes_ - was
      /\ leaked_bytes' = leaked_bytes
  BY DEF NativeRelease
<1>4. BytesOf(allocated_map_', Ids) = old - was + 0
  BY <1>1, <1>3, BytesReplace
<1>5. allocated_map_' \in [Ids -> Nat]
  BY <1>1, <1>3
<1>6. BytesOf(allocated_map_', Ids) \in Nat
  BY <1>5, ChargesFinite
<1>7. HighPct * Budget \in Nat
  BY AdmissionAssumption
<1> HIDE DEF old, was
<1>8. /\ allocated_bytes_' = BytesOf(allocated_map_', Ids) + leaked_bytes'
      /\ allocated_bytes_' \in Nat
  BY <1>1, <1>2, <1>3, <1>4, <1>6
<1>9. BytesOf(allocated_map_', Ids) * 100 < HighPct * Budget
  BY <1>1, <1>2, <1>4, <1>6, <1>7
<1> QED
  BY <1>1, <1>3, <1>5, <1>8, <1>9 DEF NativeInv, NativeSumCovers, BytesOf, Charges

(* The native ledger's sum is its entries and what a second admission has  *)
(* overwritten: the subtraction of release() never wraps, and the bytes of *)
(* the admitted ids stay below the high watermark.                         *)
THEOREM NativeSumNeverWraps ==
  NativeSpec => [](NativeSumCovers /\ allocated_bytes_ \in Nat)
<1>1. NativeInit => NativeInv
  BY NativeInitInv
<1>2. NativeInv /\ [NativeNext]_nativeVars => NativeInv'
  <2> SUFFICES ASSUME NativeInv, [NativeNext]_nativeVars PROVE NativeInv'
    OBVIOUS
  <2>1. ASSUME NEW id \in Ids, NativeRelease(id) PROVE NativeInv'
    BY <2>1, NativeReleaseKeepsInv
  <2>2. ASSUME NEW id \in Ids, NEW est \in Estimates, NativeAdmit(id, est) PROVE NativeInv'
    BY <2>2, NativeAdmitKeepsInv, AdmissionAssumption
  <2>3. CASE UNCHANGED nativeVars
    BY <2>3 DEF nativeVars, NativeInv, NativeSumCovers, BytesOf, Charges
  <2> QED
    BY <2>1, <2>2, <2>3 DEF NativeNext
<1>3. NativeInv => NativeSumCovers /\ allocated_bytes_ \in Nat
  BY DEF NativeInv
<1> QED
  BY <1>1, <1>2, <1>3, PTL DEF NativeSpec

-----------------------------------------------------------------------------
(* The slots of the native expert cache.                                   *)
SlotRecords == [key : LfruKeys \cup {NoKey}, heat : Nat, is_pinned : BOOLEAN]

(* The types, that no slot is free twice, and PinsStayWithExperts.         *)
LfruInv ==
  /\ key_to_slot_ \in [LfruKeys -> {-1} \cup SlotIds]
  /\ slots_ \in [SlotIds -> SlotRecords]
  /\ lfru_free \in Seq(SlotIds)
  /\ \A i, j \in DOMAIN lfru_free : lfru_free[i] = lfru_free[j] => i = j
  /\ PinsStayWithExperts

LEMMA LfruInitInv == LfruInit => LfruInv
<1> SUFFICES ASSUME LfruInit PROVE LfruInv
  OBVIOUS
<1> USE LfruAssumption DEF LfruInit, SlotIds
<1>1. /\ key_to_slot_ \in [LfruKeys -> {-1} \cup SlotIds]
      /\ slots_ \in [SlotIds -> SlotRecords]
  BY DEF SlotRecords
<1>2. /\ lfru_free \in [1 .. LfruSlots -> SlotIds]
      /\ lfru_free \in Seq(SlotIds) /\ DOMAIN lfru_free = 1 .. LfruSlots
  OBVIOUS
<1>3. \A i, j \in DOMAIN lfru_free : lfru_free[i] = lfru_free[j] => i = j
  BY <1>2
<1>4. \A s \in SlotIds : s \in ToSet(lfru_free)
  <2> TAKE s \in SlotIds
  <2>1. LfruSlots - s \in 1 .. LfruSlots /\ lfru_free[LfruSlots - s] = s
    OBVIOUS
  <2> QED
    BY <2>1, <1>2 DEF ToSet
<1>5. Contained = {}
  BY DEF Contained
<1> QED
  BY <1>1, <1>2, <1>3, <1>4, <1>5 DEF LfruInv, PinsStayWithExperts

(* A step that moves no expert and no pin.                                 *)
LEMMA SameExpertsKeepInv ==
  ASSUME LfruInv, slots_' \in [SlotIds -> SlotRecords],
         UNCHANGED <<key_to_slot_, lfru_free, callersPins>>,
         \A s \in SlotIds : /\ slots_'[s].key = slots_[s].key
                            /\ slots_'[s].is_pinned = slots_[s].is_pinned
  PROVE  LfruInv'
<1>1. Contained' = Contained /\ \A k \in Contained : key_to_slot_[k] \in SlotIds
  BY DEF Contained, LfruInv
<1> QED
  BY <1>1 DEF LfruInv, PinsStayWithExperts

LEMMA HeatsAreNumbers ==
  ASSUME NEW m \in Nat
  PROVE  AtMost(m) \in Nat
BY LfruAssumption DEF AtMost

(* A step that only warms up slot s.                                       *)
LEMMA WarmerKeepsInv ==
  ASSUME LfruInv, NEW k \in Contained, NEW m \in Nat,
         slots_' = [slots_ EXCEPT ![key_to_slot_[k]].heat = AtMost(@ + m)],
         UNCHANGED <<key_to_slot_, lfru_free, callersPins>>
  PROVE  LfruInv'
<1> DEFINE s == key_to_slot_[k]
<1>1. s \in SlotIds /\ slots_[s] \in SlotRecords
  BY DEF Contained, LfruInv
<1>2. slots_[s].heat \in Nat /\ AtMost(slots_[s].heat + m) \in Nat
  BY <1>1, HeatsAreNumbers DEF SlotRecords
<1>3. slots_' = [slots_ EXCEPT ![s] = [slots_[s] EXCEPT !.heat = AtMost(slots_[s].heat + m)]]
  BY <1>1 DEF LfruInv
<1>4. [slots_[s] EXCEPT !.heat = AtMost(slots_[s].heat + m)] \in SlotRecords
  BY <1>1, <1>2 DEF SlotRecords
<1>5. slots_' \in [SlotIds -> SlotRecords]
  BY <1>1, <1>3, <1>4 DEF LfruInv
<1>6. \A t \in SlotIds : /\ slots_'[t].key = slots_[t].key
                         /\ slots_'[t].is_pinned = slots_[t].is_pinned
  BY <1>1, <1>3 DEF LfruInv, SlotRecords
<1> QED
  BY <1>5, <1>6, SameExpertsKeepInv

LEMMA DecayKeepsInv ==
  ASSUME LfruInv, DecayHeat
  PROVE  LfruInv'
<1>1. ASSUME NEW s \in SlotIds
      PROVE  /\ slots_'[s] \in SlotRecords
             /\ slots_'[s].key = slots_[s].key
             /\ slots_'[s].is_pinned = slots_[s].is_pinned
  <2>1. slots_[s] \in SlotRecords
    BY DEF LfruInv
  <2>2. slots_[s].heat \div 2 \in Nat
    BY <2>1 DEF SlotRecords
  <2> QED
    BY <2>1, <2>2 DEF DecayHeat, SlotRecords
<1>2. slots_' \in [SlotIds -> SlotRecords]
  BY <1>1 DEF DecayHeat
<1> QED
  BY <1>1, <1>2, SameExpertsKeepInv DEF DecayHeat

(* A step that changes the pins of where the experts are, and the callers' *)
(* in the same way.                                                        *)
LEMMA PinsKeepInv ==
  ASSUME LfruInv, NEW S \in SUBSET SlotIds,
         UNCHANGED <<key_to_slot_, lfru_free>>,
         slots_' \in [SlotIds -> SlotRecords],
         \A s \in SlotIds : /\ slots_'[s].key = slots_[s].key
                            /\ slots_'[s].is_pinned <=> s \in S,
         callersPins' = {k \in Contained : key_to_slot_[k] \in S}
  PROVE  LfruInv'
<1>1. Contained' = Contained /\ \A k \in Contained : key_to_slot_[k] \in SlotIds
  BY DEF Contained, LfruInv
<1> QED
  BY <1>1 DEF LfruInv, PinsStayWithExperts

LEMMA CallersPinsAreContained ==
  ASSUME LfruInv
  PROVE  /\ callersPins = {k \in Contained : slots_[key_to_slot_[k]].is_pinned}
         /\ \A k \in Contained : key_to_slot_[k] \in SlotIds /\ slots_[key_to_slot_[k]].key = k
         /\ \A s \in SlotIds : slots_[s] \in SlotRecords
         /\ Contained \subseteq LfruKeys
BY DEF LfruInv, PinsStayWithExperts, Contained

LEMMA PinKeysKeepsInv ==
  ASSUME LfruInv, NEW keys \in SUBSET LfruKeys, PinKeys(keys)
  PROVE  LfruInv'
<1> DEFINE S == {s \in SlotIds : slots_[s].is_pinned \/ slots_[s].key \in keys}
<1>1. ASSUME NEW s \in SlotIds
      PROVE  /\ slots_'[s] \in SlotRecords
             /\ slots_'[s].key = slots_[s].key
             /\ slots_'[s].is_pinned <=> s \in S
  <2>1. slots_[s] \in SlotRecords
    BY CallersPinsAreContained
  <2>2. slots_'[s] = [slots_[s] EXCEPT !.is_pinned = slots_[s].is_pinned \/ slots_[s].key \in keys]
    BY DEF PinKeys
  <2> QED
    BY <2>1, <2>2 DEF SlotRecords
<1>2. slots_' \in [SlotIds -> SlotRecords]
  BY <1>1 DEF PinKeys
<1>3. callersPins' = {k \in Contained : key_to_slot_[k] \in S}
  BY CallersPinsAreContained DEF PinKeys
<1> HIDE DEF S
<1> QED
  BY <1>1, <1>2, <1>3, PinsKeepInv DEF PinKeys, S

LEMMA UnpinKeysKeepsInv ==
  ASSUME LfruInv, NEW keys \in SUBSET LfruKeys, UnpinKeys(keys)
  PROVE  LfruInv'
<1> DEFINE S == {s \in SlotIds : slots_[s].is_pinned /\ slots_[s].key \notin keys}
<1>1. ASSUME NEW s \in SlotIds
      PROVE  /\ slots_'[s] \in SlotRecords
             /\ slots_'[s].key = slots_[s].key
             /\ slots_'[s].is_pinned <=> s \in S
  <2>1. slots_[s] \in SlotRecords
    BY CallersPinsAreContained
  <2>2. slots_'[s] = [slots_[s] EXCEPT !.is_pinned = slots_[s].is_pinned /\ slots_[s].key \notin keys]
    BY DEF UnpinKeys
  <2> QED
    BY <2>1, <2>2 DEF SlotRecords
<1>2. slots_' \in [SlotIds -> SlotRecords]
  BY <1>1 DEF UnpinKeys
<1>3. callersPins' = {k \in Contained : key_to_slot_[k] \in S}
  BY CallersPinsAreContained DEF UnpinKeys
<1> HIDE DEF S
<1> QED
  BY <1>1, <1>2, <1>3, PinsKeepInv DEF UnpinKeys, S

LEMMA PinSlotKeepsInv ==
  ASSUME LfruInv, NEW at \in SlotIds, PinSlot(at)
  PROVE  LfruInv'
<1> DEFINE S == {s \in SlotIds : slots_[s].is_pinned \/ s = at}
<1>1. ASSUME NEW s \in SlotIds
      PROVE  /\ slots_'[s] \in SlotRecords
             /\ slots_'[s].key = slots_[s].key
             /\ slots_'[s].is_pinned <=> s \in S
  <2>1. slots_[s] \in SlotRecords /\ slots_ \in [SlotIds -> SlotRecords]
    BY DEF LfruInv
  <2>2. slots_'[s] = IF s = at THEN [slots_[s] EXCEPT !.is_pinned = TRUE] ELSE slots_[s]
    BY <2>1 DEF PinSlot
  <2> QED
    BY <2>1, <2>2 DEF SlotRecords
<1>2. slots_' \in [SlotIds -> SlotRecords]
  BY <1>1 DEF PinSlot, LfruInv
<1>3. \A k \in Contained : k = slots_[at].key <=> key_to_slot_[k] = at
  BY CallersPinsAreContained, LfruAssumption DEF LfruInv, PinsStayWithExperts
<1>4. slots_[at].key \in Contained \cup {NoKey} /\ NoKey \notin Contained
  BY LfruAssumption, CallersPinsAreContained DEF LfruInv, PinsStayWithExperts
<1>5. callersPins' = {k \in Contained : key_to_slot_[k] \in S}
  BY <1>3, <1>4, CallersPinsAreContained DEF PinSlot
<1> HIDE DEF S
<1> QED
  BY <1>1, <1>2, <1>5, PinsKeepInv DEF PinSlot, S

(* A newcomer in slot s: its key takes the place of the key that was there *)
(* before, and nobody's pin is passed on or lost, as the slot had none or  *)
(* held nobody.                                                            *)
LEMMA EnterMoves ==
  ASSUME LfruInv, NEW k \in LfruKeys \ Contained, NEW heat \in CandidateHeats,
         NEW s \in SlotIds, Enter(k, heat, s)
  PROVE  /\ key_to_slot_' \in [LfruKeys -> {-1} \cup SlotIds]
         /\ slots_' \in [SlotIds -> SlotRecords]
         /\ Contained' = (Contained \ {slots_[s].key}) \cup {k}
         /\ key_to_slot_'[k] = s
         /\ \A j \in Contained' \ {k} : key_to_slot_'[j] = key_to_slot_[j] /\ key_to_slot_[j] # s
         /\ slots_'[s].key = k /\ ~slots_'[s].is_pinned
         /\ \A t \in SlotIds \ {s} : slots_'[t] = slots_[t]
<1> USE LfruAssumption DEF Enter
<1>1. key_to_slot_' \in [LfruKeys -> {-1} \cup SlotIds]
  BY DEF LfruInv
<1>2. [key |-> k, heat |-> heat, is_pinned |-> FALSE] \in SlotRecords
  BY DEF SlotRecords
<1>3. /\ slots_' \in [SlotIds -> SlotRecords]
      /\ slots_'[s] = [key |-> k, heat |-> heat, is_pinned |-> FALSE]
      /\ \A t \in SlotIds \ {s} : slots_'[t] = slots_[t]
  BY <1>2 DEF LfruInv
<1>3a. slots_'[s].key = k /\ ~slots_'[s].is_pinned
  BY <1>3
<1>4. s # -1 /\ k # slots_[s].key
  BY DEF SlotIds, LfruInv, PinsStayWithExperts
<1>5. key_to_slot_'[k] = s
  OBVIOUS
<1>6. ASSUME NEW j \in LfruKeys \ {k}
      PROVE  /\ j = slots_[s].key => key_to_slot_'[j] = -1
             /\ j # slots_[s].key => key_to_slot_'[j] = key_to_slot_[j]
  OBVIOUS
<1>7. Contained' = (Contained \ {slots_[s].key}) \cup {k}
  <2>1. \A j : j \in Contained' <=> j \in (Contained \ {slots_[s].key}) \cup {k}
    <3> TAKE j
    <3>1. CASE j = k
      BY <3>1, <1>4, <1>5 DEF Contained
    <3>2. CASE j # k /\ j \in LfruKeys
      BY <3>2, <1>6 DEF Contained
    <3>3. CASE j \notin LfruKeys
      BY <3>3 DEF Contained
    <3> QED
      BY <3>1, <3>2, <3>3
  <2> QED
    BY <2>1
<1>8. \A j \in Contained' \ {k} : key_to_slot_'[j] = key_to_slot_[j] /\ key_to_slot_[j] # s
  <2> TAKE j \in Contained' \ {k}
  <2>1. j \in Contained /\ j # slots_[s].key /\ j \in LfruKeys \ {k}
    BY <1>7 DEF Contained
  <2> QED
    BY <2>1, <1>6, CallersPinsAreContained
<1> QED
  BY <1>1, <1>3, <1>3a, <1>5, <1>7, <1>8

LEMMA EnterFreeKeepsInv ==
  ASSUME LfruInv, NEW k \in LfruKeys, NEW heat \in CandidateHeats, EnterFree(k, heat)
  PROVE  LfruInv'
<1> DEFINE n == Len(lfru_free)
           s == lfru_free[n]
<1>1. /\ n \in Nat \ {0} /\ n = Len(lfru_free) /\ DOMAIN lfru_free = 1 .. n
      /\ s \in SlotIds /\ s = lfru_free[n]
      /\ lfru_free \in [1 .. n -> SlotIds]
      /\ k \in LfruKeys \ Contained
  BY DEF EnterFree, LfruInv
<1>2. Enter(k, heat, s)
  BY DEF EnterFree, Last
<1> HIDE DEF n, s
<1>types. /\ key_to_slot_' \in [LfruKeys -> {-1} \cup SlotIds]
          /\ slots_' \in [SlotIds -> SlotRecords]
  BY <1>1, <1>2, EnterMoves
<1>there. Contained' = (Contained \ {slots_[s].key}) \cup {k}
  BY <1>1, <1>2, EnterMoves
<1>slot. /\ key_to_slot_'[k] = s
         /\ \A j \in Contained' \ {k} : key_to_slot_'[j] = key_to_slot_[j] /\ key_to_slot_[j] # s
  BY <1>1, <1>2, EnterMoves
<1>row. /\ slots_'[s].key = k /\ ~slots_'[s].is_pinned
        /\ \A t \in SlotIds \ {s} : slots_'[t] = slots_[t]
  BY <1>1, <1>2, EnterMoves
<1>3. /\ lfru_free' \in Seq(SlotIds) /\ Len(lfru_free') = n - 1
      /\ DOMAIN lfru_free' = 1 .. n - 1
      /\ \A i \in 1 .. n - 1 : lfru_free'[i] = lfru_free[i]
  BY <1>1 DEF EnterFree, Front, LfruInv
<1>4. \A i, j \in DOMAIN lfru_free' : lfru_free'[i] = lfru_free'[j] => i = j
  BY <1>1, <1>3 DEF LfruInv
<1>5. ToSet(lfru_free') = ToSet(lfru_free) \ {s} /\ s \in ToSet(lfru_free)
  <2>1. \A t : t \in ToSet(lfru_free) <=> \E i \in 1 .. n : lfru_free[i] = t
    BY <1>1 DEF ToSet
  <2>2. \A t : t \in ToSet(lfru_free') <=> \E i \in 1 .. n - 1 : lfru_free[i] = t
    BY <1>3 DEF ToSet
  <2>3. \A i \in 1 .. n - 1 : lfru_free[i] # s
    BY <1>1 DEF LfruInv
  <2> QED
    BY <2>1, <2>2, <2>3, <1>1
<1>6. slots_[s].key = NoKey /\ NoKey \notin Contained
  BY <1>1, <1>5, LfruAssumption DEF LfruInv, PinsStayWithExperts, Contained
<1>7. Contained' = Contained \cup {k} /\ callersPins' = callersPins
  BY <1>1, <1>2, <1>6, <1>there DEF Enter
<1> HIDE DEF n, s
<1>8. PinsStayWithExperts'
  <2>1. \A t \in SlotIds :
           IF t \in ToSet(lfru_free') THEN slots_'[t].key = NoKey
           ELSE slots_'[t].key \in Contained' /\ key_to_slot_'[slots_'[t].key] = t
    BY <1>1, <1>5, <1>7, <1>slot, <1>row DEF LfruInv, PinsStayWithExperts
  <2>2. \A j \in Contained' : slots_'[key_to_slot_'[j]].key = j
    BY <1>1, <1>7, <1>slot, <1>row, CallersPinsAreContained
  <2>3. callersPins' = {j \in Contained' : slots_'[key_to_slot_'[j]].is_pinned}
    BY <1>1, <1>7, <1>slot, <1>row, CallersPinsAreContained
  <2> QED
    BY <2>1, <2>2, <2>3 DEF PinsStayWithExperts
<1> QED
  BY <1>1, <1>2, <1>3, <1>4, <1>8, <1>types DEF LfruInv

LEMMA EnterEvictingKeepsInv ==
  ASSUME LfruInv, NEW k \in LfruKeys, NEW heat \in CandidateHeats, NEW force \in BOOLEAN,
         EnterEvicting(k, heat, force)
  PROVE  LfruInv'
<1> PICK s \in VictimsFor(heat, force) : Enter(k, heat, s)
  BY DEF EnterEvicting
<1> DEFINE evicted == slots_[s].key
<1>1. s \in SlotIds /\ ~slots_[s].is_pinned /\ k \in LfruKeys \ Contained
  BY DEF VictimsFor, ColdestUnpinned, EnterEvicting
<1>types. /\ key_to_slot_' \in [LfruKeys -> {-1} \cup SlotIds]
          /\ slots_' \in [SlotIds -> SlotRecords]
  BY <1>1, EnterMoves
<1>there. Contained' = (Contained \ {slots_[s].key}) \cup {k}
  BY <1>1, EnterMoves
<1>slot. /\ key_to_slot_'[k] = s
         /\ \A j \in Contained' \ {k} : key_to_slot_'[j] = key_to_slot_[j] /\ key_to_slot_[j] # s
  BY <1>1, EnterMoves
<1>row. /\ slots_'[s].key = k /\ ~slots_'[s].is_pinned
        /\ \A t \in SlotIds \ {s} : slots_'[t] = slots_[t]
  BY <1>1, EnterMoves
<1>2. ToSet(lfru_free) = {} /\ lfru_free' = lfru_free
  BY DEF EnterEvicting, ToSet
<1>3. evicted \in Contained /\ key_to_slot_[evicted] = s
  BY <1>1, <1>2 DEF LfruInv, PinsStayWithExperts
<1>4. /\ Contained' = (Contained \ {evicted}) \cup {k} /\ callersPins' = callersPins
      /\ evicted \notin callersPins
  BY <1>1, <1>3, <1>there, CallersPinsAreContained DEF Enter
<1> HIDE DEF evicted
<1>5. PinsStayWithExperts'
  <2>1. \A t \in SlotIds :
           slots_'[t].key \in Contained' /\ key_to_slot_'[slots_'[t].key] = t
    <3> TAKE t \in SlotIds
    <3>1. slots_[t].key \in Contained /\ key_to_slot_[slots_[t].key] = t
      BY <1>2 DEF LfruInv, PinsStayWithExperts
    <3> QED
      BY <1>1, <1>3, <1>4, <3>1, <1>slot, <1>row
  <2>2. \A j \in Contained' : slots_'[key_to_slot_'[j]].key = j
    BY <1>1, <1>4, <1>slot, <1>row, CallersPinsAreContained
  <2>3. callersPins' = {j \in Contained' : slots_'[key_to_slot_'[j]].is_pinned}
    BY <1>1, <1>4, <1>slot, <1>row, CallersPinsAreContained
  <2>4. ToSet(lfru_free') = {}
    BY <1>2
  <2> QED
    BY <2>1, <2>2, <2>3, <2>4 DEF PinsStayWithExperts
<1> QED
  BY <1>1, <1>2, <1>5, <1>types DEF LfruInv

LEMMA LfruInvariant == LfruSpec => []LfruInv
<1>1. ASSUME LfruInv, [LfruNext]_lfruVars PROVE LfruInv'
  <2>1. CASE UNCHANGED lfruVars
    BY <1>1, <2>1 DEF lfruVars, LfruInv, PinsStayWithExperts, Contained
  <2>2. CASE DecayHeat
    BY <1>1, <2>2, DecayKeepsInv
  <2>3. ASSUME NEW s \in SlotIds, PinSlot(s) PROVE LfruInv'
    BY <1>1, <2>3, PinSlotKeepsInv
  <2>4. ASSUME NEW k \in LfruKeys, LfruGet(k) PROVE LfruInv'
    BY <1>1, <2>4, WarmerKeepsInv DEF LfruGet
  <2>5. ASSUME NEW k \in LfruKeys, PinKeys({k}) PROVE LfruInv'
    BY <1>1, <2>5, PinKeysKeepsInv
  <2>6. ASSUME NEW k \in LfruKeys, UnpinKeys({k}) PROVE LfruInv'
    BY <1>1, <2>6, UnpinKeysKeepsInv
  <2>7. ASSUME NEW k \in LfruKeys, NEW heat \in CandidateHeats, NEW force \in BOOLEAN,
               LfruAllocate(k, heat, force)
        PROVE  LfruInv'
    <3>1. CASE RefuseSlot(k, heat, force)
      BY <2>1, <3>1 DEF RefuseSlot
    <3>2. CASE AllocateContained(k, heat)
      <4>1. heat \in Nat
        BY LfruAssumption
      <4> QED
        BY <1>1, <3>2, <4>1, WarmerKeepsInv DEF AllocateContained
    <3>3. CASE EnterFree(k, heat)
      BY <1>1, <3>3, EnterFreeKeepsInv
    <3>4. CASE EnterEvicting(k, heat, force)
      BY <1>1, <3>4, EnterEvictingKeepsInv
    <3> QED
      BY <2>7, <3>1, <3>2, <3>3, <3>4 DEF LfruAllocate
  <2> QED
    BY <1>1, <2>1, <2>2, <2>3, <2>4, <2>5, <2>6, <2>7 DEF LfruNext
<1> QED
  BY <1>1, LfruInitInv, PTL DEF LfruSpec

(* The maps, the slots and the free list of the native cache agree, and a  *)
(* pin belongs to the expert that was pinned, for any number of experts    *)
(* and slots.                                                              *)
THEOREM PinsBelongToExperts == LfruSpec => []PinsStayWithExperts
<1>1. LfruInv => PinsStayWithExperts
  BY DEF LfruInv
<1> QED
  BY <1>1, LfruInvariant, PTL

-----------------------------------------------------------------------------
(* The twin counts what the dictionary counts, until a history is loaded.  *)
HistoryInv ==
  /\ has_native /\ ~restored => native_counts = counts

THEOREM BothCountAlike == HistorySpec => []RankingIsTheCounts
<1>1. HistoryInit => HistoryInv
  BY DEF HistoryInit, HistoryInv
<1>2. ASSUME HistoryInv, [HistoryNext]_historyVars PROVE HistoryInv'
  <2>1. CASE UNCHANGED historyVars
    BY <1>2, <2>1 DEF historyVars, HistoryInv
  <2>2. ASSUME NEW e \in RoutedExperts, NEW times \in 1 .. 2, RecordRoute(e, times) PROVE HistoryInv'
    BY <1>2, <2>2 DEF RecordRoute, HistoryInv
  <2>3. CASE DecayCounts
    BY <1>2, <2>3 DEF DecayCounts, HistoryInv, Halved, NativeHalved
  <2>4. CASE SaveHistory \/ LoadHistory \/ NewSession
    BY <1>2, <2>4 DEF SaveHistory, LoadHistory, NewSession, HistoryInv
  <2> QED
    BY <1>2, <2>1, <2>2, <2>3, <2>4 DEF HistoryNext
<1>3. HistoryInv => RankingIsTheCounts
  BY DEF HistoryInv, RankingIsTheCounts, RankedBy
<1> QED
  BY <1>1, <1>2, <1>3, PTL DEF HistorySpec

-----------------------------------------------------------------------------
(* The pool holds exactly the pages that the controller counts; the cache  *)
(* may hold more slots than it counts, never fewer.                        *)
ElasticInv ==
  /\ countedSlots \in FewestSlots .. MostSlots
  /\ countedPages \in FewestPages .. MostPages
  /\ heldPages = countedPages
  /\ heldSlots \in Nat /\ countedSlots <= heldSlots
  /\ pins \in Nat

LEMMA WantedInRange ==
  ASSUME NEW needed \in 0 .. MostNeeded
  PROVE  WantedPages(needed) \in FewestPages .. MostPages
BY BudgetAssumption DEF WantedPages, More, Fewer, RoundedUp

LEMMA DividingDown ==
  ASSUME NEW m \in Int, NEW n \in Nat \ {0}
  PROVE  /\ m \div n \in Int
         /\ (m \div n) * n <= m
         /\ m < (m \div n) * n + n
OBVIOUS

LEMMA Scaling ==
  ASSUME NEW i \in Int, NEW j \in Int, i <= j, NEW n \in Nat
  PROVE  i * n <= j * n
OBVIOUS

LEMMA RoundingUp ==
  ASSUME NEW m \in Int, NEW n \in Nat \ {0}
  PROVE  /\ RoundedUp(m, n) \in Int /\ RoundedUp(m, n) * n \in Int
         /\ RoundedUp(m, n) * n >= m
<1> DEFINE up == RoundedUp(m, n)
<1>1. up \in Int /\ m + n - 1 < up * n + n
  BY DividingDown, m + n - 1 \in Int DEF RoundedUp
<1>2. up * n \in Int
  BY <1>1
<1> HIDE DEF up
<1>3. up * n >= m
  BY <1>1, <1>2
<1> QED
  BY <1>1, <1>2, <1>3 DEF up

LEMMA AtMostQuotient ==
  ASSUME NEW k \in Int, NEW m \in Int, NEW n \in Nat \ {0}, n * k <= m
  PROVE  m \div n \in Int /\ k <= m \div n
<1> DEFINE q == m \div n
<1>1. q \in Int /\ m < q * n + n
  BY DividingDown
<1> HIDE DEF q
<1>2. ASSUME ~ (k <= q) PROVE FALSE
  <2>1. q + 1 \in Int /\ q + 1 <= k
    BY <1>1, <1>2
  <2>2. (q + 1) * n <= k * n
    BY <2>1, Scaling
  <2>3. (q + 1) * n = q * n + n /\ k * n = n * k /\ q * n \in Int /\ n * k \in Int
    BY <1>1
  <2> QED
    BY <1>1, <2>2, <2>3
<1> QED
  BY <1>1, <1>2 DEF q

LEMMA ProductsAreInt ==
  ASSUME NEW i \in Int, NEW j \in Int
  PROVE  i * j \in Int
OBVIOUS

LEMMA ProductIsPositive ==
  ASSUME NEW i \in Nat \ {0}, NEW j \in Nat \ {0}
  PROVE  i * j \in Nat \ {0}
OBVIOUS

LEMMA Distributes ==
  ASSUME NEW i \in Int, NEW j \in Int, NEW k \in Int
  PROVE  /\ i * (j - k) = i * j - i * k
         /\ (j - k) * i = i * j - i * k
         /\ (j + k) * i = i * j + i * k
         /\ i * (j * k) = j * (i * k)
OBVIOUS

LEMMA WrapsNothing ==
  ASSUME NEW n \in Int, n < IntRange, 0 - IntRange <= n
  PROVE  Wrapped(n) = n
<1>1. IntRange \in Nat \ {0} /\ n + IntRange \in Nat /\ n + IntRange < 2 * IntRange
  BY BudgetAssumption
<1>2. (n + IntRange) % (2 * IntRange) = n + IntRange
  BY <1>1
<1> QED
  BY <1>1, <1>2 DEF Wrapped

LEMMA WrappedIsInt ==
  ASSUME NEW n \in Int
  PROVE  Wrapped(n) \in Int
BY BudgetAssumption DEF Wrapped

(* A float quotient, rounded up, pays for what it divides but for what is  *)
(* lost to rounding; rounded down, it costs no more than that.             *)
LEMMA CeilingsPay ==
  ASSUME NEW n \in Int, NEW slots \in FloatCeilings(n, BudgetSlotBytes)
  PROVE  /\ slots \in Int /\ LostToRounding(n) \in Int
         /\ slots * BudgetSlotBytes + LostToRounding(n) >= n
<1> DEFINE m == BudgetSlotBytes F == FloatRange
<1>1. m \in Nat \ {0} /\ F \in Nat \ {0} /\ F > 4
  BY BudgetAssumption
<1> HIDE DEF m, F
<1>2. CASE DividesExactly(n, m)
  <2>1. slots = RoundedUp(n, m) /\ LostToRounding(n) = 0
    BY <1>2 DEF FloatCeilings, LostToRounding, m
  <2>2. slots \in Int /\ slots * m \in Int /\ slots * m >= n
    BY <1>1, <2>1, RoundingUp
  <2> QED
    BY <2>1, <2>2 DEF m
<1>3. CASE ~DividesExactly(n, m)
  <2> DEFINE low == (F - 4) * n
             c == RoundedUp(low, F * m)
             lost == (4 * n) \div F
  <2>1. /\ low \in Int /\ F * m \in Nat \ {0} /\ 4 * n \in Int
        /\ low = F * n - 4 * n /\ F * n \in Int
    <3>1. F - 4 \in Int /\ F * m \in Nat \ {0}
      BY <1>1, ProductIsPositive
    <3>2. low \in Int /\ 4 * n \in Int /\ F * n \in Int
      BY <1>1, <3>1, ProductsAreInt
    <3>3. low = F * n - 4 * n
      <4>1. (F - 4) * n = F * n - 4 * n
        BY <1>1
      <4> QED
        BY <4>1
    <3> QED
      BY <3>1, <3>2, <3>3
  <2>2. slots \in c .. RoundedUp((F + 4) * n, F * m) /\ LostToRounding(n) = lost
    BY <1>3 DEF FloatCeilings, LostToRounding, m, F
  <2> HIDE DEF low
  <2>3. c \in Int /\ c * (F * m) \in Int /\ c * (F * m) >= low
    BY <2>1, RoundingUp
  <2> HIDE DEF c
  <2>4. slots \in Int /\ c <= slots
    BY <2>2, <2>3
  <2>5. c * (F * m) <= slots * (F * m) /\ slots * (F * m) \in Int
    BY <2>1, <2>3, <2>4, Scaling, ProductsAreInt
  <2>6. slots * (F * m) = F * (slots * m) /\ slots * m \in Int
    BY <1>1, <2>4, Distributes, ProductsAreInt
  <2>7. F * (slots * m) >= F * n - 4 * n
    BY <2>1, <2>3, <2>5, <2>6
  <2>8. F * (n - slots * m) <= 4 * n
    <3>1. F * (n - slots * m) = F * n - F * (slots * m) /\ F * (slots * m) \in Int
      BY <1>1, <2>6, Distributes, ProductsAreInt
    <3> QED
      BY <2>1, <2>7, <3>1
  <2>9. n - slots * m <= lost /\ lost \in Int
    <3>1. n - slots * m \in Int
      BY <2>6
    <3> QED
      BY <1>1, <2>1, <2>8, <3>1, AtMostQuotient
  <2> HIDE DEF lost
  <2> QED
    BY <2>2, <2>4, <2>6, <2>9 DEF m
<1> QED
  BY <1>2, <1>3

LEMMA FloorsCost ==
  ASSUME NEW n \in Int, NEW slots \in FloatFloors(n, BudgetSlotBytes)
  PROVE  /\ slots \in Int /\ LostToRounding(n) \in Int
         /\ slots * BudgetSlotBytes <= n + LostToRounding(n)
<1> DEFINE m == BudgetSlotBytes F == FloatRange
<1>1. m \in Nat \ {0} /\ F \in Nat \ {0} /\ F > 4
  BY BudgetAssumption
<1> HIDE DEF m, F
<1>2. CASE DividesExactly(n, m)
  <2>1. slots = n \div m /\ LostToRounding(n) = 0
    BY <1>2 DEF FloatFloors, LostToRounding, m
  <2>2. slots \in Int /\ slots * m \in Int /\ slots * m <= n
    BY <1>1, <2>1, DividingDown, ProductsAreInt
  <2> QED
    BY <2>1, <2>2 DEF m
<1>3. CASE ~DividesExactly(n, m)
  <2> DEFINE high == (F + 4) * n
             f == high \div (F * m)
             lost == (4 * n) \div F
  <2>1. /\ high \in Int /\ F * m \in Nat \ {0} /\ 4 * n \in Int /\ F * n \in Int
        /\ high = F * n + 4 * n
    <3>1. F + 4 \in Int /\ F * m \in Nat \ {0}
      BY <1>1, ProductIsPositive
    <3>2. high \in Int /\ 4 * n \in Int /\ F * n \in Int
      BY <1>1, <3>1, ProductsAreInt
    <3>3. high = F * n + 4 * n
      <4>1. (F + 4) * n = F * n + 4 * n
        BY <1>1
      <4> QED
        BY <4>1
    <3> QED
      BY <3>1, <3>2, <3>3
  <2>2. slots \in (((F - 4) * n) \div (F * m)) .. f /\ LostToRounding(n) = lost
    BY <1>3 DEF FloatFloors, LostToRounding, m, F
  <2> HIDE DEF high
  <2>3. f \in Int /\ f * (F * m) <= high
    BY <2>1, DividingDown
  <2> HIDE DEF f
  <2>4. slots \in Int /\ slots <= f
    BY <2>2, <2>3
  <2>5. slots * (F * m) <= f * (F * m) /\ slots * (F * m) \in Int /\ f * (F * m) \in Int
    BY <2>1, <2>3, <2>4, Scaling, ProductsAreInt
  <2>6. slots * (F * m) = F * (slots * m) /\ slots * m \in Int
    BY <1>1, <2>4, Distributes, ProductsAreInt
  <2>7. F * (slots * m - n) <= 4 * n
    <3>1. F * (slots * m - n) = F * (slots * m) - F * n
      BY <1>1, <2>6, Distributes
    <3> QED
      BY <2>1, <2>3, <2>5, <2>6, <3>1
  <2>8. slots * m - n <= lost /\ lost \in Int
    <3>1. slots * m - n \in Int
      BY <2>6
    <3> QED
      BY <1>1, <2>1, <2>7, <3>1, AtMostQuotient
  <2> HIDE DEF lost
  <2> QED
    BY <2>2, <2>4, <2>6, <2>8 DEF m
<1> QED
  BY <1>2, <1>3

(* The slots that are given up are worth the pages that are gained, and    *)
(* the slots that are gained cost no more than the pages given up, both    *)
(* but for what is lost to rounding, as long as an int holds the bytes.    *)
LEMMA TradesArePaid ==
  ASSUME NEW d \in Int, NEW slots \in PaidSlots(d)
  PROVE  /\ slots \in Nat \ {0}
         /\ d * BudgetPageBytes < IntRange /\ 0 - IntRange <= d * BudgetPageBytes
              => slots * BudgetSlotBytes + LostToRounding(d * BudgetPageBytes)
                   >= d * BudgetPageBytes
<1> DEFINE n == d * BudgetPageBytes
<1>1. n \in Int /\ BudgetSlotBytes \in Nat
  BY BudgetAssumption, ProductsAreInt
<1> HIDE DEF n
<1>2. PICK up \in FloatCeilings(Wrapped(n), BudgetSlotBytes) : slots = More(1, up)
  BY DEF PaidSlots, PageBytes, n
<1>3. up \in Int
  BY <1>1, <1>2, WrappedIsInt, CeilingsPay
<1>4. slots \in Nat \ {0} /\ up <= slots
  BY <1>2, <1>3 DEF More
<1>5. ASSUME n < IntRange, 0 - IntRange <= n
      PROVE  slots * BudgetSlotBytes + LostToRounding(n) >= n
  <2>1. up \in FloatCeilings(n, BudgetSlotBytes)
    BY <1>1, <1>2, <1>5, WrapsNothing
  <2>2. up * BudgetSlotBytes + LostToRounding(n) >= n /\ LostToRounding(n) \in Int
    BY <1>1, <2>1, CeilingsPay
  <2>3. up * BudgetSlotBytes <= slots * BudgetSlotBytes
        /\ up * BudgetSlotBytes \in Int /\ slots * BudgetSlotBytes \in Int
    BY <1>1, <1>3, <1>4, Scaling, ProductsAreInt
  <2> QED
    BY <1>1, <2>2, <2>3
<1> QED
  BY <1>4, <1>5 DEF n

LEMMA GainsAreCovered ==
  ASSUME NEW d \in Int, NEW slots \in GainedSlots(d)
  PROVE  /\ slots \in Int
         /\ d * BudgetPageBytes < IntRange /\ 0 - IntRange <= d * BudgetPageBytes
              => slots * BudgetSlotBytes
                   <= d * BudgetPageBytes + LostToRounding(d * BudgetPageBytes)
<1> DEFINE n == d * BudgetPageBytes
<1>1. n \in Int
  BY BudgetAssumption, ProductsAreInt
<1> HIDE DEF n
<1>2. slots \in FloatFloors(Wrapped(n), BudgetSlotBytes)
  BY DEF GainedSlots, PageBytes, n
<1>3. slots \in Int
  BY <1>1, <1>2, WrappedIsInt, FloorsCost
<1>4. ASSUME n < IntRange, 0 - IntRange <= n
      PROVE  slots * BudgetSlotBytes <= n + LostToRounding(n)
  BY <1>1, <1>2, <1>4, WrapsNothing, FloorsCost
<1> QED
  BY <1>3, <1>4 DEF n

LEMMA LostIsNat ==
  ASSUME NEW n \in Int
  PROVE  LostToRounding(n) \in Nat /\ (n <= 0 => LostToRounding(n) = 0)
<1>1. CASE DividesExactly(n, BudgetSlotBytes)
  BY <1>1 DEF LostToRounding
<1>2. CASE ~DividesExactly(n, BudgetSlotBytes)
  <2>1. n > 0 /\ 4 * n \in Int /\ FloatRange \in Nat \ {0} /\ FloatRange * 0 <= 4 * n
    BY <1>2, BudgetAssumption DEF DividesExactly
  <2>2. (4 * n) \div FloatRange \in Int /\ 0 <= (4 * n) \div FloatRange
    BY <2>1, AtMostQuotient, 0 \in Int
  <2> QED
    BY <1>2, <2>1, <2>2 DEF LostToRounding
<1> QED
  BY <1>1, <1>2

LEMMA NegativeIsFree ==
  ASSUME NEW d \in Int, d < 0
  PROVE  d * BudgetPageBytes <= 0
<1>1. BudgetPageBytes \in Nat /\ 0 * BudgetPageBytes = 0
  BY BudgetAssumption
<1> QED
  BY <1>1, Scaling, 0 \in Int

(* A trade of y slots for d pages with lost bytes unpaid; y and d are      *)
(* negative when pages are given up for slots.                             *)
LEMMA FairTrade ==
  ASSUME NEW a \in Int, NEW b \in Int, NEW p \in Int, NEW y \in Int, NEW d \in Int,
         NEW lost \in Int,
         b <= a - y, y * BudgetSlotBytes + lost >= d * BudgetPageBytes
  PROVE  b * BudgetSlotBytes + (p + d) * BudgetPageBytes
           <= a * BudgetSlotBytes + p * BudgetPageBytes + lost
<1>1. BudgetSlotBytes \in Nat /\ BudgetPageBytes \in Nat /\ a - y \in Int
  BY BudgetAssumption
<1>2. b * BudgetSlotBytes <= (a - y) * BudgetSlotBytes
  BY <1>1, Scaling
<1>3. /\ (a - y) * BudgetSlotBytes = a * BudgetSlotBytes - y * BudgetSlotBytes
      /\ (p + d) * BudgetPageBytes = p * BudgetPageBytes + d * BudgetPageBytes
  BY <1>1
<1>4. /\ a * BudgetSlotBytes \in Int /\ b * BudgetSlotBytes \in Int /\ y * BudgetSlotBytes \in Int
      /\ p * BudgetPageBytes \in Int /\ d * BudgetPageBytes \in Int
  BY <1>1
<1> QED
  BY <1>2, <1>3, <1>4

(* What the cache makes of a new count.                                    *)
LEMMA ApplyHolds ==
  ASSUME ElasticInv, Apply,
         countedSlots' \in FewestSlots .. MostSlots, countedPages' \in FewestPages .. MostPages
  PROVE  /\ ElasticInv'
         /\ heldSlots' \in Nat
         /\ heldSlots' > More(FewestSlots, pins) => heldSlots' = countedSlots'
<1>1. /\ FewestSlots \in Nat \ {0} /\ MostSlots \in Nat
      /\ FewestPages \in Nat \ {0} /\ MostPages \in Nat
      /\ pins \in Nat /\ pins' = pins
  BY BudgetAssumption DEF ElasticInv, Apply
<1>2. heldPages' = countedPages'
  BY <1>1 DEF Apply, More, Fewer
<1>3. heldSlots' = More(More(1, pins), countedSlots')
  BY <1>1 DEF Apply, Fewer
<1>4. heldSlots' \in Nat /\ countedSlots' <= heldSlots'
      /\ (heldSlots' > More(FewestSlots, pins) => heldSlots' = countedSlots')
  BY <1>1, <1>3 DEF More
<1> QED
  BY <1>1, <1>2, <1>4 DEF ElasticInv

(* What a step is to trade, as HeldBytesAreTraded has it.                  *)
Fair ==
  TradedBytes < IntRange =>
    \/ HeldBytes' <= HeldBytes + LostToRounding(TradedBytes)
    \/ heldSlots' <= More(FewestSlots, pins)

LEMMA TradedIsPages ==
  ASSUME NEW d \in Int, countedPages \in Int,
         countedPages' = countedPages + d \/ countedPages' = countedPages - d
  PROVE  /\ TradedBytes \in Int
         /\ d >= 0 => TradedBytes = d * BudgetPageBytes
         /\ d * BudgetPageBytes \in Int /\ d * BudgetPageBytes <= TradedBytes
         /\ 0 - TradedBytes <= d * BudgetPageBytes
<1> DEFINE e == IF countedPages < countedPages' THEN countedPages' - countedPages
                ELSE countedPages - countedPages'
<1>1. e \in Int /\ (d >= 0 => e = d) /\ (d < 0 => e = 0 - d) /\ BudgetPageBytes \in Nat
  BY BudgetAssumption
<1>2. TradedBytes = BudgetPageBytes * e
  BY DEF TradedBytes
<1> HIDE DEF e
<1>3. /\ e * BudgetPageBytes \in Int /\ d * BudgetPageBytes \in Int
      /\ BudgetPageBytes * e = e * BudgetPageBytes
  BY <1>1
<1>4. d * BudgetPageBytes <= e * BudgetPageBytes
  BY <1>1, Scaling
<1>5. (0 - e) * BudgetPageBytes <= d * BudgetPageBytes
  BY <1>1, 0 - e \in Int, Scaling
<1>6. (0 - e) * BudgetPageBytes = 0 - e * BudgetPageBytes
  BY <1>1
<1> QED
  BY <1>1, <1>2, <1>3, <1>4, <1>5, <1>6

LEMMA SlotsAreTraded ==
  ASSUME ElasticInv, NEW wanted \in FewestPages .. MostPages, NEW forced,
         TradeSlots(wanted, forced)
  PROVE  ElasticInv' /\ Fair
<1> DEFINE d == wanted - countedPages
           n == d * BudgetPageBytes
<1>1. /\ FewestSlots \in Nat \ {0} /\ MostSlots \in Nat /\ FewestSlots <= MostSlots
      /\ countedSlots \in FewestSlots .. MostSlots /\ heldSlots \in Nat
      /\ countedSlots <= heldSlots /\ countedPages \in Int /\ heldPages = countedPages
      /\ wanted \in Int /\ wanted <= MostPages /\ MostPages \in Nat /\ pins \in Nat
      /\ d \in Int /\ IntRange \in Nat
  BY BudgetAssumption DEF ElasticInv
<1>2. PICK y \in PaidSlots(d) : countedSlots' = More(FewestSlots, countedSlots - y)
  BY DEF TradeSlots
<1>3. Apply /\ countedPages' = wanted /\ countedPages' = countedPages + d
  BY <1>1 DEF TradeSlots, Fewer
<1>4. y \in Nat \ {0}
      /\ (n < IntRange /\ 0 - IntRange <= n => y * BudgetSlotBytes + LostToRounding(n) >= n)
  BY <1>1, TradesArePaid
<1>5. /\ TradedBytes \in Int /\ (d >= 0 => TradedBytes = n)
      /\ n \in Int /\ n <= TradedBytes /\ 0 - TradedBytes <= n
  BY <1>1, <1>3, TradedIsPages
<1>6. countedSlots' \in FewestSlots .. MostSlots
  BY <1>1, <1>2, <1>4 DEF More
<1>7. /\ ElasticInv' /\ heldSlots' \in Nat
      /\ heldSlots' > More(FewestSlots, pins) => heldSlots' = countedSlots'
  BY <1>1, <1>3, <1>6, ApplyHolds
<1>8. heldPages' = heldPages + d
  BY <1>1, <1>3, <1>7 DEF ElasticInv
<1> HIDE DEF n, d
<1>9. ASSUME TradedBytes < IntRange, heldSlots' > More(FewestSlots, pins)
      PROVE  HeldBytes' <= HeldBytes + LostToRounding(TradedBytes)
  <2>1. heldSlots' <= heldSlots - y
    BY <1>1, <1>2, <1>4, <1>7, <1>9 DEF More
  <2>2. y * BudgetSlotBytes + LostToRounding(TradedBytes) >= n
    <3>1. y * BudgetSlotBytes + LostToRounding(n) >= n
      BY <1>1, <1>4, <1>5, <1>9
    <3>2. CASE d >= 0
      BY <1>5, <3>1, <3>2
    <3>3. CASE ~ (d >= 0)
      <4>1. n <= 0
        BY <1>1, <3>3, NegativeIsFree DEF n
      <4>2. LostToRounding(n) = 0 /\ LostToRounding(TradedBytes) \in Nat
        BY <1>5, <4>1, LostIsNat
      <4>3. y * BudgetSlotBytes \in Int
        BY <1>4, BudgetAssumption
      <4> QED
        BY <1>5, <3>1, <4>2, <4>3
    <3> QED
      BY <3>2, <3>3
  <2>3. LostToRounding(TradedBytes) \in Int
    BY <1>5, LostIsNat
  <2>4. HeldBytes = heldSlots * BudgetSlotBytes + heldPages * BudgetPageBytes
        /\ HeldBytes' = heldSlots' * BudgetSlotBytes + (heldPages + d) * BudgetPageBytes
    BY <1>8 DEF HeldBytes
  <2> QED
    BY <1>1, <1>4, <1>7, <2>1, <2>2, <2>3, <2>4, FairTrade DEF n
<1>10. More(FewestSlots, pins) \in Nat
  BY <1>1 DEF More
<1> QED
  BY <1>7, <1>9, <1>10 DEF Fair

LEMMA PagesAreTraded ==
  ASSUME ElasticInv, NEW wanted \in FewestPages .. MostPages, TradePages(wanted)
  PROVE  ElasticInv' /\ Fair
<1> DEFINE d == countedPages - wanted
           n == d * BudgetPageBytes
<1>1. /\ FewestSlots \in Nat \ {0} /\ MostSlots \in Nat /\ FewestSlots <= MostSlots
      /\ countedSlots \in FewestSlots .. MostSlots /\ heldSlots \in Nat
      /\ countedSlots <= heldSlots /\ countedPages \in Int /\ heldPages = countedPages
      /\ wanted \in Int /\ FewestPages <= wanted /\ FewestPages \in Nat /\ pins \in Nat
      /\ d \in Int /\ IntRange \in Nat
  BY BudgetAssumption DEF ElasticInv
<1>2. PICK g \in GainedSlots(d) : g > 0 /\ countedSlots' = Fewer(MostSlots, countedSlots + g)
  BY DEF TradePages
<1>3. Apply /\ countedPages' = wanted /\ countedPages' = countedPages - d /\ d >= 0
  BY <1>1, BudgetAssumption DEF TradePages, More
<1>4. g \in Int
      /\ (n < IntRange /\ 0 - IntRange <= n => g * BudgetSlotBytes <= n + LostToRounding(n))
  BY <1>1, GainsAreCovered
<1>5. TradedBytes = n /\ n \in Int /\ 0 - n <= n
  BY <1>1, <1>3, TradedIsPages
<1>6. countedSlots' \in FewestSlots .. MostSlots
  BY <1>1, <1>2, <1>4 DEF Fewer
<1>7. /\ ElasticInv' /\ heldSlots' \in Nat
      /\ heldSlots' > More(FewestSlots, pins) => heldSlots' = countedSlots'
  BY <1>1, <1>3, <1>6, ApplyHolds
<1>8. heldPages' = heldPages + (0 - d)
  BY <1>1, <1>3, <1>7 DEF ElasticInv
<1> HIDE DEF n, d
<1>9. ASSUME TradedBytes < IntRange, heldSlots' > More(FewestSlots, pins)
      PROVE  HeldBytes' <= HeldBytes + LostToRounding(TradedBytes)
  <2>1. heldSlots' <= heldSlots - (0 - g)
    BY <1>1, <1>2, <1>4, <1>7, <1>9 DEF Fewer
  <2>2. g * BudgetSlotBytes <= n + LostToRounding(n) /\ LostToRounding(n) \in Int
    BY <1>1, <1>4, <1>5, <1>9, LostIsNat
  <2>3. (0 - g) * BudgetSlotBytes + LostToRounding(n) >= (0 - d) * BudgetPageBytes
    <3>1. /\ (0 - g) * BudgetSlotBytes = 0 - g * BudgetSlotBytes
          /\ (0 - d) * BudgetPageBytes = 0 - n
          /\ g * BudgetSlotBytes \in Int
      BY <1>1, <1>4, BudgetAssumption DEF n
    <3> QED
      BY <1>5, <2>2, <3>1
  <2>4. 0 - g \in Int /\ 0 - d \in Int
    BY <1>1, <1>4
  <2>5. HeldBytes = heldSlots * BudgetSlotBytes + heldPages * BudgetPageBytes
        /\ HeldBytes' = heldSlots' * BudgetSlotBytes + (heldPages + (0 - d)) * BudgetPageBytes
    BY <1>8 DEF HeldBytes
  <2> QED
    BY <1>1, <1>5, <1>7, <2>1, <2>2, <2>3, <2>4, <2>5, FairTrade
<1>10. More(FewestSlots, pins) \in Nat
  BY <1>1 DEF More
<1> QED
  BY <1>7, <1>9, <1>10 DEF Fair

(* The native controller creates no memory either, for every size of slot  *)
(* and page, every width of int and float and every number of pins, though *)
(* it does not see the slots that pins keep: as long as an int can hold    *)
(* the bytes traded, the memory held grows by no more than floats round    *)
(* off, and by nothing while they are exact (evaluate_and_rebalance,       *)
(* resize_active_slots).                                                   *)
THEOREM NativeRebalanceCreatesNothing == ElasticSpec => HeldBytesAreTraded
<1>1. ElasticInit => ElasticInv
  BY BudgetAssumption DEF ElasticInit, ElasticInv
<1>2. ElasticInv /\ [ElasticNext]_elasticVars => ElasticInv' /\ [Fair]_elasticVars
  <2> SUFFICES ASSUME ElasticInv, [ElasticNext]_elasticVars
               PROVE  ElasticInv' /\ [Fair]_elasticVars
    OBVIOUS
  <2>1. CASE UNCHANGED elasticVars
    BY <2>1 DEF elasticVars, ElasticInv
  <2>2. ASSUME NEW needed \in 0 .. MostNeeded, NEW forced \in BOOLEAN,
               NativeRebalance(needed, forced)
        PROVE  ElasticInv' /\ Fair
    BY <2>2, WantedInRange, SlotsAreTraded, PagesAreTraded DEF NativeRebalance
  <2>3. CASE ChangePins
    <3>1. ElasticInv'
      BY <2>3, BudgetAssumption DEF ChangePins, ElasticInv
    <3>2. HeldBytes' = HeldBytes /\ HeldBytes \in Int
      BY <2>3, BudgetAssumption DEF ChangePins, HeldBytes, ElasticInv
    <3>3. TradedBytes \in Int
      BY <2>3, TradedIsPages, 0 \in Int DEF ChangePins, ElasticInv
    <3>4. LostToRounding(TradedBytes) \in Nat
      BY <3>3, LostIsNat
    <3> QED
      BY <3>1, <3>2, <3>4 DEF Fair
  <2> QED
    BY <2>1, <2>2, <2>3 DEF ElasticNext
<1>3. HeldBytesAreTraded <=> [][Fair]_elasticVars
  BY PTL DEF HeldBytesAreTraded, Fair
<1> QED
  BY <1>1, <1>2, <1>3, PTL DEF ElasticSpec

-----------------------------------------------------------------------------
(* WorkerPool.                                                             *)

(* Inside task(), and between the two blocks that count active_tasks_.     *)
Holders == {w \in Workers : worker[w] \in {"running", "notifying"}}
Busy == {w \in Workers : worker[w] \in {"running", "notifying", "counting"}}

ActiveExact == active = Cardinality(Busy)

(* The queue holds every queued task, once.                                *)
QueueExact ==
  /\ Injective(tasks)
  /\ \A t \in Tasks : status[t] = "queued" <=> t \in Items(tasks)

(* Every running task is run by one worker.                                *)
HoldsExact ==
  /\ \A w \in Holders : holds[w] \in Tasks /\ status[holds[w]] = "running"
  /\ \A w, v \in Holders : holds[w] = holds[v] => w = v
  /\ \A t \in Tasks : status[t] = "running" => \E w \in Holders : holds[w] = t

(* Who leaves does so after the destructor was called, with nothing left.  *)
LeavingInOrder ==
  /\ \A w \in Workers : worker[w] = "gone" => stop /\ tasks = <<>>
  /\ caller[Owner] \in {"closing", "joining", "gone"} => stop
  /\ caller[Owner] = "gone" => \A w \in Workers : worker[w] = "gone"

DueAccepted == \A c \in Callers : \A t \in due[c] : status[t] # "new"

PoolInv ==
  /\ PoolTypeOK
  /\ ActiveExact
  /\ QueueExact
  /\ HoldsExact
  /\ LeavingInOrder
  /\ DueAccepted
  /\ QueuedWorkIsSeen
  /\ WaitersAreSeen

PoolStates == {"loop", "asleep", "running", "notifying", "counting", "gone"}
CallerStates ==
  {"free", "notify", "futures", "check", "asleep", "closing", "joining", "gone"}

LEMMA InitInv == PoolInit => PoolInv
<1> SUFFICES ASSUME PoolInit PROVE PoolInv
  OBVIOUS
<1>1. Busy = {} /\ Holders = {}
  BY DEF PoolInit, Busy, Holders
<1>2. PoolTypeOK
  <2>1. tasks \in Seq(Tasks)
    BY DEF PoolInit
  <2>2. due \in [Callers -> SUBSET Tasks]
    BY DEF PoolInit
  <2> QED
    BY <2>1, <2>2 DEF PoolInit, PoolTypeOK
<1>3. ActiveExact
  BY <1>1, FS_EmptySet DEF PoolInit, ActiveExact
<1>4. QueueExact
  BY NoItems DEF PoolInit, QueueExact
<1>5. HoldsExact
  BY <1>1 DEF PoolInit, HoldsExact
<1>6. LeavingInOrder
  BY PoolAssumption DEF PoolInit, LeavingInOrder
<1>7. DueAccepted /\ QueuedWorkIsSeen /\ WaitersAreSeen
  BY DEF PoolInit, DueAccepted, QueuedWorkIsSeen, WaitersAreSeen
<1> QED
  BY <1>2, <1>3, <1>4, <1>5, <1>6, <1>7 DEF PoolInv

(* What notify_one() does: it moves sleepers only, and it moves one if     *)
(* there is one.                                                           *)
LEMMA WakesSleepers ==
  ASSUME PoolTypeOK,
         NEW states \in [Workers -> PoolStates],
         \A w \in Asleep : states[w] = "asleep",
         NEW new \in WakesOne(states)
  PROVE  /\ new \in [Workers -> PoolStates]
         /\ \A w \in Workers : new[w] = states[w] \/ (w \in Asleep /\ new[w] = "loop")
         /\ Asleep # {} => \E w \in Workers : new[w] = "loop"
<1>1. CASE Asleep = {}
  BY <1>1 DEF WakesOne
<1>2. CASE Asleep # {}
  <2>1. PICK v \in Asleep : new = [states EXCEPT ![v] = "loop"]
    BY <1>2 DEF WakesOne
  <2> QED
    BY <2>1 DEF Asleep, PoolStates
<1> QED
  BY <1>1, <1>2

(* A step of a caller that touches no task and no worker.                  *)
LEMMA CallerMoves ==
  ASSUME PoolInv, UNCHANGED <<tasks, active, status, worker, holds>>
  PROVE  ActiveExact' /\ QueueExact' /\ HoldsExact'
BY DEF PoolInv, ActiveExact, QueueExact, HoldsExact, Busy, Holders

(* A step of workers that fall asleep, wake up, leave or notify.           *)
LEMMA WorkerMoves ==
  ASSUME PoolInv, UNCHANGED <<tasks, active, status, holds>>,
         \A w \in Workers : (worker'[w] \in {"running", "notifying"}) <=> (worker[w] \in {"running", "notifying"}),
         \A w \in Workers : worker'[w] = "counting" <=> worker[w] = "counting"
  PROVE  ActiveExact' /\ QueueExact' /\ HoldsExact'
<1>1. Holders' = Holders
  BY DEF Holders
<1>2. Busy' = Busy
  BY DEF Busy
<1> QED
  BY <1>1, <1>2 DEF PoolInv, ActiveExact, QueueExact, HoldsExact

-----------------------------------------------------------------------------
(* The calls that change neither the queue nor a worker.                   *)
LEMMA CallsKeepInv ==
  ASSUME PoolInv, NEW c \in Callers,
         AwaitFutures(c) \/ FuturesReady(c) \/ WaitAll(c) \/ CheckIdle(c) \/ CallerWakesUp(c)
  PROVE  PoolInv'
<1>1. UNCHANGED <<tasks, active, stop, status, worker, holds>>
  BY DEF AwaitFutures, FuturesReady, WaitAll, CheckIdle, CallerWakesUp
<1>2. PICK x \in {"free", "futures", "check", "asleep"} :
        /\ caller' = [caller EXCEPT ![c] = x]
        /\ x = "asleep" => ~Idle
  BY DEF AwaitFutures, FuturesReady, WaitAll, CheckIdle, CallerWakesUp
<1>3. caller[c] \in {"free", "futures", "check", "asleep"}
  BY DEF AwaitFutures, FuturesReady, WaitAll, CheckIdle, CallerWakesUp, MayCall
<1>4. /\ due' \in [Callers -> SUBSET Tasks]
      /\ DueAccepted'
  <2>1. due' = due \/ WaitAll(c)
    BY DEF AwaitFutures, FuturesReady, CheckIdle, CallerWakesUp
  <2> QED
    BY <1>1, <2>1 DEF WaitAll, PoolInv, PoolTypeOK, DueAccepted
<1>5. PoolTypeOK'
  BY <1>1, <1>2, <1>4 DEF PoolInv, PoolTypeOK
<1>6. ActiveExact' /\ QueueExact' /\ HoldsExact'
  BY <1>1, CallerMoves
<1>7. LeavingInOrder'
  BY <1>1, <1>2, <1>3 DEF PoolInv, PoolTypeOK, LeavingInOrder
<1>8. QueuedWorkIsSeen'
  BY <1>1, <1>2, <1>3 DEF PoolInv, PoolTypeOK, QueuedWorkIsSeen
<1>9. WaitersAreSeen'
  BY <1>1, <1>2 DEF PoolInv, PoolTypeOK, WaitersAreSeen, Idle
<1> QED
  BY <1>4, <1>5, <1>6, <1>7, <1>8, <1>9 DEF PoolInv

(* A task joins the queue: from a caller, or from the task a worker runs.  *)
LEMMA PushKeepsQueue ==
  ASSUME PoolInv, NEW t \in Tasks, Push(t)
  PROVE  /\ tasks' \in Seq(Tasks) /\ tasks' # <<>>
         /\ status' \in [Tasks -> {"new", "queued", "running", "done"}]
         /\ \A u \in Tasks : u # t => status'[u] = status[u]
         /\ status[t] = "new" /\ status'[t] = "queued"
         /\ QueueExact'
<1>1. tasks \in Seq(Tasks) /\ status \in [Tasks -> {"new", "queued", "running", "done"}]
  BY DEF PoolInv, PoolTypeOK
<1>2. tasks' = tasks \o <<t>> /\ <<t>> \in Seq(Tasks)
  BY <1>1 DEF Push
<1>3. Items(<<t>>) = {t} /\ Injective(<<t>>)
  BY OneItem
<1>4. t \notin Items(tasks)
  BY DEF PoolInv, QueueExact, Push
<1>5. /\ tasks' \in Seq(Tasks)
      /\ Items(tasks') = Items(tasks) \cup {t}
      /\ Injective(tasks')
  <2>1. Injective(tasks) /\ Items(tasks) \cap Items(<<t>>) = {}
    BY <1>3, <1>4 DEF PoolInv, QueueExact
  <2>2. ASSUME NEW u \in Seq(Tasks), Injective(u), Items(tasks) \cap Items(u) = {}
        PROVE  /\ tasks \o u \in Seq(Tasks)
               /\ Items(tasks \o u) = Items(tasks) \cup Items(u)
               /\ Injective(tasks \o u)
    BY <1>1, <2>1, <2>2, JoinItems
  <2> QED
    BY <1>2, <1>3, <2>1, <2>2
<1>6. tasks' # <<>>
  BY <1>5, NoItems
<1> QED
  BY <1>1, <1>5, <1>6 DEF Push, PoolInv, QueueExact

LEMMA ScheduleKeepsInv ==
  ASSUME PoolInv, NEW c \in Callers, NEW t \in Tasks, Schedule(c, t)
  PROVE  PoolInv'
<1>1. /\ UNCHANGED <<active, stop, worker, holds, due>>
      /\ caller[c] = "free" /\ ~stop
      /\ caller' = [caller EXCEPT ![c] = "notify"]
      /\ Push(t)
  BY DEF Schedule, MayCall
<1>2. /\ tasks' \in Seq(Tasks) /\ tasks' # <<>>
      /\ status' \in [Tasks -> {"new", "queued", "running", "done"}]
      /\ \A u \in Tasks : u # t => status'[u] = status[u]
      /\ status[t] = "new" /\ status'[t] = "queued"
      /\ QueueExact'
  BY <1>1, PushKeepsQueue
<1>3. PoolTypeOK'
  BY <1>1, <1>2 DEF PoolInv, PoolTypeOK
<1>4. ActiveExact'
  BY <1>1 DEF PoolInv, ActiveExact, Busy
<1>5. HoldsExact'
  BY <1>1, <1>2 DEF PoolInv, HoldsExact, Holders
<1>6. LeavingInOrder'
  BY <1>1 DEF PoolInv, PoolTypeOK, LeavingInOrder
<1>7. DueAccepted'
  BY <1>1, <1>2 DEF PoolInv, PoolTypeOK, DueAccepted
<1>8. QueuedWorkIsSeen' /\ WaitersAreSeen'
  BY <1>1, <1>2 DEF PoolInv, PoolTypeOK, QueuedWorkIsSeen, WaitersAreSeen
<1> QED
  BY <1>2, <1>3, <1>4, <1>5, <1>6, <1>7, <1>8 DEF PoolInv

LEMMA SpawnKeepsInv ==
  ASSUME PoolInv, NEW w \in Workers, Spawn(w)
  PROVE  PoolInv'
<1>1. PICK t \in Tasks : Push(t)
  <2>1. w \in Holders
    BY DEF Spawn, Holders
  <2>2. Spawns[holds[w]] \subseteq Tasks
    BY <2>1, PoolAssumption DEF PoolInv, HoldsExact
  <2> QED
    BY <2>2 DEF Spawn, Unsubmitted
<1>2. /\ UNCHANGED <<active, stop, holds, caller, due>>
      /\ ~stop
      /\ worker[w] = "running"
      /\ worker' = [worker EXCEPT ![w] = "notifying"]
  BY DEF Spawn
<1>3. /\ tasks' \in Seq(Tasks) /\ tasks' # <<>>
      /\ status' \in [Tasks -> {"new", "queued", "running", "done"}]
      /\ \A u \in Tasks : u # t => status'[u] = status[u]
      /\ status[t] = "new" /\ status'[t] = "queued"
      /\ QueueExact'
  BY <1>1, PushKeepsQueue
<1>4. Holders' = Holders /\ Busy' = Busy
  BY <1>2 DEF PoolInv, PoolTypeOK, Holders, Busy
<1>5. PoolTypeOK'
  BY <1>2, <1>3 DEF PoolInv, PoolTypeOK
<1>6. ActiveExact'
  BY <1>2, <1>4 DEF PoolInv, ActiveExact
<1>7. HoldsExact'
  BY <1>2, <1>3, <1>4 DEF PoolInv, HoldsExact
<1>8. LeavingInOrder'
  BY <1>2 DEF PoolInv, PoolTypeOK, LeavingInOrder
<1>9. DueAccepted'
  BY <1>2, <1>3 DEF PoolInv, PoolTypeOK, DueAccepted
<1>10. QueuedWorkIsSeen' /\ WaitersAreSeen'
  BY <1>2, <1>3 DEF PoolInv, PoolTypeOK, QueuedWorkIsSeen, WaitersAreSeen
<1> QED
  BY <1>3, <1>5, <1>6, <1>7, <1>8, <1>9, <1>10 DEF PoolInv

(* notify_one() finds somebody: if all workers sleep one of them wakes up, *)
(* and none has left while a task is queued.                               *)
LEMMA NotifyKeepsInv ==
  ASSUME PoolInv, NEW c \in Callers, NotifyOne(c)
  PROVE  PoolInv'
<1>1. /\ UNCHANGED <<tasks, active, stop, status, holds, due>>
      /\ caller[c] = "notify"
      /\ caller' = [caller EXCEPT ![c] = "free"]
      /\ worker' \in WakesOne(worker)
  BY DEF NotifyOne
<1>2. /\ worker' \in [Workers -> PoolStates]
      /\ \A w \in Workers : worker'[w] = worker[w] \/ (w \in Asleep /\ worker'[w] = "loop")
      /\ Asleep # {} => \E w \in Workers : worker'[w] = "loop"
  <2>1. worker \in [Workers -> PoolStates] /\ \A w \in Asleep : worker[w] = "asleep"
    BY DEF PoolInv, PoolTypeOK, PoolStates, Asleep
  <2> QED
    BY <1>1, <2>1, WakesSleepers DEF PoolInv
<1>3. PoolTypeOK'
  BY <1>1, <1>2 DEF PoolInv, PoolTypeOK, PoolStates
<1>4. ActiveExact' /\ QueueExact' /\ HoldsExact'
  <2>1. \A w \in Workers : worker'[w] = worker[w] \/ (worker[w] = "asleep" /\ worker'[w] = "loop")
    BY <1>2 DEF Asleep
  <2> QED
    BY <1>1, <2>1, WorkerMoves
<1>5. LeavingInOrder'
  BY <1>1, <1>2 DEF PoolInv, PoolTypeOK, LeavingInOrder, Asleep
<1>6. DueAccepted' /\ WaitersAreSeen'
  BY <1>1 DEF PoolInv, PoolTypeOK, DueAccepted, WaitersAreSeen
<1>7. QueuedWorkIsSeen'
  <2>1. SUFFICES ASSUME tasks # <<>>
                 PROVE  \E w \in Workers : worker'[w] \in {"loop", "running", "notifying", "counting"}
    BY <1>1 DEF QueuedWorkIsSeen
  <2>2. CASE Asleep # {}
    BY <1>2, <2>2
  <2>3. CASE Asleep = {}
    <3>1. PICK w \in Workers : TRUE
      BY PoolAssumption
    <3>2. worker[w] # "gone" /\ worker[w] # "asleep"
      BY <2>1, <2>3 DEF PoolInv, LeavingInOrder, Asleep
    <3>3. worker[w] \in {"loop", "running", "notifying", "counting"}
      BY <3>2 DEF PoolInv, PoolTypeOK
    <3> QED
      BY <1>2, <2>3, <3>3
  <2> QED
    BY <2>2, <2>3
<1> QED
  BY <1>3, <1>4, <1>5, <1>6, <1>7 DEF PoolInv

LEMMA NotifySpawnedKeepsInv ==
  ASSUME PoolInv, NEW w \in Workers, NotifySpawned(w)
  PROVE  PoolInv'
<1> DEFINE states == [worker EXCEPT ![w] = "running"]
<1>1. /\ UNCHANGED <<tasks, active, stop, status, holds, caller, due>>
      /\ worker[w] = "notifying"
      /\ worker' \in WakesOne(states)
  BY DEF NotifySpawned
<1>2. /\ worker' \in [Workers -> PoolStates]
      /\ \A v \in Workers : worker'[v] = states[v] \/ (v \in Asleep /\ worker'[v] = "loop")
  <2>1. states \in [Workers -> PoolStates] /\ \A v \in Asleep : states[v] = "asleep"
    BY <1>1 DEF PoolInv, PoolTypeOK, PoolStates, Asleep
  <2> HIDE DEF states
  <2> QED
    BY <1>1, <2>1, WakesSleepers DEF PoolInv
<1>3. \A v \in Workers :
        \/ worker'[v] = worker[v]
        \/ worker[v] = "asleep" /\ worker'[v] = "loop"
        \/ v = w /\ worker'[v] = "running"
  BY <1>1, <1>2 DEF Asleep, PoolInv, PoolTypeOK
<1>4. worker'[w] = "running"
  BY <1>1, <1>2 DEF Asleep, PoolInv, PoolTypeOK
<1>5. PoolTypeOK'
  BY <1>1, <1>2 DEF PoolInv, PoolTypeOK, PoolStates
<1>6. ActiveExact' /\ QueueExact' /\ HoldsExact'
  BY <1>1, <1>3, <1>4, WorkerMoves
<1>7. LeavingInOrder'
  BY <1>1, <1>3 DEF PoolInv, LeavingInOrder
<1>8. DueAccepted' /\ WaitersAreSeen'
  BY <1>1 DEF PoolInv, DueAccepted, WaitersAreSeen
<1>9. QueuedWorkIsSeen'
  BY <1>4 DEF QueuedWorkIsSeen
<1> QED
  BY <1>5, <1>6, <1>7, <1>8, <1>9 DEF PoolInv

-----------------------------------------------------------------------------
LEMMA DestroyKeepsInv ==
  ASSUME PoolInv, Destroy
  PROVE  PoolInv'
<1>1. /\ UNCHANGED <<tasks, active, status, worker, holds, due>>
      /\ \A c \in Callers : caller[c] = "free"
      /\ stop' = TRUE
      /\ caller' = [caller EXCEPT ![Owner] = "closing"]
  BY DEF Destroy
<1>2. PoolTypeOK'
  BY <1>1 DEF PoolInv, PoolTypeOK
<1>3. ActiveExact' /\ QueueExact' /\ HoldsExact'
  BY <1>1, CallerMoves
<1>4. LeavingInOrder'
  BY <1>1, PoolAssumption DEF PoolInv, PoolTypeOK, LeavingInOrder
<1>5. DueAccepted' /\ WaitersAreSeen' /\ QueuedWorkIsSeen'
  BY <1>1 DEF PoolInv, PoolTypeOK, DueAccepted, WaitersAreSeen, QueuedWorkIsSeen
<1> QED
  BY <1>2, <1>3, <1>4, <1>5 DEF PoolInv

LEMMA NotifyWorkersKeepsInv ==
  ASSUME PoolInv, NotifyWorkers
  PROVE  PoolInv'
<1>1. /\ UNCHANGED <<tasks, active, stop, status, holds, due>>
      /\ caller[Owner] = "closing"
      /\ caller' = [caller EXCEPT ![Owner] = "joining"]
      /\ worker' = [w \in Workers |-> IF w \in Asleep THEN "loop" ELSE worker[w]]
  BY DEF NotifyWorkers
<1>2. PoolTypeOK'
  BY <1>1 DEF PoolInv, PoolTypeOK
<1>3. ActiveExact' /\ QueueExact' /\ HoldsExact'
  <2>1. \A w \in Workers : worker'[w] = worker[w] \/ (worker[w] = "asleep" /\ worker'[w] = "loop")
    BY <1>1 DEF Asleep
  <2> QED
    BY <1>1, <2>1, WorkerMoves
<1>4. LeavingInOrder'
  BY <1>1, PoolAssumption DEF PoolInv, PoolTypeOK, LeavingInOrder
<1>5. DueAccepted' /\ WaitersAreSeen'
  BY <1>1 DEF PoolInv, PoolTypeOK, DueAccepted, WaitersAreSeen
<1>6. QueuedWorkIsSeen'
  BY <1>1 DEF PoolInv, PoolTypeOK, QueuedWorkIsSeen, Asleep
<1> QED
  BY <1>2, <1>3, <1>4, <1>5, <1>6 DEF PoolInv

LEMMA JoinedKeepsInv ==
  ASSUME PoolInv, Joined
  PROVE  PoolInv'
<1>1. /\ UNCHANGED <<tasks, active, stop, status, worker, holds, due>>
      /\ caller[Owner] = "joining"
      /\ \A w \in Workers : worker[w] = "gone"
      /\ caller' = [caller EXCEPT ![Owner] = "gone"]
  BY DEF Joined
<1>2. PoolTypeOK'
  BY <1>1 DEF PoolInv, PoolTypeOK
<1>3. ActiveExact' /\ QueueExact' /\ HoldsExact'
  BY <1>1, CallerMoves
<1>4. LeavingInOrder'
  BY <1>1, PoolAssumption DEF PoolInv, PoolTypeOK, LeavingInOrder
<1>5. DueAccepted' /\ WaitersAreSeen' /\ QueuedWorkIsSeen'
  BY <1>1 DEF PoolInv, PoolTypeOK, DueAccepted, WaitersAreSeen, QueuedWorkIsSeen
<1> QED
  BY <1>2, <1>3, <1>4, <1>5 DEF PoolInv

(* A worker without a task sleeps, wakes up without a reason, or leaves.   *)
LEMMA IdleWorkerKeepsInv ==
  ASSUME PoolInv, NEW w \in Workers, FallAsleep(w) \/ WakeUp(w) \/ Leave(w)
  PROVE  PoolInv'
<1>1. /\ UNCHANGED <<tasks, active, stop, status, holds, caller, due>>
      /\ worker[w] \in {"loop", "asleep"}
      /\ worker' = [worker EXCEPT ![w] = worker'[w]]
      /\ \/ worker'[w] = "loop"
         \/ worker'[w] = "asleep" /\ tasks = <<>>
         \/ worker'[w] = "gone" /\ tasks = <<>> /\ stop
  BY DEF FallAsleep, WakeUp, Leave, MayLeave, PoolInv, PoolTypeOK
<1>2. PoolTypeOK'
  BY <1>1 DEF PoolInv, PoolTypeOK
<1>3. ActiveExact' /\ QueueExact' /\ HoldsExact'
  <2>1. \A v \in Workers :
          \/ worker'[v] = worker[v]
          \/ worker[v] \in {"loop", "asleep"} /\ worker'[v] \in {"loop", "asleep", "gone"}
    BY <1>1 DEF PoolInv, PoolTypeOK
  <2> QED
    BY <1>1, <2>1, WorkerMoves
<1>4. LeavingInOrder'
  BY <1>1 DEF PoolInv, PoolTypeOK, LeavingInOrder
<1>5. DueAccepted' /\ WaitersAreSeen' /\ QueuedWorkIsSeen'
  BY <1>1 DEF PoolInv, PoolTypeOK, DueAccepted, WaitersAreSeen, QueuedWorkIsSeen
<1> QED
  BY <1>2, <1>3, <1>4, <1>5 DEF PoolInv

(* The front leaves the queue, which holds it no more.                     *)
LEMMA PopFront ==
  ASSUME NEW S, NEW s \in Seq(S), s # <<>>, Injective(s)
  PROVE  /\ Head(s) \in S
         /\ Tail(s) \in Seq(S)
         /\ Injective(Tail(s))
         /\ Items(s) = Items(Tail(s)) \cup {Head(s)}
         /\ Head(s) \notin Items(Tail(s))
<1> DEFINE t == Tail(s)
<1>1. /\ Len(s) \in Nat \ {0} /\ DOMAIN s = 1..Len(s)
      /\ \A i \in 1..Len(s) : s[i] \in S
  BY EmptySeq, LenProperties
<1>2. /\ t \in Seq(S) /\ Head(s) = s[1]
      /\ DOMAIN t = 1..(Len(s) - 1)
      /\ \A i \in 1..(Len(s) - 1) : t[i] = s[i + 1]
  BY <1>1, HeadTailProperties
<1> HIDE DEF t
<1>3. Injective(t)
  <2>1. ASSUME NEW i \in 1..(Len(s) - 1), NEW j \in 1..(Len(s) - 1), t[i] = t[j]
        PROVE  i = j
    <3>1. i + 1 \in DOMAIN s /\ j + 1 \in DOMAIN s /\ s[i + 1] = s[j + 1]
      BY <1>1, <1>2, <2>1
    <3>2. i + 1 = j + 1
      BY <3>1 DEF Injective
    <3> QED
      BY <1>1, <3>2
  <2> QED
    BY <1>2, <2>1 DEF Injective
<1>4. Head(s) \notin Items(t)
  BY <1>1, <1>2 DEF Injective, Items
<1>5. \A x : x \in Items(s) <=> x \in Items(t) \cup {Head(s)}
  <2>1. ASSUME NEW i \in 1..Len(s) PROVE s[i] \in Items(t) \cup {Head(s)}
    <3>1. CASE i = 1
      BY <1>2, <3>1
    <3>2. CASE i # 1
      <4>1. i - 1 \in 1..(Len(s) - 1) /\ t[i - 1] = s[i]
        BY <1>1, <1>2, <3>2
      <4> QED
        BY <1>2, <4>1 DEF Items
    <3> QED
      BY <3>1, <3>2
  <2>2. ASSUME NEW i \in 1..(Len(s) - 1) PROVE t[i] \in Items(s)
    BY <1>1, <1>2 DEF Items
  <2>3. Head(s) \in Items(s)
    BY <1>1, <1>2 DEF Items
  <2> QED
    BY <1>1, <1>2, <2>1, <2>2, <2>3 DEF Items
<1> QED
  BY <1>1, <1>2, <1>3, <1>4, <1>5 DEF t

LEMMA BusyIsFinite == IsFiniteSet(Busy) /\ Cardinality(Busy) \in Nat
<1>1. IsFiniteSet(Busy)
  BY PoolAssumption, FS_Subset DEF Busy
<1> QED
  BY <1>1, FS_CardinalityType

LEMMA TakeKeepsInv ==
  ASSUME PoolInv, NEW w \in Workers, Take(w)
  PROVE  PoolInv'
<1> DEFINE t == Head(tasks)
<1>1. /\ UNCHANGED <<stop, caller, due>>
      /\ worker[w] = "loop" /\ tasks # <<>>
      /\ tasks' = Tail(tasks)
      /\ active' = active + 1
      /\ status' = [status EXCEPT ![t] = "running"]
      /\ holds' = [holds EXCEPT ![w] = t]
      /\ worker' = [worker EXCEPT ![w] = "running"]
  BY DEF Take
<1>2. /\ t \in Tasks
      /\ Tail(tasks) \in Seq(Tasks)
      /\ Injective(Tail(tasks))
      /\ Items(tasks) = Items(Tail(tasks)) \cup {t}
      /\ t \notin Items(Tail(tasks))
  <2>1. tasks \in Seq(Tasks) /\ tasks # <<>> /\ Injective(tasks)
    BY <1>1 DEF PoolInv, PoolTypeOK, QueueExact
  <2> QED
    BY <2>1, PopFront
<1>3. status[t] = "queued"
  BY <1>2 DEF PoolInv, QueueExact
<1> HIDE DEF t
<1>4. PoolTypeOK'
  BY <1>1, <1>2 DEF PoolInv, PoolTypeOK
<1>5. ActiveExact'
  <2>1. Busy' = Busy \cup {w} /\ w \notin Busy
    BY <1>1 DEF Busy, PoolInv, PoolTypeOK
  <2>2. Cardinality(Busy \cup {w}) = Cardinality(Busy) + 1
    BY <2>1, BusyIsFinite, FS_AddElement
  <2> QED
    BY <1>1, <2>1, <2>2 DEF PoolInv, ActiveExact
<1>6. QueueExact'
  BY <1>1, <1>2, <1>3 DEF PoolInv, PoolTypeOK, QueueExact
<1>7. HoldsExact'
  <2>1. Holders' = Holders \cup {w} /\ w \notin Holders
    BY <1>1 DEF Holders, PoolInv, PoolTypeOK
  <2>2. \A v \in Holders : holds'[v] = holds[v] /\ holds[v] # t
    BY <1>1, <1>3, <2>1 DEF Holders, PoolInv, PoolTypeOK, HoldsExact
  <2>3. holds'[w] = t
    BY <1>1 DEF PoolInv, PoolTypeOK
  <2>4. status'[t] = "running" /\ \A u \in Tasks : u # t => status'[u] = status[u]
    BY <1>1, <1>2 DEF PoolInv, PoolTypeOK
  <2> QED
    BY <1>2, <2>1, <2>2, <2>3, <2>4 DEF PoolInv, HoldsExact
<1>8. LeavingInOrder'
  BY <1>1 DEF PoolInv, PoolTypeOK, LeavingInOrder
<1>9. DueAccepted'
  BY <1>1, <1>2 DEF PoolInv, PoolTypeOK, DueAccepted
<1>10. QueuedWorkIsSeen' /\ WaitersAreSeen'
  BY <1>1 DEF PoolInv, PoolTypeOK, QueuedWorkIsSeen, WaitersAreSeen
<1> QED
  BY <1>4, <1>5, <1>6, <1>7, <1>8, <1>9, <1>10 DEF PoolInv

LEMMA ReturnKeepsInv ==
  ASSUME PoolInv, NEW w \in Workers, Return(w)
  PROVE  PoolInv'
<1> DEFINE t == holds[w]
<1>1. /\ UNCHANGED <<tasks, active, stop, caller, due>>
      /\ worker[w] = "running"
      /\ status' = [status EXCEPT ![t] = "done"]
      /\ holds' = [holds EXCEPT ![w] = NoTask]
      /\ worker' = [worker EXCEPT ![w] = "counting"]
  BY DEF Return
<1>2. w \in Holders /\ t \in Tasks /\ status[t] = "running"
  BY <1>1 DEF Holders, PoolInv, HoldsExact
<1> HIDE DEF t
<1>3. PoolTypeOK'
  BY <1>1, <1>2 DEF PoolInv, PoolTypeOK
<1>4. ActiveExact'
  <2>1. Busy' = Busy
    BY <1>1 DEF Busy, PoolInv, PoolTypeOK
  <2> QED
    BY <1>1, <2>1 DEF PoolInv, ActiveExact
<1>5. QueueExact'
  BY <1>1, <1>2 DEF PoolInv, PoolTypeOK, QueueExact
<1>6. HoldsExact'
  <2>1. Holders' = Holders \ {w}
    BY <1>1 DEF Holders, PoolInv, PoolTypeOK
  <2>2. \A v \in Holders \ {w} : holds'[v] = holds[v] /\ holds[v] # t
    BY <1>1, <1>2 DEF t, Holders, PoolInv, PoolTypeOK, HoldsExact
  <2>3. status'[t] = "done" /\ \A u \in Tasks : u # t => status'[u] = status[u]
    BY <1>1, <1>2 DEF PoolInv, PoolTypeOK
  <2>4. \A v \in Holders \ {w} : holds[v] \in Tasks /\ status'[holds[v]] = "running"
    BY <2>2, <2>3 DEF PoolInv, HoldsExact
  <2>5. ASSUME NEW u \in Tasks, status'[u] = "running"
        PROVE  \E v \in Holders \ {w} : holds[v] = u
    BY <1>2, <2>3, <2>5 DEF t, PoolInv, HoldsExact
  <2> QED
    BY <2>1, <2>2, <2>4, <2>5 DEF PoolInv, HoldsExact
<1>7. LeavingInOrder'
  BY <1>1 DEF PoolInv, PoolTypeOK, LeavingInOrder
<1>8. DueAccepted'
  BY <1>1, <1>2 DEF PoolInv, PoolTypeOK, DueAccepted
<1>9. QueuedWorkIsSeen' /\ WaitersAreSeen'
  BY <1>1 DEF PoolInv, PoolTypeOK, QueuedWorkIsSeen, WaitersAreSeen
<1> QED
  BY <1>3, <1>4, <1>5, <1>6, <1>7, <1>8, <1>9 DEF PoolInv

LEMMA CountKeepsInv ==
  ASSUME PoolInv, NEW w \in Workers, Count(w)
  PROVE  PoolInv'
<1>1. /\ UNCHANGED <<tasks, stop, status, holds, due>>
      /\ worker[w] = "counting"
      /\ active' = active - 1
      /\ caller' = [c \in Callers |-> IF caller[c] = "asleep" THEN "check" ELSE caller[c]]
      /\ worker' = [worker EXCEPT ![w] = "loop"]
  BY DEF Count
<1>2. /\ ActiveExact' /\ active' \in Nat
  <2>1. w \in Busy /\ Busy' = Busy \ {w}
    BY <1>1 DEF Busy, PoolInv, PoolTypeOK
  <2>2. /\ Cardinality(Busy \ {w}) = Cardinality(Busy) - 1
        /\ Cardinality(Busy \ {w}) \in Nat
    BY <2>1, BusyIsFinite, FS_RemoveElement, FS_CardinalityType
  <2> QED
    BY <1>1, <2>1, <2>2 DEF PoolInv, ActiveExact
<1>3. PoolTypeOK'
  BY <1>1, <1>2 DEF PoolInv, PoolTypeOK
<1>4. QueueExact'
  BY <1>1 DEF PoolInv, QueueExact
<1>5. HoldsExact'
  <2>1. Holders' = Holders
    BY <1>1 DEF Holders, PoolInv, PoolTypeOK
  <2> QED
    BY <1>1, <2>1 DEF PoolInv, HoldsExact
<1>6. LeavingInOrder'
  BY <1>1, PoolAssumption DEF PoolInv, PoolTypeOK, LeavingInOrder
<1>7. DueAccepted' /\ QueuedWorkIsSeen' /\ WaitersAreSeen'
  BY <1>1 DEF PoolInv, PoolTypeOK, DueAccepted, QueuedWorkIsSeen, WaitersAreSeen
<1> QED
  BY <1>2, <1>3, <1>4, <1>5, <1>6, <1>7 DEF PoolInv

LEMMA StutterKeepsInv ==
  ASSUME PoolInv, UNCHANGED vars
  PROVE  PoolInv'
BY DEF PoolInv, PoolTypeOK, ActiveExact, QueueExact, HoldsExact, LeavingInOrder, DueAccepted,
       QueuedWorkIsSeen, WaitersAreSeen, Busy, Holders, vars

LEMMA PoolInvariant == PoolSpec => []PoolInv
<1>1. PoolInv /\ [PoolNext]_vars => PoolInv'
  <2> SUFFICES ASSUME PoolInv, [PoolNext]_vars
               PROVE  PoolInv'
    OBVIOUS
  <2>1. ASSUME NEW w \in Workers, WorkerStep(w) \/ WakeUp(w)
        PROVE  PoolInv'
    BY <2>1, TakeKeepsInv, IdleWorkerKeepsInv, SpawnKeepsInv, NotifySpawnedKeepsInv,
       ReturnKeepsInv, CountKeepsInv DEF WorkerStep
  <2>2. ASSUME NEW c \in Callers,
               CallerStep(c) \/ AwaitFutures(c) \/ WaitAll(c) \/ CallerWakesUp(c)
        PROVE  PoolInv'
    BY <2>2, NotifyKeepsInv, CallsKeepInv DEF CallerStep
  <2>3. ASSUME NEW c \in Callers, NEW t \in Tasks, Schedule(c, t)
        PROVE  PoolInv'
    BY <2>3, ScheduleKeepsInv
  <2>4. CASE Destroy
    BY <2>4, DestroyKeepsInv
  <2>5. CASE OwnerStep
    BY <2>5, NotifyWorkersKeepsInv, JoinedKeepsInv DEF OwnerStep
  <2>6. CASE UNCHANGED vars
    BY <2>6, StutterKeepsInv
  <2> QED
    BY <2>1, <2>2, <2>3, <2>4, <2>5, <2>6 DEF PoolNext
<1> QED
  BY <1>1, InitInv, PTL DEF PoolSpec

-----------------------------------------------------------------------------
(* The members and the threads keep their types: active_tasks_ is never    *)
(* driven below zero.                                                      *)
THEOREM PoolTypeCorrect == PoolSpec => []PoolTypeOK
<1>1. PoolInv => PoolTypeOK
  BY DEF PoolInv
<1> QED
  BY <1>1, PoolInvariant, PTL

(* No wake-up is lost: whenever a task is queued a worker is awake or is   *)
(* about to be notified, although schedule_task, and a task that submits   *)
(* another, notify after they have unlocked; and nobody sleeps on in       *)
(* wait_all when the last task has been counted out.                       *)
THEOREM NoWakeUpIsLost == PoolSpec => []SleepersAreSeen
<1>1. PoolInv => SleepersAreSeen
  BY DEF PoolInv, SleepersAreSeen
<1> QED
  BY <1>1, PoolInvariant, PTL

(* The predicate of wait_all means what it is read to mean.                *)
LEMMA IdleMeansNothingLeft ==
  ASSUME PoolInv, Idle
  PROVE  \A t \in Tasks : status[t] \in {"new", "done"}
<1>1. Holders = {}
  <2>1. Busy = {}
    BY BusyIsFinite, FS_EmptySet DEF PoolInv, ActiveExact, Idle
  <2> QED
    BY <2>1 DEF Busy, Holders
<1>2. \A t \in Tasks : status[t] # "queued"
  BY NoItems DEF PoolInv, QueueExact, Idle
<1>3. \A t \in Tasks : status[t] # "running"
  BY <1>1 DEF PoolInv, HoldsExact
<1> QED
  BY <1>2, <1>3 DEF PoolInv, PoolTypeOK

(* wait_all is a barrier: when it returns, every task accepted before the  *)
(* call has run, and nothing is queued or running.                         *)
THEOREM WaitAllIsABarrier == PoolSpec => WaitAllMeansDone
<1> DEFINE Barrier(c) ==
      caller[c] = "check" /\ caller'[c] = "free" =>
        /\ \A t \in due[c] : status[t] = "done"
        /\ \A t \in Tasks : status[t] \notin {"queued", "running"}
<1>1. ASSUME PoolInv, [PoolNext]_vars, NEW c \in Callers
      PROVE  Barrier(c)
  <2>1. SUFFICES ASSUME caller[c] = "check", caller'[c] = "free"
                 PROVE  /\ \A t \in due[c] : status[t] = "done"
                        /\ \A t \in Tasks : status[t] \notin {"queued", "running"}
    OBVIOUS
  <2>2. caller \in [Callers -> CallerStates] /\ caller' # caller
    BY <1>1, <2>1 DEF PoolInv, PoolTypeOK, CallerStates
  <2>3. ~Destroy /\ ~OwnerStep
    BY <1>1, <2>1, <2>2, PoolAssumption DEF Destroy, OwnerStep, NotifyWorkers, Joined
  <2>4. ASSUME NEW w \in Workers, WorkerStep(w) \/ WakeUp(w)
        PROVE  FALSE
    BY <1>1, <2>1, <2>2, <2>4
       DEF WorkerStep, WakeUp, Take, FallAsleep, Leave, Spawn, NotifySpawned, Return, Count
  <2>5. ASSUME NEW d \in Callers,
               NotifyOne(d) \/ FuturesReady(d) \/ AwaitFutures(d) \/ WaitAll(d) \/ CallerWakesUp(d)
        PROVE  FALSE
    BY <1>1, <2>1, <2>2, <2>5
       DEF NotifyOne, FuturesReady, AwaitFutures, WaitAll, CallerWakesUp, MayCall
  <2>6. ASSUME NEW d \in Callers, NEW t \in Tasks, Schedule(d, t)
        PROVE  FALSE
    BY <1>1, <2>1, <2>2, <2>6 DEF Schedule, MayCall
  <2>7. PICK d \in Callers : CheckIdle(d)
    BY <1>1, <2>2, <2>3, <2>4, <2>5, <2>6 DEF PoolNext, CallerStep, vars
  <2>8. Idle
    BY <2>1, <2>2, <2>7 DEF CheckIdle
  <2>9. \A t \in Tasks : status[t] \in {"new", "done"}
    BY <1>1, <2>8, IdleMeansNothingLeft
  <2>10. \A t \in due[c] : t \in Tasks /\ status[t] # "new"
    BY <1>1 DEF PoolInv, PoolTypeOK, DueAccepted
  <2> QED
    BY <2>9, <2>10
<1>2. PoolInv /\ [PoolNext]_vars => \A c \in Callers : Barrier(c)
  BY <1>1
<1> QED
  BY <1>2, PoolInvariant, PTL DEF PoolSpec, WaitAllMeansDone

-----------------------------------------------------------------------------
(* What a step does to the abstract state of the executor.                 *)
Accepted == {t \in Tasks : status[t] # "new"}
Finished == {t \in Tasks : status[t] = "done"}
Closed == caller[Owner] = "gone"

LEMMA PushAccepts ==
  ASSUME PoolInv, NEW t \in Tasks, Push(t)
  PROVE  /\ t \notin Accepted
         /\ Accepted' = Accepted \cup {t}
         /\ Finished' = Finished
BY DEF PoolInv, PoolTypeOK, Push, Accepted, Finished

LEMMA OwnerStaysOpen ==
  ASSUME PoolInv
  PROVE  /\ ~stop => ~Closed
         /\ \A w \in Holders : ~Closed
BY DEF PoolInv, LeavingInOrder, Closed, Holders

(* AsynchTaskScheduler and ThreadPool implement the abstract executor:     *)
(* every task is executed at most once and only after it was accepted, and *)
(* the destructor returns only when every accepted task has been executed. *)
THEOREM PoolImplementsExecutor == PoolSpec => ExecutorSpec
<1>1. PoolInit => Pool!ExecutorInit
  BY PoolAssumption DEF PoolInit, Pool!ExecutorInit
<1>2. ASSUME PoolInv, [PoolNext]_vars
      PROVE  \/ \E t \in Tasks :
                  /\ ~Closed /\ t \notin Accepted /\ Accepted' = Accepted \cup {t}
                  /\ Finished' = Finished /\ Closed' = Closed
             \/ \E t \in Accepted \ Finished :
                  /\ ~Closed /\ Finished' = Finished \cup {t}
                  /\ Accepted' = Accepted /\ Closed' = Closed
             \/ /\ ~Closed /\ Accepted = Finished /\ Closed'
                /\ Accepted' = Accepted /\ Finished' = Finished
             \/ Accepted' = Accepted /\ Finished' = Finished /\ Closed' = Closed
  <2> USE <1>2
  <2>1. ASSUME NEW c \in Callers, NEW t \in Tasks, Schedule(c, t)
        PROVE  ~Closed /\ t \notin Accepted /\ Accepted' = Accepted \cup {t}
               /\ Finished' = Finished /\ Closed' = Closed
    <3>1. Push(t) /\ ~stop
      BY <2>1 DEF Schedule, MayCall
    <3>2. Closed' = Closed
      BY <2>1, <3>1, OwnerStaysOpen, PoolAssumption
         DEF Schedule, MayCall, Closed, PoolInv, PoolTypeOK
    <3> QED
      BY <3>1, <3>2, PushAccepts, OwnerStaysOpen
  <2>2. ASSUME NEW w \in Workers, Spawn(w)
        PROVE  \E t \in Tasks :
                 /\ ~Closed /\ t \notin Accepted /\ Accepted' = Accepted \cup {t}
                 /\ Finished' = Finished /\ Closed' = Closed
    <3>1. w \in Holders /\ holds[w] \in Tasks
      BY <2>2 DEF Spawn, Holders, PoolInv, HoldsExact
    <3>2. PICK t \in Tasks : Push(t)
      BY <2>2, <3>1, PoolAssumption DEF Spawn, Unsubmitted
    <3>3. Closed' = Closed /\ ~Closed
      BY <2>2, <3>1, OwnerStaysOpen DEF Spawn, Closed
    <3> QED
      BY <3>2, <3>3, PushAccepts
  <2>3. ASSUME NEW w \in Workers, Return(w)
        PROVE  \E t \in Accepted \ Finished :
                 /\ ~Closed /\ Finished' = Finished \cup {t}
                 /\ Accepted' = Accepted /\ Closed' = Closed
    <3> DEFINE t == holds[w]
    <3>1. w \in Holders /\ t \in Tasks /\ status[t] = "running"
      BY <2>3 DEF Return, Holders, PoolInv, HoldsExact
    <3>2. status' = [status EXCEPT ![t] = "done"] /\ caller' = caller
      BY <2>3 DEF Return
    <3>3. t \in Accepted \ Finished
      BY <3>1 DEF Accepted, Finished
    <3> HIDE DEF t
    <3>4. Finished' = Finished \cup {t} /\ Accepted' = Accepted
      BY <3>1, <3>2 DEF Accepted, Finished, PoolInv, PoolTypeOK
    <3>5. ~Closed /\ Closed' = Closed
      BY <3>1, <3>2, OwnerStaysOpen DEF Closed
    <3> QED
      BY <3>3, <3>4, <3>5
  <2>4. ASSUME NEW w \in Workers, Take(w)
        PROVE  Accepted' = Accepted /\ Finished' = Finished /\ Closed' = Closed
    <3>1. Head(tasks) \in Tasks /\ status[Head(tasks)] = "queued"
      <4>1. tasks \in Seq(Tasks) /\ tasks # <<>> /\ Injective(tasks)
        BY <2>4 DEF Take, PoolInv, PoolTypeOK, QueueExact
      <4>2. Head(tasks) \in Tasks /\ Head(tasks) \in Items(tasks)
        BY <4>1, PopFront
      <4> QED
        BY <4>2 DEF PoolInv, QueueExact
    <3> QED
      BY <2>4, <3>1 DEF Take, Accepted, Finished, Closed, PoolInv, PoolTypeOK
  <2>5. ASSUME NEW w \in Workers,
               FallAsleep(w) \/ Leave(w) \/ NotifySpawned(w) \/ Count(w) \/ WakeUp(w)
        PROVE  Accepted' = Accepted /\ Finished' = Finished /\ Closed' = Closed
    BY <2>5, PoolAssumption
       DEF FallAsleep, Leave, NotifySpawned, Count, WakeUp, Accepted, Finished, Closed
  <2>6. ASSUME NEW c \in Callers,
               CallerStep(c) \/ AwaitFutures(c) \/ WaitAll(c) \/ CallerWakesUp(c)
        PROVE  Accepted' = Accepted /\ Finished' = Finished /\ Closed' = Closed
    BY <2>6, PoolAssumption
       DEF CallerStep, NotifyOne, FuturesReady, CheckIdle, AwaitFutures, WaitAll, CallerWakesUp,
           MayCall, Accepted, Finished, Closed, PoolInv, PoolTypeOK
  <2>7. ASSUME Destroy \/ NotifyWorkers
        PROVE  Accepted' = Accepted /\ Finished' = Finished /\ Closed' = Closed
    BY <2>7, PoolAssumption
       DEF Destroy, NotifyWorkers, Accepted, Finished, Closed, PoolInv, PoolTypeOK
  <2>8. ASSUME Joined
        PROVE  /\ ~Closed /\ Accepted = Finished /\ Closed'
               /\ Accepted' = Accepted /\ Finished' = Finished
    <3>1. tasks = <<>> /\ Holders = {}
      BY <2>8, PoolAssumption DEF Joined, Holders, PoolInv, LeavingInOrder
    <3>2. \A t \in Tasks : status[t] \in {"new", "done"}
      BY <3>1, NoItems DEF PoolInv, PoolTypeOK, QueueExact, HoldsExact
    <3> QED
      BY <2>8, <3>2, PoolAssumption
         DEF Joined, Accepted, Finished, Closed, PoolInv, PoolTypeOK
  <2>9. CASE UNCHANGED vars
    BY <2>9 DEF vars, Accepted, Finished, Closed
  <2> QED
    BY <2>1, <2>2, <2>3, <2>4, <2>5, <2>6, <2>7, <2>8, <2>9
       DEF PoolNext, WorkerStep, OwnerStep
<1>3. PoolInv /\ [PoolNext]_vars
        => [Pool!ExecutorNext]_<<Accepted, Finished, Closed>>
  BY <1>2 DEF Pool!ExecutorNext, Pool!Accept, Pool!Finish, Pool!Close, Accepted, Finished, Closed
<1> QED
  BY <1>1, <1>3, PoolInvariant, PTL
     DEF PoolSpec, ExecutorSpec, Pool!ExecutorSpec, Accepted, Finished, Closed
=================================================================================
