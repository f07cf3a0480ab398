----------------------------- MODULE NativeLfruCache -----------------------------
(***************************************************************************)
(* class LFRUExpertCacheFast of csrc/turing_lru_cache.hpp: which expert is *)
(* in which slot, how hot it is and whether it is pinned.                  *)
(*                                                                         *)
(* Each access gives its slot a clock of its own, so that the order of     *)
(* last_clock is a sequence of the experts, and the score, heat first and  *)
(* then recency, is the least heat and then the least recent.  Ages stay   *)
(* below 65535.  Hit counters are telemetry.                               *)
(***************************************************************************)
EXTENDS Integers, Sequences, SequencesExt

CONSTANTS
  LfruKeys,         (* experts, as (layer_idx, expert_idx)                 *)
  LfruSlots,        (* num_slots_                                          *)
  CandidateHeats,   (* the values of candidate_heat                        *)
  MaxLfruHeat,      (* bound of the model: a heat stays at MaxLfruHeat     *)
  NoKey

ASSUME LfruAssumption ==
  /\ LfruSlots \in Nat \ {0} /\ MaxLfruHeat \in Nat
  /\ CandidateHeats \subseteq 0 .. MaxLfruHeat
  /\ NoKey \notin LfruKeys

VARIABLES
  key_to_slot_,    (* -1 for a key that is not there                       *)
  slots_,
  lfru_free,       (* free_slots_, taken from the end                      *)
  recency,         (* the keys of slots_, by last_clock                    *)
  callersPins      (* history: pinned where they are, and not unpinned     *)

lfruVars == <<key_to_slot_, slots_, lfru_free, recency, callersPins>>

SlotIds == 0 .. LfruSlots - 1

LfruInit ==
  /\ key_to_slot_ = [k \in LfruKeys |-> -1]
  /\ slots_ = [s \in SlotIds |-> [key |-> NoKey, heat |-> 0, is_pinned |-> FALSE]]
  /\ lfru_free = [i \in 1 .. LfruSlots |-> LfruSlots - i]
  /\ recency = << >>
  /\ callersPins = {}

Contained == {k \in LfruKeys : key_to_slot_[k] # -1}

AtMost(heat) == IF heat <= MaxLfruHeat THEN heat ELSE MaxLfruHeat

Used(k) == Append(SelectSeq(recency, LAMBDA l : l # k), k)

LessRecent(k, l) == SelectInSeq(recency, LAMBDA j : j = k) < SelectInSeq(recency, LAMBDA j : j = l)

(* get_slot() that hits.                                                   *)
LfruGet(k) ==
  /\ k \in Contained
  /\ slots_' = [slots_ EXCEPT ![key_to_slot_[k]].heat = AtMost(@ + 1)]
  /\ recency' = Used(k)
  /\ UNCHANGED <<key_to_slot_, lfru_free, callersPins>>

Colder(s, t) ==
  \/ slots_[s].heat < slots_[t].heat
  \/ slots_[s].heat = slots_[t].heat /\ LessRecent(slots_[s].key, slots_[t].key)

(* Mutant: pins are not looked at.                                         *)
ColdestOfAll == {s \in SlotIds : \A t \in SlotIds : t = s \/ Colder(s, t)}

(* The slot of the lowest score among those that are not pinned.           *)
ColdestUnpinned ==
  {s \in SlotIds : /\ ~slots_[s].is_pinned
                   /\ \A t \in SlotIds : slots_[t].is_pinned \/ t = s \/ Colder(s, t)}

(* The hysteresis: a victim keeps its slot from a candidate that is not    *)
(* hotter by a quarter and hysteresis_min_access_.                         *)
NotHotEnough(heat, victim) ==
  /\ victim.heat > 0
  /\ heat < (victim.heat * 5) \div 4 + 4

(* The victims that make room for the candidate: none, or one.             *)
VictimsFor(heat, force) ==
  {s \in ColdestUnpinned : force \/ ~NotHotEnough(heat, slots_[s])}

(* allocate_or_evict_slot() answers with the slot that its key has then;   *)
(* -1 is its refusal.                                                      *)
RefuseSlot(k, heat, force) ==
  /\ k \notin Contained /\ lfru_free = << >>
  /\ VictimsFor(heat, force) = {}
  /\ UNCHANGED lfruVars

AllocateContained(k, heat) ==
  /\ k \in Contained
  /\ slots_' = [slots_ EXCEPT ![key_to_slot_[k]].heat = AtMost(@ + heat)]
  /\ recency' = Used(k)
  /\ UNCHANGED <<key_to_slot_, lfru_free, callersPins>>

(* Into the last free slot, or in the place of the expert of slot s.       *)
Enter(k, heat, s) ==
  LET evicted == slots_[s].key
  IN /\ key_to_slot_' = [j \in LfruKeys |->
                           IF j = k THEN s ELSE IF j = evicted THEN -1 ELSE key_to_slot_[j]]
     /\ slots_' = [slots_ EXCEPT ![s] = [key |-> k, heat |-> heat, is_pinned |-> FALSE]]
     /\ recency' = SelectSeq(Used(k), LAMBDA l : l # evicted)
     /\ UNCHANGED callersPins

EnterFree(k, heat) ==
  /\ k \notin Contained /\ lfru_free # << >>
  /\ Enter(k, heat, Last(lfru_free))
  /\ lfru_free' = Front(lfru_free)

EnterEvicting(k, heat, force) ==
  /\ k \notin Contained /\ lfru_free = << >>
  /\ \E s \in VictimsFor(heat, force) : Enter(k, heat, s)
  /\ UNCHANGED lfru_free

(* allocate_or_evict_slot()                                                *)
LfruAllocate(k, heat, force) ==
  \/ RefuseSlot(k, heat, force)
  \/ AllocateContained(k, heat)
  \/ EnterFree(k, heat)
  \/ EnterEvicting(k, heat, force)

(* pin_key() and unpin_key() of each of some keys: nothing is remembered   *)
(* of a key that is not there.                                             *)
PinKeys(keys) ==
  /\ slots_' = [s \in SlotIds |->
                  [slots_[s] EXCEPT !.is_pinned = @ \/ slots_[s].key \in keys]]
  /\ callersPins' = callersPins \cup (keys \cap Contained)
  /\ UNCHANGED <<key_to_slot_, lfru_free, recency>>

UnpinKeys(keys) ==
  /\ slots_' = [s \in SlotIds |->
                  [slots_[s] EXCEPT !.is_pinned = @ /\ slots_[s].key \notin keys]]
  /\ callersPins' = callersPins \ keys
  /\ UNCHANGED <<key_to_slot_, lfru_free, recency>>

(* pin_slot(), also of a slot that is still free.                          *)
PinSlot(s) ==
  /\ slots_' = [slots_ EXCEPT ![s].is_pinned = TRUE]
  /\ callersPins' = callersPins \cup ({slots_[s].key} \ {NoKey})
  /\ UNCHANGED <<key_to_slot_, lfru_free, recency>>

(* decay(), by half.                                                       *)
DecayHeat ==
  /\ slots_' = [s \in SlotIds |-> [slots_[s] EXCEPT !.heat = @ \div 2]]
  /\ UNCHANGED <<key_to_slot_, lfru_free, recency, callersPins>>

LfruNext ==
  \/ \E k \in LfruKeys :
       \/ LfruGet(k) \/ PinKeys({k}) \/ UnpinKeys({k})
       \/ \E heat \in CandidateHeats, force \in BOOLEAN : LfruAllocate(k, heat, force)
  \/ \E s \in SlotIds : PinSlot(s)
  \/ DecayHeat

LfruSpec == LfruInit /\ [][LfruNext]_lfruVars

-----------------------------------------------------------------------------
(* Map, slots and free list tell one story, and pins belong to experts,    *)
(* not to slots: one that was pinned where it is stays there, pinned, as   *)
(* long as nobody unpins it, forced evictions notwithstanding, and a slot  *)
(* hands no pin on to the expert that enters it (allocate_or_evict_slot,   *)
(* pin_key, pin_slot).                                                     *)
PinsStayWithExperts ==
  /\ \A s \in SlotIds :
       IF s \in ToSet(lfru_free) THEN slots_[s].key = NoKey
       ELSE slots_[s].key \in Contained /\ key_to_slot_[slots_[s].key] = s
  /\ \A k \in Contained : slots_[key_to_slot_[k]].key = k
  /\ callersPins = {k \in Contained : slots_[key_to_slot_[k]].is_pinned}
=============================================================================
