--------------------------- MODULE MultiModelManager ----------------------------
(***************************************************************************)
(* class ElasticMultiModelManager of turing/serving/multi_model.py: which  *)
(* models are resident, under one budget of VRAM bytes.                    *)
(*                                                                         *)
(* An entry of the registry is the estimate of its model and whether it is *)
(* loaded.  Task types, runners and weights are left out.                  *)
(***************************************************************************)
EXTENDS Integers, FiniteSets, Sequences, SequencesExt, QueueOrder

CONSTANTS
  Models,           (* model ids                                           *)
  VramBudget,       (* vram_budget_bytes                                   *)
  VramSizes,        (* the estimates that callers register                 *)
  DefaultVram,      (* the default estimate of register_model              *)
  MaxVram           (* bound of the model on the running sum, which drifts *)
                    (* when a loaded model is registered again             *)

ASSUME ModelsAssumption ==
  /\ VramBudget \in Nat /\ MaxVram \in Nat
  /\ VramSizes \subseteq Nat /\ DefaultVram \in Nat

VARIABLES
  registry,         (* the models that are registered, with their estimate *)
  loaded,           (* the models whose entry has loaded set               *)
  lru,              (* _lru_order, least recently used first               *)
  allocatedVram,    (* _current_allocated_bytes                            *)
  driftedVram       (* a resident or once used model was registered again  *)

modelVars == <<registry, loaded, lru, allocatedVram, driftedVram>>

ModelsInit ==
  /\ registry = << >>
  /\ loaded = {}
  /\ lru = << >>
  /\ allocatedVram = 0
  /\ driftedVram = FALSE

Registered(m, size) ==
  [x \in DOMAIN registry \cup {m} |-> IF x = m THEN size ELSE registry[x]]

(* register_model().  The bytes of a runner are charged only the first     *)
(* time the model enters the LRU order, and the bytes of an entry that is  *)
(* replaced are not given back.                                            *)
RegisterModel(m, size, withRunner) ==
  LET enters == withRunner /\ m \notin ToSet(lru) IN
  /\ registry' = Registered(m, size)
  /\ loaded' = IF withRunner THEN loaded \cup {m} ELSE loaded \ {m}
  /\ lru' = IF enters THEN Append(lru, m) ELSE lru
  /\ allocatedVram' = allocatedVram + (IF enters THEN size ELSE 0)
  /\ allocatedVram' <= MaxVram
  /\ driftedVram' = (driftedVram \/ m \in ToSet(lru))

Minus(a, b) == IF a >= b THEN a - b ELSE 0

(* evict_model() leaves the model in the LRU order.                        *)
EvictModel(m) ==
  /\ m \in loaded
  /\ loaded' = loaded \ {m}
  /\ allocatedVram' = Minus(allocatedVram, registry[m])
  /\ UNCHANGED <<registry, lru, driftedVram>>

(* Mutant: the bytes of the model to load are not added to the test.       *)
FitsWithout(bytes, needed) == bytes <= VramBudget

VramFits(bytes, needed) == bytes + needed <= VramBudget

(* The bytes counted once the first i models of the sequence are evicted.  *)
AfterEvicting(victims) ==
  LET left[i \in 0 .. Len(victims)] ==
        IF i = 0 THEN allocatedVram ELSE Minus(left[i - 1], registry[victims[i]])
  IN left

(* The LRU order once m was used.                                          *)
Touched(m) == {Append(others, m) : others \in Keeping(lru, Models \ {m})}

(* get_or_load_model(): least recently used models are evicted until the   *)
(* model fits or no other is left.                                         *)
GetOrLoadModel(m) ==
  LET known == IF m \in DOMAIN registry THEN registry ELSE Registered(m, DefaultVram)
  IN \E victims \in Keeping(lru, loaded \ {m}) :
       LET left == AfterEvicting(victims)
           enough == {i \in 0 .. Len(victims) : VramFits(left[i], known[m])}
           n == IF enough = {} THEN Len(victims)
                ELSE CHOOSE i \in enough : \A j \in enough : i <= j
       IN /\ registry' = known
          /\ lru' \in Touched(m)
          /\ IF m \in loaded
             THEN UNCHANGED <<loaded, allocatedVram>>
             ELSE /\ loaded' = (loaded \ ToSet(SubSeq(victims, 1, n))) \cup {m}
                  /\ allocatedVram' = left[n] + known[m]
                  /\ allocatedVram' <= MaxVram
          /\ UNCHANGED driftedVram

ModelsNext ==
  \/ \E m \in Models, size \in VramSizes, runner \in BOOLEAN : RegisterModel(m, size, runner)
  \/ \E m \in Models : EvictModel(m) \/ GetOrLoadModel(m)

ModelsSpec == ModelsInit /\ [][ModelsNext]_modelVars

-----------------------------------------------------------------------------
(* The bytes of the models of S, as the number of (model, byte) pairs.     *)
VramOf(S, sizes) == Cardinality(UNION {{m} \X (1 .. sizes[m]) : m \in S})

(* A load ends with the resident models within the budget, or has evicted  *)
(* every other one, although its test reads only the running sum, which    *)
(* loads, evictions and evictions inside a load keep by hand; and what it  *)
(* evicts was used before what it keeps.  This holds as long as no model   *)
(* is registered again after it was used (get_or_load_model, evict_model). *)
LoadsStayInBudget ==
  [][\A m \in Models \ loaded : GetOrLoadModel(m) /\ ~driftedVram =>
       /\ VramOf(loaded', registry') <= VramBudget \/ loaded' = {m}
       /\ \A i, j \in DOMAIN lru :
            lru[i] \in loaded \ loaded' /\ lru[j] \in loaded' \ {m} => i < j]_modelVars
=============================================================================
