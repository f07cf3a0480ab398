----------------------------- MODULE NativeElastic ------------------------------
(***************************************************************************)
(* class ElasticBudgetController of csrc/turing_elastic_budget.hpp, which  *)
(* decides for ElasticMemoryBudgetManager in a build with the extension.   *)
(* It counts the slots and the pages itself and is told nothing of what    *)
(* the expert cache and the page pool make of its figures: the cache keeps *)
(* a slot for every pinned key.  Of those two only the sizes are modelled  *)
(* here.                                                                   *)
(*                                                                         *)
(* Bytes are counted in units of a power of two that divides both sizes.   *)
(* A number of pages times bytes_per_page_ is an int, which wraps, and is  *)
(* divided by bytes_per_slot_ as floats, which round.                      *)
(***************************************************************************)
EXTENDS Integers

CONSTANTS
  BudgetSlotBytes, BudgetPageBytes, (* bytes_per_slot_, bytes_per_page_   *)
  FewestSlots, MostSlots,           (* min_ and max_expert_slots_         *)
  FewestPages, MostPages,           (* min_ and max_kv_pages_             *)
  SurplusStep,                      (* 16 in the code                     *)
  IntRange,                         (* an int is below it: 2^31 bytes     *)
  FloatRange,                       (* floats up to it are exact: 2^24    *)
  MostNeeded                        (* bound of the model: pages needed   *)

ASSUME BudgetAssumption ==
  /\ BudgetSlotBytes \in Nat \ {0} /\ BudgetPageBytes \in Nat \ {0}
  /\ FewestSlots \in Nat \ {0} /\ MostSlots \in Nat /\ FewestSlots <= MostSlots
  /\ FewestPages \in Nat \ {0} /\ MostPages \in Nat /\ FewestPages <= MostPages
  /\ SurplusStep \in Nat \ {0}
  /\ IntRange \in Nat \ {0}
  /\ FloatRange \in Nat /\ FloatRange > 4
  /\ MostNeeded \in Nat

VARIABLES
  countedSlots, countedPages,  (* active_expert_slots_, active_kv_pages_  *)
  heldSlots, heldPages,        (* active_slots, active_max_pages          *)
  pins                         (* len(pinned_keys)                        *)

elasticVars == <<countedSlots, countedPages, heldSlots, heldPages, pins>>

More(m, n) == IF m < n THEN n ELSE m
Fewer(m, n) == IF m < n THEN m ELSE n
RoundedUp(m, n) == (m + n - 1) \div n

(* The headroom ratio is its default, one quarter.  Which number of tokens *)
(* needs how many pages is left open.                                      *)
WantedPages(needed) ==
  More(FewestPages, Fewer(MostPages, RoundedUp(5 * needed, 4)))

(* What an int makes of n.                                                 *)
Wrapped(n) == ((n + IntRange) % (2 * IntRange)) - IntRange

(* What rounding cannot change: a quotient of two numbers that floats hold *)
(* exactly, or that is not positive and so buys nothing.                   *)
DividesExactly(n, m) == n <= 0 \/ (n <= FloatRange /\ m <= FloatRange)

(* The floats of n and m and their quotient are each off by at most one    *)
(* part in FloatRange, which together is less than four.                   *)
FloatCeilings(n, m) ==
  IF DividesExactly(n, m) THEN {RoundedUp(n, m)}
  ELSE RoundedUp((FloatRange - 4) * n, FloatRange * m)
         .. RoundedUp((FloatRange + 4) * n, FloatRange * m)

FloatFloors(n, m) ==
  IF DividesExactly(n, m) THEN {n \div m}
  ELSE ((FloatRange - 4) * n) \div (FloatRange * m)
         .. ((FloatRange + 4) * n) \div (FloatRange * m)

PageBytes(pages) == Wrapped(pages * BudgetPageBytes)

(* Mutant: the slots that pay for more pages are rounded down.             *)
PaidFloor(pages) ==
  {More(1, slots) : slots \in FloatFloors(PageBytes(pages), BudgetSlotBytes)}

(* pages is negative when a forced call lowers the pages.                  *)
PaidSlots(pages) ==
  {More(1, slots) : slots \in FloatCeilings(PageBytes(pages), BudgetSlotBytes)}
GainedSlots(pages) == FloatFloors(PageBytes(pages), BudgetSlotBytes)

(* The constructor takes the sizes that cache and pool have by then.       *)
ElasticInit ==
  /\ countedSlots \in FewestSlots .. MostSlots /\ heldSlots = countedSlots
  /\ countedPages \in FewestPages .. MostPages /\ heldPages = countedPages
  /\ pins = 0

(* resize_active_slots() and adjust_active_capacity() with the new counts. *)
Apply ==
  /\ heldSlots' = More(More(1, pins), Fewer(countedSlots', MostSlots))
  /\ heldPages' = More(1, Fewer(countedPages', MostPages))
  /\ UNCHANGED pins

TradeSlots(wanted, forced) ==
  LET missing == wanted - countedPages IN
  /\ missing > 0 \/ forced
  /\ \E paid \in PaidSlots(missing) :
       countedSlots' = More(FewestSlots, countedSlots - paid)
  /\ countedPages' = Fewer(MostPages, wanted)
  /\ Apply

TradePages(wanted) ==
  LET surplus == countedPages - wanted IN
  /\ surplus >= SurplusStep
  /\ \E gained \in GainedSlots(surplus) :
       /\ gained > 0
       /\ countedSlots' = Fewer(MostSlots, countedSlots + gained)
  /\ countedPages' = More(FewestPages, wanted)
  /\ Apply

(* evaluate_and_rebalance(), when it rebalances.                           *)
NativeRebalance(needed, forced) ==
  \/ TradeSlots(WantedPages(needed), forced)
  \/ ~forced /\ TradePages(WantedPages(needed))

(* pin_experts() and unpin_experts() leave active_slots as it is.          *)
ChangePins ==
  /\ pins' \in 0 .. MostSlots
  /\ UNCHANGED <<countedSlots, countedPages, heldSlots, heldPages>>

ElasticNext ==
  \/ \E needed \in 0 .. MostNeeded, forced \in BOOLEAN : NativeRebalance(needed, forced)
  \/ ChangePins

ElasticSpec == ElasticInit /\ [][ElasticNext]_elasticVars

-----------------------------------------------------------------------------
HeldBytes == heldSlots * BudgetSlotBytes + heldPages * BudgetPageBytes

TradedBytes == BudgetPageBytes *
  (IF countedPages < countedPages' THEN countedPages' - countedPages
                                   ELSE countedPages - countedPages')

LostToRounding(bytes) ==
  IF DividesExactly(bytes, BudgetSlotBytes) THEN 0 ELSE (4 * bytes) \div FloatRange

(* The controller's own count never drifts in the dangerous direction: the *)
(* memory that the cache and the pool really hold does not grow by a       *)
(* rebalance, forced or not, although the controller does not see the      *)
(* slots that pins keep, unless the cache is left at its minimum or at its *)
(* pinned keys.  That is so for trades whose bytes an int can hold, and    *)
(* for sizes that floats do not hold exactly up to their rounding          *)
(* (evaluate_and_rebalance on both sides).                                 *)
HeldBytesAreTraded ==
  [][TradedBytes < IntRange =>
       \/ HeldBytes' <= HeldBytes + LostToRounding(TradedBytes)
       \/ heldSlots' <= More(FewestSlots, pins)]_elasticVars
=============================================================================
