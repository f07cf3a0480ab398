---------------------------- MODULE AdmissionControl ----------------------------
(***************************************************************************)
(* class AdmissionController of turing/serving/traffic.py: the ledger of   *)
(* estimated KV-cache bytes that decides whether a request may start.      *)
(*                                                                         *)
(* The dict _allocated is a total function with 0 for an absent id, which  *)
(* is the default that the code's .get and .pop use.  The ratio tests      *)
(* (total + est) / budget >= watermark are cross-multiplied, watermarks    *)
(* being percentages.  The shed and queue counters are telemetry that the  *)
(* code never reads back, and are left out.                                *)
(***************************************************************************)
EXTENDS Integers, FiniteSets

CONSTANTS
  Ids,        (* request ids                                    *)
  Budget,     (* vram_budget_bytes                              *)
  HighPct,    (* high_watermark, in percent                     *)
  ShedPct,    (* shed_watermark, in percent                     *)
  Estimates   (* the byte estimates that callers may present    *)

ASSUME AdmissionAssumption ==
  /\ IsFiniteSet(Ids)
  /\ Budget \in Nat \ {0}
  /\ HighPct \in Nat \ {0}
  /\ ShedPct \in Nat \ {0}
  /\ Estimates \subseteq Nat

VARIABLES
  allocated,       (* _allocated: bytes charged to each id      *)
  allocatedTotal   (* _allocated_total: the running sum         *)

admissionVars == <<allocated, allocatedTotal>>

-----------------------------------------------------------------------------
(* The sum of ledger[id] over S, as the number of (id, byte) pairs.        *)
Charges(ledger, S) == UNION {{id} \X (1..ledger[id]) : id \in S}

BytesOf(ledger, S) == Cardinality(Charges(ledger, S))

(* max(0, a - b)                                                           *)
Monus(a, b) == IF a >= b THEN a - b ELSE 0

Reaches(total, est, pct) == (total + est) * 100 >= pct * Budget

Decision(total, est) ==
  IF Reaches(total, est, ShedPct) THEN "shed"
  ELSE IF Reaches(total, est, HighPct) THEN "queue" ELSE "admit"

-----------------------------------------------------------------------------
AdmissionInit ==
  /\ allocated = [id \in Ids |-> 0]
  /\ allocatedTotal = 0

(* Mutant: the charge of an id that already has an entry is not replaced.  *)
AdmitAddsOnly(id, est) ==
  /\ Decision(allocatedTotal, est) = "admit"
  /\ allocated' = [allocated EXCEPT ![id] = est]
  /\ allocatedTotal' = allocatedTotal + est

(* Mutant: only the shed watermark refuses.                                *)
AdmitToShedMark(id, est) ==
  /\ Decision(allocatedTotal, est) # "shed"
  /\ allocated' = [allocated EXCEPT ![id] = est]
  /\ allocatedTotal' = allocatedTotal + est - allocated[id]

(* admit() when it answers ADMIT.  SHED and QUEUE return before anything   *)
(* is written.                                                             *)
Admit(id, est) ==
  /\ Decision(allocatedTotal, est) = "admit"
  /\ allocated' = [allocated EXCEPT ![id] = est]
  /\ allocatedTotal' = allocatedTotal + est - allocated[id]

(* Mutant: the total is charged off, the entries stay.                     *)
ReleaseTotalOnly(S) ==
  /\ UNCHANGED allocated
  /\ allocatedTotal' = Monus(allocatedTotal, BytesOf(allocated, S))

(* release() of every id of S in turn: an engine iteration releases all    *)
(* the requests that end in it.                                            *)
ReleaseAll(S) ==
  /\ allocated' = [id \in Ids |-> IF id \in S THEN 0 ELSE allocated[id]]
  /\ allocatedTotal' = Monus(allocatedTotal, BytesOf(allocated, S))

AdmissionNext ==
  \/ \E id \in Ids, est \in Estimates : Admit(id, est)
  \/ \E S \in SUBSET Ids : S # {} /\ ReleaseAll(S)

AdmissionSpec == AdmissionInit /\ [][AdmissionNext]_admissionVars

-----------------------------------------------------------------------------
(* The ledger holds byte counts.                                           *)
AdmissionTypeOK ==
  /\ allocated \in [Ids -> Nat]
  /\ allocatedTotal \in Nat

(* The incrementally maintained _allocated_total is the sum of the entries *)
(* of _allocated, through re-admissions of a known id and releases of an   *)
(* unknown one: no byte of budget leaks and none is freed twice.           *)
TotalIsSum == allocatedTotal = BytesOf(allocated, Ids)

(* The bytes really charged stay strictly below the high watermark, so     *)
(* neither watermark can ever be crossed by admissions of the controller.  *)
ChargedBelowHigh == BytesOf(allocated, Ids) * 100 < HighPct * Budget

(* What the controller promises: an account book without a running sum.    *)
Book == INSTANCE AccountBook WITH debt <- allocated

(* The controller, whose test reads only the running sum, lets through no  *)
(* charge that the account book, which adds up the debts, would refuse.    *)
BookSpec == Book!BookSpec
=============================================================================
