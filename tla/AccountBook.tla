------------------------------ MODULE AccountBook ------------------------------
(***************************************************************************)
(* What AdmissionController promises its callers: each id owes a number of *)
(* bytes, and a charge is accepted only if the debts of all ids together   *)
(* stay below the high watermark.  There is no running sum to drift.       *)
(***************************************************************************)
EXTENDS Integers, FiniteSets

CONSTANTS Ids, Budget, HighPct, Estimates

VARIABLE debt

Owed(book) == Cardinality(UNION {{id} \X (1..book[id]) : id \in Ids})

BookInit == debt = [id \in Ids |-> 0]

Charge(id, est) ==
  /\ debt' = [debt EXCEPT ![id] = est]
  /\ Owed(debt') * 100 < HighPct * Budget

Settle(S) == debt' = [id \in Ids |-> IF id \in S THEN 0 ELSE debt[id]]

BookNext ==
  \/ \E id \in Ids, est \in Estimates : Charge(id, est)
  \/ \E S \in SUBSET Ids : Settle(S)

BookSpec == BookInit /\ [][BookNext]_debt
=============================================================================
