------------------------- MODULE AdmissionControlProofs -------------------------
(***************************************************************************)
(* Proofs about AdmissionControl: its running sum never drifts from the    *)
(* entries, the high watermark bounds what is charged, and it implements   *)
(* AccountBook, for every set of ids, budget and watermark.                *)
(***************************************************************************)
EXTENDS AdmissionControl, FiniteSetTheorems, TLAPS

(* The charges of any ids are finitely many, so that counting them makes   *)
(* sense.                                                                  *)
LEMMA ChargesFinite ==
  ASSUME NEW ledger \in [Ids -> Nat], NEW S \in SUBSET Ids
  PROVE  /\ IsFiniteSet(Charges(ledger, S))
         /\ BytesOf(ledger, S) \in Nat
<1>1. IsFiniteSet(S)
  BY AdmissionAssumption, FS_Subset
<1>2. ASSUME NEW id \in S PROVE IsFiniteSet({id} \X (1..ledger[id]))
  <2>1. ledger[id] \in Nat
    OBVIOUS
  <2>2. IsFiniteSet({id})
    BY FS_Singleton
  <2>3. IsFiniteSet(1..ledger[id])
    BY <2>1, FS_Interval
  <2> QED
    BY <2>2, <2>3, FS_Product
<1>3. IsFiniteSet({{id} \X (1..ledger[id]) : id \in S})
  <2> DEFINE F == [id \in S |-> {id} \X (1..ledger[id])]
  <2>1. {{id} \X (1..ledger[id]) : id \in S} = {F[id] : id \in S}
    OBVIOUS
  <2>2. F \in Surjection(S, {F[id] : id \in S})
    BY DEF Surjection
  <2> QED
    BY <1>1, <2>1, <2>2, FS_Surjection
<1>4. IsFiniteSet(Charges(ledger, S))
  BY <1>2, <1>3, FS_UNION DEF Charges
<1> QED
  BY <1>4, FS_CardinalityType DEF BytesOf

(* Only the entries of the ids that are added up matter.                   *)
LEMMA BytesAgree ==
  ASSUME NEW ledger, NEW other, NEW S,
         \A id \in S : ledger[id] = other[id]
  PROVE  BytesOf(ledger, S) = BytesOf(other, S)
<1>1. Charges(ledger, S) = Charges(other, S)
  BY DEF Charges
<1> QED
  BY <1>1 DEF BytesOf

(* The bytes of one id are its entry.                                      *)
LEMMA BytesOfOne ==
  ASSUME NEW ledger \in [Ids -> Nat], NEW id \in Ids
  PROVE  BytesOf(ledger, {id}) = ledger[id]
<1>1. Charges(ledger, {id}) = {id} \X (1..ledger[id])
  BY DEF Charges
<1>2. ledger[id] \in Nat
  OBVIOUS
<1>3. IsFiniteSet({id}) /\ Cardinality({id}) = 1
  BY FS_Singleton
<1>4. IsFiniteSet(1..ledger[id]) /\ Cardinality(1..ledger[id]) = ledger[id]
  <2>1. Cardinality(1..ledger[id]) = IF 1 > ledger[id] THEN 0 ELSE ledger[id] - 1 + 1
    BY <1>2, FS_Interval
  <2>2. IsFiniteSet(1..ledger[id])
    BY <1>2, FS_Interval
  <2> QED
    BY <1>2, <2>1, <2>2
<1>5. Cardinality({id} \X (1..ledger[id])) = Cardinality({id}) * Cardinality(1..ledger[id])
  BY <1>3, <1>4, FS_Product
<1>6. Cardinality({id} \X (1..ledger[id])) = ledger[id]
  BY <1>2, <1>3, <1>4, <1>5
<1>7. BytesOf(ledger, {id}) = Cardinality({id} \X (1..ledger[id]))
  BY <1>1 DEF BytesOf
<1> QED
  BY <1>6, <1>7

(* Bytes of disjoint sets of ids add up.                                   *)
LEMMA BytesSplit ==
  ASSUME NEW ledger \in [Ids -> Nat], NEW S \in SUBSET Ids, NEW T \in SUBSET Ids,
         S \cap T = {}
  PROVE  BytesOf(ledger, S \cup T) = BytesOf(ledger, S) + BytesOf(ledger, T)
<1>1. Charges(ledger, S \cup T) = Charges(ledger, S) \cup Charges(ledger, T)
  BY DEF Charges
<1>2. Charges(ledger, S) \cap Charges(ledger, T) = {}
  BY DEF Charges
<1>3. IsFiniteSet(Charges(ledger, S)) /\ IsFiniteSet(Charges(ledger, T))
  BY ChargesFinite
<1>4. Cardinality(Charges(ledger, S) \cup Charges(ledger, T))
       = Cardinality(Charges(ledger, S)) + Cardinality(Charges(ledger, T)) - Cardinality({})
  BY <1>2, <1>3, FS_Union
<1>5. Cardinality({}) = 0
  BY FS_EmptySet
<1>6. BytesOf(ledger, S) \in Nat /\ BytesOf(ledger, T) \in Nat
  BY ChargesFinite
<1>7. /\ BytesOf(ledger, S \cup T) = Cardinality(Charges(ledger, S \cup T))
      /\ BytesOf(ledger, S) = Cardinality(Charges(ledger, S))
      /\ BytesOf(ledger, T) = Cardinality(Charges(ledger, T))
  BY DEF BytesOf
<1>8. BytesOf(ledger, S \cup T)
       = BytesOf(ledger, S) + BytesOf(ledger, T) - Cardinality({})
  BY <1>1, <1>2, <1>4, <1>7
<1> QED
  BY <1>5, <1>6, <1>8

(* The sum over all ids is the sum over S and the sum over the others.     *)
LEMMA BytesPart ==
  ASSUME NEW ledger \in [Ids -> Nat], NEW S \in SUBSET Ids
  PROVE  BytesOf(ledger, Ids) = BytesOf(ledger, S) + BytesOf(ledger, Ids \ S)
<1>1. Ids = S \cup (Ids \ S) /\ S \cap (Ids \ S) = {}
  OBVIOUS
<1>2. BytesOf(ledger, S \cup (Ids \ S)) = BytesOf(ledger, S) + BytesOf(ledger, Ids \ S)
  BY <1>1, BytesSplit
<1> QED
  BY <1>1, <1>2

(* Replacing one entry moves the sum by the difference.                    *)
LEMMA BytesReplace ==
  ASSUME NEW ledger \in [Ids -> Nat], NEW id \in Ids, NEW est \in Nat
  PROVE  BytesOf([ledger EXCEPT ![id] = est], Ids) = BytesOf(ledger, Ids) - ledger[id] + est
<1> DEFINE other == [ledger EXCEPT ![id] = est]
           rest == Ids \ {id}
<1>1. other \in [Ids -> Nat] /\ other[id] = est /\ \A i \in rest : other[i] = ledger[i]
  OBVIOUS
<1> HIDE DEF other
<1>3. BytesOf(ledger, Ids) = BytesOf(ledger, {id}) + BytesOf(ledger, rest)
  BY BytesPart
<1>4. BytesOf(other, Ids) = BytesOf(other, {id}) + BytesOf(other, rest)
  BY <1>1, BytesPart
<1>5. BytesOf(other, rest) = BytesOf(ledger, rest)
  BY <1>1, BytesAgree
<1>6. BytesOf(ledger, {id}) = ledger[id] /\ BytesOf(other, {id}) = est
  BY <1>1, BytesOfOne
<1>7. BytesOf(ledger, rest) \in Nat /\ ledger[id] \in Nat
  BY ChargesFinite
<1>8. BytesOf(other, Ids) = BytesOf(ledger, Ids) - ledger[id] + est
  BY <1>3, <1>4, <1>5, <1>6, <1>7
<1> QED
  BY <1>8 DEF other

(* Clearing the entries of S takes their bytes off the sum.                *)
LEMMA BytesClear ==
  ASSUME NEW ledger \in [Ids -> Nat], NEW S \in SUBSET Ids
  PROVE  BytesOf([id \in Ids |-> IF id \in S THEN 0 ELSE ledger[id]], Ids)
           = BytesOf(ledger, Ids) - BytesOf(ledger, S)
<1> DEFINE cleared == [id \in Ids |-> IF id \in S THEN 0 ELSE ledger[id]]
           rest == Ids \ S
<1>1. /\ cleared \in [Ids -> Nat]
      /\ \A id \in S : cleared[id] = 0
      /\ \A id \in rest : cleared[id] = ledger[id]
  OBVIOUS
<1> HIDE DEF cleared
<1>3. BytesOf(ledger, Ids) = BytesOf(ledger, S) + BytesOf(ledger, rest)
  BY BytesPart
<1>4. BytesOf(cleared, Ids) = BytesOf(cleared, S) + BytesOf(cleared, rest)
  BY <1>1, BytesPart
<1>5. BytesOf(cleared, rest) = BytesOf(ledger, rest)
  BY <1>1, BytesAgree
<1>6. BytesOf(cleared, S) = 0
  <2>1. 1..0 = {}
    OBVIOUS
  <2>2. \A id \in S : {id} \X (1..cleared[id]) = {}
    BY <1>1, <2>1
  <2>3. Charges(cleared, S) = {}
    BY <2>2 DEF Charges
  <2> QED
    BY <2>3, FS_EmptySet DEF BytesOf
<1>7. BytesOf(ledger, rest) \in Nat /\ BytesOf(ledger, S) \in Nat
  BY ChargesFinite
<1>8. BytesOf(cleared, Ids) = BytesOf(ledger, Ids) - BytesOf(ledger, S)
  BY <1>3, <1>4, <1>5, <1>6, <1>7
<1> QED
  BY <1>8 DEF cleared

(* No charge, no bytes.                                                    *)
LEMMA BytesNone ==
  ASSUME NEW S \in SUBSET Ids
  PROVE  BytesOf([id \in Ids |-> 0], S) = 0
<1> DEFINE none == [id \in Ids |-> 0]
<1>1. 1..0 = {} /\ \A id \in S : none[id] = 0
  OBVIOUS
<1>2. \A id \in S : {id} \X (1..none[id]) = {}
  BY <1>1
<1>3. Charges(none, S) = {}
  BY <1>2 DEF Charges
<1> QED
  BY <1>3, FS_EmptySet DEF BytesOf

-----------------------------------------------------------------------------
(* The inductive invariant: types, no drift, and the bound that the test   *)
(* of admit() keeps as long as the running sum it reads is the real one.   *)
AdmissionInv == AdmissionTypeOK /\ TotalIsSum /\ ChargedBelowHigh

LEMMA AdmissionInitInv == AdmissionInit => AdmissionInv
<1> SUFFICES ASSUME AdmissionInit PROVE AdmissionInv
  OBVIOUS
<1>1. AdmissionTypeOK
  BY DEF AdmissionInit, AdmissionTypeOK
<1>2. BytesOf(allocated, Ids) = 0
  BY BytesNone DEF AdmissionInit
<1>3. TotalIsSum
  BY <1>2 DEF AdmissionInit, TotalIsSum
<1>4. HighPct * Budget > 0
  BY AdmissionAssumption
<1> QED
  BY <1>1, <1>2, <1>3, <1>4 DEF AdmissionInv, ChargedBelowHigh

(* An answer other than ADMIT leaves the bound no room: what admit() lets  *)
(* through is below the high watermark together with the running sum.      *)
LEMMA AdmitFits ==
  ASSUME NEW total \in Nat, NEW est \in Nat, Decision(total, est) = "admit"
  PROVE  (total + est) * 100 < HighPct * Budget
<1>1. ~ Reaches(total, est, HighPct)
  BY DEF Decision
<1>2. HighPct * Budget \in Nat
  BY AdmissionAssumption
<1> QED
  BY <1>1, <1>2 DEF Reaches

(* A ledger and a running sum that the inductive invariant allows.         *)
Sound(ledger, total) ==
  /\ ledger \in [Ids -> Nat]
  /\ total \in Nat
  /\ total = BytesOf(ledger, Ids)
  /\ total * 100 < HighPct * Budget

LEMMA InvIsSound == AdmissionInv <=> Sound(allocated, allocatedTotal)
BY DEF AdmissionInv, AdmissionTypeOK, TotalIsSum, ChargedBelowHigh, Sound

LEMMA InvIsSoundNext == AdmissionInv' <=> Sound(allocated', allocatedTotal')
BY DEF AdmissionInv, AdmissionTypeOK, TotalIsSum, ChargedBelowHigh, Sound, BytesOf, Charges

(* Charging an id what admit() lets through leaves a sound ledger.         *)
LEMMA ChargeKeepsSound ==
  ASSUME NEW ledger, NEW total, Sound(ledger, total),
         NEW id \in Ids, NEW est \in Nat, Decision(total, est) = "admit"
  PROVE  Sound([ledger EXCEPT ![id] = est], total + est - ledger[id])
<1> DEFINE charged == [ledger EXCEPT ![id] = est]
           sum == total + est - ledger[id]
<1>1. /\ ledger \in [Ids -> Nat] /\ ledger[id] \in Nat
      /\ total \in Nat /\ total = BytesOf(ledger, Ids)
  BY DEF Sound
<1>2. BytesOf(charged, Ids) = BytesOf(ledger, Ids) - ledger[id] + est
  BY <1>1, BytesReplace
<1>3. charged \in [Ids -> Nat]
  BY <1>1
<1> HIDE DEF charged
<1>4. BytesOf(charged, Ids) \in Nat
  BY <1>3, ChargesFinite
<1>5. sum = BytesOf(charged, Ids) /\ sum \in Nat /\ sum <= total + est
  BY <1>1, <1>2, <1>4
<1>6. (total + est) * 100 < HighPct * Budget
  BY <1>1, AdmitFits
<1>7. HighPct * Budget \in Nat
  BY AdmissionAssumption
<1> HIDE DEF sum
<1>8. sum * 100 < HighPct * Budget
  BY <1>1, <1>5, <1>6, <1>7
<1>9. Sound(charged, sum)
  BY <1>3, <1>5, <1>8 DEF Sound
<1> QED
  BY <1>9 DEF charged, sum

LEMMA AdmitKeepsInv ==
  ASSUME AdmissionInv, NEW id \in Ids, NEW est \in Nat, Admit(id, est)
  PROVE  AdmissionInv'
<1>1. Sound(allocated, allocatedTotal)
  BY InvIsSound
<1>2. Sound([allocated EXCEPT ![id] = est], allocatedTotal + est - allocated[id])
  BY <1>1, ChargeKeepsSound DEF Admit
<1>3. Sound(allocated', allocatedTotal')
  BY <1>2 DEF Admit
<1> QED
  BY <1>3, InvIsSoundNext

LEMMA ReleaseKeepsInv ==
  ASSUME AdmissionInv, NEW S \in SUBSET Ids, ReleaseAll(S)
  PROVE  AdmissionInv'
<1> USE DEF AdmissionInv, AdmissionTypeOK, TotalIsSum
<1>1. /\ allocated' = [id \in Ids |-> IF id \in S THEN 0 ELSE allocated[id]]
      /\ allocatedTotal' = Monus(allocatedTotal, BytesOf(allocated, S))
  BY DEF ReleaseAll
<1>2. BytesOf(allocated', Ids) = BytesOf(allocated, Ids) - BytesOf(allocated, S)
  BY <1>1, BytesClear
<1>3. allocated' \in [Ids -> Nat]
  BY <1>1
<1>4. /\ BytesOf(allocated', Ids) \in Nat
      /\ BytesOf(allocated, Ids) \in Nat
      /\ BytesOf(allocated, S) \in Nat
  BY <1>3, ChargesFinite
<1>5. allocatedTotal' = BytesOf(allocated', Ids)
  BY <1>1, <1>2, <1>4 DEF Monus
<1>6. HighPct * Budget \in Nat
  BY AdmissionAssumption
<1>7. BytesOf(allocated', Ids) * 100 < HighPct * Budget
  BY <1>2, <1>4, <1>6 DEF ChargedBelowHigh
<1> QED
  BY <1>3, <1>4, <1>5, <1>7 DEF ChargedBelowHigh

LEMMA AdmissionStutterKeepsInv ==
  ASSUME AdmissionInv, UNCHANGED admissionVars
  PROVE  AdmissionInv'
BY DEF AdmissionInv, AdmissionTypeOK, TotalIsSum, ChargedBelowHigh, admissionVars, BytesOf, Charges

LEMMA AdmissionInvariant == AdmissionSpec => []AdmissionInv
<1>1. AdmissionInit => AdmissionInv
  BY AdmissionInitInv
<1>2. AdmissionInv /\ [AdmissionNext]_admissionVars => AdmissionInv'
  <2> SUFFICES ASSUME AdmissionInv, [AdmissionNext]_admissionVars
               PROVE  AdmissionInv'
    OBVIOUS
  <2>1. ASSUME NEW id \in Ids, NEW est \in Estimates, Admit(id, est)
        PROVE  AdmissionInv'
    BY <2>1, AdmitKeepsInv, AdmissionAssumption
  <2>2. ASSUME NEW S \in SUBSET Ids, ReleaseAll(S)
        PROVE  AdmissionInv'
    BY <2>2, ReleaseKeepsInv
  <2>3. CASE UNCHANGED admissionVars
    BY <2>3, AdmissionStutterKeepsInv
  <2> QED
    BY <2>1, <2>2, <2>3 DEF AdmissionNext
<1> QED
  BY <1>1, <1>2, PTL DEF AdmissionSpec

(* The ledger always holds byte counts: _allocated_total is never driven   *)
(* below zero and every entry is a number of bytes.                        *)
THEOREM AdmissionTypeCorrect == AdmissionSpec => []AdmissionTypeOK
<1>1. AdmissionInv => AdmissionTypeOK
  BY DEF AdmissionInv
<1> QED
  BY <1>1, AdmissionInvariant, PTL

(* The incrementally kept _allocated_total is the sum of the entries of    *)
(* _allocated, whatever is admitted again or released twice.               *)
THEOREM TotalNeverDrifts == AdmissionSpec => []TotalIsSum
<1>1. AdmissionInv => TotalIsSum
  BY DEF AdmissionInv
<1> QED
  BY <1>1, AdmissionInvariant, PTL

(* The bytes that are really charged stay below the high watermark.        *)
THEOREM HighWatermarkHolds == AdmissionSpec => []ChargedBelowHigh
<1>1. AdmissionInv => ChargedBelowHigh
  BY DEF AdmissionInv
<1> QED
  BY <1>1, AdmissionInvariant, PTL

(* AdmissionController implements AccountBook: every admission it lets     *)
(* through on the strength of its running sum is one that adding up the    *)
(* debts would let through too.                                            *)
THEOREM AdmissionImplementsBook == AdmissionSpec => BookSpec
<1>1. AdmissionInit => Book!BookInit
  BY DEF AdmissionInit, Book!BookInit
<1>2. ASSUME AdmissionInv, AdmissionInv', [AdmissionNext]_admissionVars
      PROVE  [Book!BookNext]_allocated
  <2>1. ASSUME NEW id \in Ids, NEW est \in Estimates, Admit(id, est)
        PROVE  Book!Charge(id, est)
    <3>1. allocated' = [allocated EXCEPT ![id] = est]
      BY <2>1 DEF Admit
    <3>2. BytesOf(allocated', Ids) = Book!Owed(allocated')
      BY DEF BytesOf, Charges, Book!Owed, Cardinality, Book!Cardinality, IsFiniteSet, Book!IsFiniteSet
    <3>3. BytesOf(allocated', Ids) * 100 < HighPct * Budget
      BY <1>2 DEF AdmissionInv, ChargedBelowHigh
    <3> QED
      BY <3>1, <3>2, <3>3 DEF Book!Charge
  <2>2. ASSUME NEW S \in SUBSET Ids, ReleaseAll(S)
        PROVE  Book!Settle(S)
    BY <2>2 DEF ReleaseAll, Book!Settle
  <2>3. CASE UNCHANGED admissionVars
    BY <2>3 DEF admissionVars
  <2> QED
    BY <1>2, <2>1, <2>2, <2>3 DEF AdmissionNext, Book!BookNext
<1> QED
  BY <1>1, <1>2, AdmissionInvariant, PTL
     DEF AdmissionSpec, BookSpec, Book!BookSpec
=============================================================================
