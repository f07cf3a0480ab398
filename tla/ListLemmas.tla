------------------------------- MODULE ListLemmas -------------------------------
(***************************************************************************)
(* What the proofs of several components need of lists and functions,      *)
(* whatever their length: what sorting, filtering, cutting and joining do  *)
(* to the items of a list, least and greatest elements and induction on    *)
(* the natural numbers, the values of functions that are defined step by   *)
(* step, and the sequences that FlattenSeq joins.                          *)
(***************************************************************************)
EXTENDS QueueOrder, SequencesExt, FiniteSetTheorems, SequenceTheorems, WellFoundedInduction, TLAPS

(* A list made of the elements of s at the places p[1], ..., p[n] has no   *)
(* repetition if s and p have none.                                        *)
LEMMA PickedOnce ==
  ASSUME NEW S, NEW s \in Seq(S), NEW n \in Nat, NEW p \in [1..n -> DOMAIN s],
         Injective(s), \A i, j \in 1..n : i < j => p[i] # p[j]
  PROVE  Injective([i \in 1..n |-> s[p[i]]])
<1> DEFINE t == [i \in 1..n |-> s[p[i]]]
<1> SUFFICES ASSUME NEW i \in 1..n, NEW j \in 1..n, t[i] = t[j], i # j
             PROVE  FALSE
  BY DEF Injective
<1>1. p[i] = p[j]
  BY DEF Injective
<1>2. i < j \/ j < i
  OBVIOUS
<1> QED
  BY <1>1, <1>2

(* Sorting keeps the items and repeats none.                               *)
LEMMA SortReorders ==
  ASSUME NEW S, NEW s \in Seq(S), NEW key \in [S -> Int], NEW t \in StableSorts(s, key)
  PROVE  /\ t \in Seq(S)
         /\ Len(t) = Len(s)
         /\ Items(t) = Items(s)
         /\ Injective(s) => Injective(t)
<1> DEFINE n == Len(s)
<1>1. n \in Nat /\ DOMAIN s = 1..n /\ \A i \in 1..n : s[i] \in S
  BY LenProperties
<1>2. PICK p \in [1..n -> 1..n] :
        /\ t = [i \in 1..n |-> s[p[i]]]
        /\ \A i, j \in 1..n : i < j =>
             \/ key[s[p[i]]] < key[s[p[j]]]
             \/ key[s[p[i]]] = key[s[p[j]]] /\ p[i] < p[j]
  BY <1>1 DEF StableSorts
<1> HIDE DEF n
<1>3. \A i, j \in 1..n : i < j => p[i] # p[j]
  <2> SUFFICES ASSUME NEW i \in 1..n, NEW j \in 1..n, i < j, p[i] = p[j] PROVE FALSE
    OBVIOUS
  <2>1. p[i] \in Int /\ key[s[p[i]]] \in Int
    BY <1>1
  <2> QED
    BY <1>2, <2>1
<1>4. {p[i] : i \in 1..n} = 1..n
  <2>1. p \in Injection(1..n, 1..n)
    <3>1. \A i, j \in 1..n : p[i] = p[j] => i = j
      <4> SUFFICES ASSUME NEW i \in 1..n, NEW j \in 1..n, p[i] = p[j], i # j PROVE FALSE
        OBVIOUS
      <4>1. i < j \/ j < i
        BY <1>1
      <4> QED
        BY <1>3, <4>1
    <3> QED
      BY <3>1 DEF Injection, IsInjective
  <2>2. IsFiniteSet(1..n)
    BY <1>1, FS_Interval
  <2>3. p \in Surjection(1..n, 1..n)
    BY <2>1, <2>2, FS_Injection
  <2> QED
    BY <2>3 DEF Surjection
<1>5. t \in Seq(S) /\ Len(t) = n /\ Items(t) = {s[k] : k \in {p[i] : i \in 1..n}}
  <2>1. p \in [1..n -> DOMAIN s] /\ t = [i \in 1..n |-> s[p[i]]]
    BY <1>1, <1>2
  <2>2. t \in Seq(S) /\ Len(t) = n
    <3>1. \A i \in 1..n : s[p[i]] \in S
      BY <2>1, LenProperties
    <3>2. t \in [1..n -> S]
      BY <2>1, <3>1
    <3> QED
      BY <1>1, <3>2
  <2>3. DOMAIN t = 1..n /\ \A i \in 1..n : t[i] = s[p[i]]
    BY <2>1
  <2>4. Items(t) = {s[k] : k \in {p[i] : i \in 1..n}}
    BY <2>3 DEF Items
  <2> QED
    BY <2>2, <2>4
<1>6. Items(t) = Items(s)
  BY <1>1, <1>4, <1>5 DEF Items
<1>7. Injective(s) => Injective(t)
  <2>1. p \in [1..n -> DOMAIN s] /\ t = [i \in 1..n |-> s[p[i]]]
    BY <1>1, <1>2
  <2> QED
    BY <1>1, <1>3, <2>1, PickedOnce, Zenon
<1> QED
  BY <1>5, <1>6, <1>7 DEF n

(* Filtering keeps the items that are kept, and repeats none.              *)
LEMMA KeepingFilters ==
  ASSUME NEW S, NEW s \in Seq(S), NEW K, NEW t \in Keeping(s, K)
  PROVE  /\ t \in Seq(S)
         /\ Len(t) <= Len(s)
         /\ Items(t) = Items(s) \cap K
         /\ Injective(s) => Injective(t)
<1>1. PICK n \in 0..Len(s) : \E p \in [1..n -> DOMAIN s] :
        /\ t = [i \in 1..n |-> s[p[i]]]
        /\ \A i, j \in 1..n : i < j => p[i] < p[j]
        /\ {p[i] : i \in 1..n} = {k \in DOMAIN s : s[k] \in K}
  <2> DEFINE Pickings(n) ==
        {q \in [1..n -> DOMAIN s] :
           /\ \A i, j \in 1..n : i < j => q[i] < q[j]
           /\ {q[i] : i \in 1..n} = {k \in DOMAIN s : s[k] \in K}}
  <2>1. PICK n \in 0..Len(s) : t \in {[i \in 1..n |-> s[p[i]]] : p \in Pickings(n)}
    BY Zenon DEF Keeping
  <2>2. PICK p \in Pickings(n) : t = [i \in 1..n |-> s[p[i]]]
    BY <2>1, Zenon
  <2> QED
    BY <2>2, Zenon
<1>2. PICK p \in [1..n -> DOMAIN s] :
        /\ t = [i \in 1..n |-> s[p[i]]]
        /\ \A i, j \in 1..n : i < j => p[i] < p[j]
        /\ {p[i] : i \in 1..n} = {k \in DOMAIN s : s[k] \in K}
  BY <1>1
<1>3. Len(s) \in Nat /\ n \in Nat /\ n <= Len(s) /\ DOMAIN s = 1..Len(s)
  BY LenProperties
<1>4. t \in Seq(S) /\ Len(t) = n /\ Items(t) = {s[k] : k \in {p[i] : i \in 1..n}}
  <2>1. n \in Nat /\ p \in [1..n -> DOMAIN s] /\ t = [i \in 1..n |-> s[p[i]]]
    BY <1>2, <1>3
  <2>2. t \in Seq(S) /\ Len(t) = n
    <3>1. \A i \in 1..n : s[p[i]] \in S
      BY <2>1, LenProperties
    <3>2. t \in [1..n -> S]
      BY <2>1, <3>1
    <3> QED
      BY <1>3, <3>2
  <2>3. DOMAIN t = 1..n /\ \A i \in 1..n : t[i] = s[p[i]]
    BY <2>1
  <2>4. Items(t) = {s[k] : k \in {p[i] : i \in 1..n}}
    BY <2>3 DEF Items
  <2> QED
    BY <2>2, <2>4
<1>5. Items(t) = Items(s) \cap K
  BY <1>2, <1>4 DEF Items
<1>6. \A i, j \in 1..n : i < j => p[i] # p[j]
  <2> SUFFICES ASSUME NEW i \in 1..n, NEW j \in 1..n, i < j PROVE p[i] # p[j]
    OBVIOUS
  <2>1. p[i] < p[j] /\ p[i] \in Int /\ p[j] \in Int
    BY <1>2, <1>3
  <2> QED
    BY <2>1
<1>7. Injective(s) => Injective(t)
  <2>1. n \in Nat /\ p \in [1..n -> DOMAIN s] /\ t = [i \in 1..n |-> s[p[i]]]
    BY <1>2, <1>3
  <2> QED
    BY <1>6, <2>1, PickedOnce, Zenon
<1> QED
  BY <1>3, <1>4, <1>5, <1>7

(* Filtering keeps the order of what it keeps.                             *)
LEMMA KeepingOrder ==
  ASSUME NEW S, NEW s \in Seq(S), NEW K, NEW t \in Keeping(s, K),
         NEW i \in DOMAIN t, NEW j \in DOMAIN t, i < j
  PROVE  \E k, l \in DOMAIN s : k < l /\ s[k] = t[i] /\ s[l] = t[j]
<1>1. PICK n \in 0..Len(s) : \E p \in [1..n -> DOMAIN s] :
        /\ t = [m \in 1..n |-> s[p[m]]]
        /\ \A x, y \in 1..n : x < y => p[x] < p[y]
  BY DEF Keeping
<1>2. PICK p \in [1..n -> DOMAIN s] :
        /\ t = [m \in 1..n |-> s[p[m]]]
        /\ \A x, y \in 1..n : x < y => p[x] < p[y]
  BY <1>1
<1>3. i \in 1..n /\ j \in 1..n
  BY <1>2
<1>4. p[i] \in DOMAIN s /\ p[j] \in DOMAIN s /\ p[i] < p[j]
  BY <1>2, <1>3
<1> QED
  BY <1>2, <1>3, <1>4

(* Cutting a list in two parts its items, if none is repeated.             *)
LEMMA CutParts ==
  ASSUME NEW S, NEW s \in Seq(S), NEW n \in 0..Len(s), Injective(s)
  PROVE  /\ SubSeq(s, 1, n) \in Seq(S)
         /\ Len(SubSeq(s, 1, n)) = n
         /\ Injective(SubSeq(s, 1, n))
         /\ SubSeq(s, n + 1, Len(s)) \in Seq(S)
         /\ Injective(SubSeq(s, n + 1, Len(s)))
         /\ Items(SubSeq(s, 1, n)) \cup Items(SubSeq(s, n + 1, Len(s))) = Items(s)
         /\ Items(SubSeq(s, 1, n)) \cap Items(SubSeq(s, n + 1, Len(s))) = {}
<1> DEFINE t == SubSeq(s, 1, n)
           u == SubSeq(s, n + 1, Len(s))
<1>1. Len(s) \in Nat /\ n \in Nat /\ n <= Len(s) /\ DOMAIN s = 1..Len(s)
      /\ \A i \in 1..Len(s) : s[i] \in S
  BY LenProperties
<1>2. t \in Seq(S) /\ Len(t) = n /\ DOMAIN t = 1..n /\ \A i \in 1..n : t[i] = s[i]
  OBVIOUS
<1>3. u \in Seq(S) /\ Len(u) = Len(s) - n /\ DOMAIN u = 1..(Len(s) - n)
      /\ \A i \in 1..(Len(s) - n) : u[i] = s[n + i]
  OBVIOUS
<1> HIDE DEF t, u
<1>4. Injective(t)
  BY <1>1, <1>2 DEF Injective
<1>5. Injective(u)
  <2> SUFFICES ASSUME NEW i \in 1..(Len(s) - n), NEW j \in 1..(Len(s) - n), u[i] = u[j]
               PROVE  i = j
    BY <1>3 DEF Injective
  <2>1. n + i \in DOMAIN s /\ n + j \in DOMAIN s
    BY <1>1
  <2>2. u[i] = s[n + i] /\ u[j] = s[n + j]
    BY <1>3
  <2>3. n + i = n + j
    BY <2>1, <2>2 DEF Injective
  <2> QED
    BY <1>1, <2>3
<1>6. Items(t) = {s[i] : i \in 1..n}
  BY <1>2 DEF Items
<1>7. Items(u) = {s[i] : i \in (n + 1)..Len(s)}
  <2>1. \A i \in 1..(Len(s) - n) : n + i \in (n + 1)..Len(s)
    BY <1>1
  <2>2. \A i \in (n + 1)..Len(s) : i - n \in 1..(Len(s) - n) /\ n + (i - n) = i
    BY <1>1
  <2>3. ASSUME NEW x \in Items(u) PROVE x \in {s[i] : i \in (n + 1)..Len(s)}
    BY <1>3, <2>1 DEF Items
  <2>4. ASSUME NEW i \in (n + 1)..Len(s) PROVE s[i] \in Items(u)
    <3>1. u[i - n] = s[i]
      BY <1>3, <2>2
    <3> QED
      BY <1>3, <2>2, <3>1 DEF Items
  <2> QED
    BY <2>3, <2>4
<1>8. Items(t) \cup Items(u) = Items(s)
  <2>1. 1..Len(s) = (1..n) \cup ((n + 1)..Len(s))
    BY <1>1
  <2> QED
    BY <1>1, <1>6, <1>7, <2>1 DEF Items
<1>9. Items(t) \cap Items(u) = {}
  <2> SUFFICES ASSUME NEW i \in 1..n, NEW j \in (n + 1)..Len(s), s[i] = s[j] PROVE FALSE
    BY <1>6, <1>7
  <2>1. i \in DOMAIN s /\ j \in DOMAIN s /\ i # j
    BY <1>1
  <2> QED
    BY <2>1 DEF Injective
<1> QED
  BY <1>2, <1>3, <1>4, <1>5, <1>8, <1>9 DEF t, u

(* The items of a list over S are in S.                                    *)
LEMMA ItemsAmong ==
  ASSUME NEW S, NEW s \in Seq(S)
  PROVE  Items(s) \subseteq S
<1>1. DOMAIN s = 1..Len(s) /\ \A i \in 1..Len(s) : s[i] \in S
  BY LenProperties, ElementOfSeq
<1> QED
  BY <1>1 DEF Items

(* Joining two lists joins their items, and repeats none if they share     *)
(* none.                                                                   *)
LEMMA JoinItems ==
  ASSUME NEW S, NEW s \in Seq(S), NEW t \in Seq(S)
  PROVE  /\ s \o t \in Seq(S)
         /\ Len(s \o t) = Len(s) + Len(t)
         /\ Items(s \o t) = Items(s) \cup Items(t)
         /\ Injective(s) /\ Injective(t) /\ Items(s) \cap Items(t) = {}
              => Injective(s \o t)
<1> DEFINE u == s \o t
<1>1. Len(s) \in Nat /\ Len(t) \in Nat /\ DOMAIN s = 1..Len(s) /\ DOMAIN t = 1..Len(t)
  BY LenProperties
<1>2. /\ u \in Seq(S) /\ Len(u) = Len(s) + Len(t)
      /\ DOMAIN u = 1..(Len(s) + Len(t))
      /\ \A i \in 1..(Len(s) + Len(t)) : u[i] = IF i <= Len(s) THEN s[i] ELSE t[i - Len(s)]
  BY ConcatProperties, <1>1
<1> HIDE DEF u
<1>3. \A i \in DOMAIN u : \/ i \in DOMAIN s /\ i <= Len(s) /\ u[i] = s[i]
                          \/ i - Len(s) \in DOMAIN t /\ i > Len(s) /\ u[i] = t[i - Len(s)]
  BY <1>1, <1>2
<1>4. \A i \in DOMAIN s : i \in DOMAIN u /\ u[i] = s[i]
  BY <1>1, <1>2
<1>5. \A i \in DOMAIN t : i + Len(s) \in DOMAIN u /\ u[i + Len(s)] = t[i]
  BY <1>1, <1>2
<1>6. Items(u) \subseteq Items(s) \cup Items(t)
  BY <1>3 DEF Items
<1>7. Items(s) \cup Items(t) \subseteq Items(u)
  BY <1>4, <1>5 DEF Items
<1>8. ASSUME Injective(s), Injective(t), Items(s) \cap Items(t) = {} PROVE Injective(u)
  <2> SUFFICES ASSUME NEW i \in DOMAIN u, NEW j \in DOMAIN u, u[i] = u[j] PROVE i = j
    BY DEF Injective
  <2>1. i \in Int /\ j \in Int
    BY <1>2
  <2>2. CASE i <= Len(s) /\ j <= Len(s)
    BY <1>1, <1>3, <1>8, <2>1, <2>2 DEF Injective
  <2>3. CASE i > Len(s) /\ j > Len(s)
    <3>1. i - Len(s) = j - Len(s)
      BY <1>1, <1>3, <1>8, <2>1, <2>3 DEF Injective
    <3> QED
      BY <1>1, <2>1, <3>1
  <2>4. CASE i <= Len(s) /\ j > Len(s)
    BY <1>1, <1>3, <1>8, <2>1, <2>4 DEF Items
  <2>5. CASE i > Len(s) /\ j <= Len(s)
    BY <1>1, <1>3, <1>8, <2>1, <2>5 DEF Items
  <2> QED
    BY <1>1, <2>1, <2>2, <2>3, <2>4, <2>5
<1> QED
  BY <1>2, <1>6, <1>7, <1>8 DEF u

(* The empty list has no items.                                            *)
LEMMA NoItems == Items(<<>>) = {} /\ Injective(<<>>)
BY DEF Items, Injective

(* A list of one element.                                                  *)
LEMMA OneItem ==
  ASSUME NEW x
  PROVE  Items(<<x>>) = {x} /\ Injective(<<x>>)
BY DEF Items, Injective

(* A list of two different elements.                                       *)
LEMMA TwoItems ==
  ASSUME NEW x, NEW y, x # y
  PROVE  Items(<<x, y>>) = {x, y} /\ Injective(<<x, y>>)
<1>1. DOMAIN <<x, y>> = {1, 2} /\ <<x, y>>[1] = x /\ <<x, y>>[2] = y
  OBVIOUS
<1> QED
  BY <1>1 DEF Items, Injective

-----------------------------------------------------------------------------
(* Natural numbers and functions defined step by step.                     *)

(* The order of the natural numbers, as a relation.                        *)
LessThan == {pair \in Nat \X Nat : pair[1] < pair[2]}

(* A set of natural numbers that is not empty has a least element.         *)
LEMMA LeastNatural ==
  ASSUME NEW T \in SUBSET Nat, T # {}
  PROVE  \E x \in T : \A y \in T : x <= y
<1>1. IsWellFoundedOn(LessThan, Nat)
  BY NatLessThanWellFounded DEF OpToRel, LessThan
<1>2. PICK x \in T : \A y \in T : <<y, x>> \notin LessThan
  BY <1>1, WFMin
<1>3. \A y \in T : ~(y < x)
  BY <1>2 DEF LessThan
<1> QED
  BY <1>3

(* If it is bounded, it has a greatest one.                                *)
LEMMA GreatestNatural ==
  ASSUME NEW T \in SUBSET Nat, T # {}, NEW n \in Nat, \A x \in T : x <= n
  PROVE  \E x \in T : \A y \in T : y <= x
<1> DEFINE U == {k \in Nat : \A y \in T : y <= k}
<1>1. PICK k \in U : \A j \in U : k <= j
  <2>1. U \in SUBSET Nat /\ n \in U
    OBVIOUS
  <2> QED
    BY <2>1, LeastNatural
<1>2. k \in T
  <2> SUFFICES ASSUME k \notin T PROVE FALSE
    OBVIOUS
  <2>1. \A y \in T : y <= k /\ y # k /\ y \in Nat
    OBVIOUS
  <2>2. k \in Nat /\ k - 1 \in Nat
    <3>1. PICK y \in T : TRUE
      OBVIOUS
    <3>2. y <= k /\ y # k /\ y \in Nat /\ k \in Nat
      BY <2>1, <3>1
    <3> QED
      BY <3>2
  <2>3. \A y \in T : y <= k - 1
    BY <2>1, <2>2
  <2>4. k - 1 \in U
    BY <2>2, <2>3
  <2> QED
    BY <1>1, <2>2, <2>4
<1> QED
  BY <1>2

(* Induction up to n on a set instead of a predicate.                      *)
LEMMA InductionOnSets ==
  ASSUME NEW S, NEW n \in Nat, 0 \in S, \A i \in 0 .. n - 1 : i \in S => i + 1 \in S
  PROVE  0 .. n \subseteq S
<1> SUFFICES ASSUME ~(0 .. n \subseteq S) PROVE FALSE
  OBVIOUS
<1> DEFINE T == (0 .. n) \ S
<1>1. PICK x \in T : \A y \in T : x <= y
  <2>1. T \in SUBSET Nat /\ T # {}
    OBVIOUS
  <2> QED
    BY <2>1, LeastNatural
<1>2. x # 0 /\ x - 1 \in 0 .. n - 1 /\ x - 1 \in S
  BY <1>1
<1>3. (x - 1) + 1 \in S
  BY <1>2
<1> QED
  BY <1>1, <1>3

(* A function that is defined from one number to the next exists.          *)
Steps(f, n, base, step) ==
  /\ f[0] = base
  /\ \A i \in 1 .. n : f[i] = step[<<i, f[i - 1]>>]

(* A base and a step define a function on 0 .. n.                          *)
LEMMA StepwiseFunction ==
  ASSUME NEW n \in Nat, NEW V, NEW base \in V, NEW step \in [(1 .. n) \X V -> V]
  PROVE  \E f \in [0 .. n -> V] : Steps(f, n, base, step)
<1> DEFINE S == {k \in 0 .. n : \E f \in [0 .. k -> V] : Steps(f, k, base, step)}
<1>1. 0 \in S
  <2> DEFINE f == [i \in 0 .. 0 |-> base]
  <2>1. f \in [0 .. 0 -> V] /\ Steps(f, 0, base, step)
    BY DEF Steps
  <2> QED
    BY <2>1
<1>2. ASSUME NEW i \in 0 .. n - 1, i \in S PROVE i + 1 \in S
  <2>1. PICK f \in [0 .. i -> V] : Steps(f, i, base, step)
    BY <1>2
  <2> DEFINE g == [j \in 0 .. i + 1 |-> IF j <= i THEN f[j] ELSE step[<<i + 1, f[i]>>]]
  <2>2. step[<<i + 1, f[i]>>] \in V
    OBVIOUS
  <2>3. g \in [0 .. i + 1 -> V]
    BY <2>2
  <2>4. g[0] = base
    BY <2>1 DEF Steps
  <2>5. ASSUME NEW j \in 1 .. i + 1 PROVE g[j] = step[<<j, g[j - 1]>>]
    <3>1. CASE j = i + 1
      <4>1. g[i + 1] = step[<<i + 1, f[i]>>] /\ g[i] = f[i]
        OBVIOUS
      <4>2. j - 1 = i
        BY <3>1
      <4> HIDE DEF g
      <4> QED
        BY <3>1, <4>1, <4>2
    <3>2. CASE j # i + 1
      BY <3>2, <2>1 DEF Steps
    <3> QED
      BY <3>1, <3>2
  <2>6. Steps(g, i + 1, base, step)
    BY <2>4, <2>5 DEF Steps
  <2> HIDE DEF g
  <2> QED
    BY <2>3, <2>6
<1> HIDE DEF S
<1>3. 0 .. n \subseteq S
  BY <1>1, <1>2, InductionOnSets
<1> QED
  BY <1>3 DEF S

(* A function that is defined by jumps forward, from one number to a later *)
(* one until one where it stops, exists; and it is one of the values at    *)
(* the stops.                                                              *)
JumpsForward(n, V, Stops, at, next) ==
  \A o \in 0 .. n : IF o \in Stops THEN at[o] \in V ELSE next[o] \in o + 1 .. n

FollowsJumps(f, n, Stops, at, next) ==
  \A o \in 0 .. n : f[o] = IF o \in Stops THEN at[o] ELSE f[next[o]]

(* So do steps that look ahead to any later place.                         *)
LEMMA JumpingFunction ==
  ASSUME NEW n \in Nat, NEW V, NEW Stops, NEW at, NEW next, JumpsForward(n, V, Stops, at, next)
  PROVE  \E f \in [0 .. n -> V] : FollowsJumps(f, n, Stops, at, next)
<1> USE DEF JumpsForward, FollowsJumps
<1> DEFINE From(f, m) == \A o \in m .. n : f[o] = IF o \in Stops THEN at[o] ELSE f[next[o]]
           S == {k \in 0 .. n : \E f \in [n - k .. n -> V] : From(f, n - k)}
<1>1. 0 \in S
  <2>1. n - 0 .. n = {n} /\ n \in Stops
    BY SMT
  <2> DEFINE f == [o \in n - 0 .. n |-> at[o]]
  <2>2. f \in [n - 0 .. n -> V] /\ From(f, n - 0)
    BY <2>1
  <2>3. 0 \in 0 .. n
    OBVIOUS
  <2> HIDE DEF f
  <2> QED
    BY <2>2, <2>3
<1>2. ASSUME NEW k \in 0 .. n - 1, k \in S PROVE k + 1 \in S
  <2>1. PICK f \in [n - k .. n -> V] : From(f, n - k)
    BY <1>2
  <2> DEFINE m == n - (k + 1)
             x == IF m \in Stops THEN at[m] ELSE f[next[m]]
             g == [o \in m .. n |-> IF o = m THEN x ELSE f[o]]
  <2>2. m \in 0 .. n /\ m + 1 = n - k /\ m \notin n - k .. n /\ m .. n = {m} \cup (n - k .. n)
    OBVIOUS
  <2> HIDE DEF m
  <2>3. x \in V
    BY <2>2
  <2> HIDE DEF x
  <2>4. g \in [m .. n -> V]
    BY <2>2, <2>3
  <2>5. \A o \in n - k .. n : g[o] = f[o]
    BY <2>2
  <2>6. g[m] = x
    BY <2>2
  <2>7. \A o \in m .. n : o \notin Stops => next[o] \in n - k .. n
    BY <2>2
  <2> HIDE DEF g
  <2>8. From(g, m)
    <3> SUFFICES ASSUME NEW o \in m .. n
                 PROVE  g[o] = IF o \in Stops THEN at[o] ELSE g[next[o]]
      OBVIOUS
    <3>1. CASE o = m
      BY <3>1, <2>5, <2>6, <2>7 DEF x
    <3>2. CASE o # m
      <4>1. o \in n - k .. n
        BY <3>2, <2>2
      <4> QED
        BY <4>1, <2>1, <2>5, <2>7
    <3> QED
      BY <3>1, <3>2
  <2> QED
    BY <2>4, <2>8 DEF m
<1> HIDE DEF S
<1>3. 0 .. n \subseteq S
  BY <1>1, <1>2, InductionOnSets
<1>4. n \in S
  BY <1>3
<1>5. PICK f \in [n - n .. n -> V] : From(f, n - n)
  BY <1>4 DEF S
<1>6. n - n = 0
  OBVIOUS
<1> QED
  BY <1>5, <1>6

(* Every such function has its values in V.                                *)
LEMMA JumpingValue ==
  ASSUME NEW n \in Nat, NEW V, NEW Stops, NEW at, NEW next, NEW f,
         JumpsForward(n, V, Stops, at, next), FollowsJumps(f, n, Stops, at, next)
  PROVE  \A o \in 0 .. n : f[o] \in V
<1> USE DEF JumpsForward, FollowsJumps
<1> DEFINE S == {k \in 0 .. n : \A o \in n - k .. n : f[o] \in V}
<1>1. 0 \in S
  <2>1. n - 0 .. n = {n} /\ n \in Stops
    BY SMT
  <2> QED
    BY <2>1
<1>2. ASSUME NEW k \in 0 .. n - 1, k \in S PROVE k + 1 \in S
  <2> SUFFICES ASSUME NEW o \in n - (k + 1) .. n PROVE f[o] \in V
    OBVIOUS
  <2>1. \A i \in n - k .. n : f[i] \in V
    BY <1>2
  <2>2. o \in 0 .. n /\ (o \notin Stops => next[o] \in n - k .. n)
    OBVIOUS
  <2> QED
    BY <2>1, <2>2
<1> HIDE DEF S
<1>3. n \in S
  BY <1>1, <1>2, InductionOnSets
<1>4. n - n = 0
  OBVIOUS
<1> QED
  BY <1>3, <1>4 DEF S

(* Two functions with one base and one step agree.                         *)
LEMMA StepwiseValues ==
  ASSUME NEW n \in Nat, NEW base, NEW step, NEW f, NEW g,
         Steps(f, n, base, step), Steps(g, n, base, step)
  PROVE  \A i \in 0 .. n : f[i] = g[i]
<1> DEFINE S == {i \in 0 .. n : f[i] = g[i]}
<1>1. 0 \in S
  BY DEF Steps
<1>2. ASSUME NEW i \in 0 .. n - 1, i \in S PROVE i + 1 \in S
  <2>1. i + 1 \in 1 .. n /\ (i + 1) - 1 = i /\ i + 1 \in 0 .. n
    OBVIOUS
  <2>2. f[i + 1] = step[<<i + 1, f[i]>>] /\ g[i + 1] = step[<<i + 1, g[i]>>]
    BY <2>1 DEF Steps
  <2> QED
    BY <1>2, <2>1, <2>2
<1> HIDE DEF S
<1>3. 0 .. n \subseteq S
  BY <1>1, <1>2, InductionOnSets
<1> QED
  BY <1>3 DEF S

-----------------------------------------------------------------------------
(* Sequences that are joined from sequences.                               *)

(* The elements of two joined sequences.                                   *)
LEMMA JoinedElements ==
  ASSUME NEW S, NEW a \in Seq(S), NEW b \in Seq(S)
  PROVE  /\ a \o b \in Seq(S)
         /\ Len(a \o b) = Len(a) + Len(b)
         /\ \A i \in 1 .. Len(a) : (a \o b)[i] = a[i]
         /\ \A j \in 1 .. Len(b) : (a \o b)[Len(a) + j] = b[j]
OBVIOUS

(* What FlattenSeq joins, one sequence after the other.                    *)
Joining(f, seqs) ==
  /\ f[0] = << >>
  /\ \A i \in 1 .. Len(seqs) : f[i] = f[i - 1] \o seqs[i]

(* FlattenSeq is the last of the joined prefixes.                          *)
LEMMA FlatteningJoins ==
  ASSUME NEW S, NEW seqs \in Seq(Seq(S))
  PROVE  \E f \in [0 .. Len(seqs) -> Seq(S)] : /\ Joining(f, seqs)
                                               /\ FlattenSeq(seqs) = f[Len(seqs)]
<1> DEFINE n == Len(seqs)
           V == Seq(S)
           base == << >>
           step == [pair \in (1 .. n) \X V |-> pair[2] \o seqs[pair[1]]]
           IsFlat(f) == f = [i \in 1 .. n |-> IF i = 1 THEN seqs[i] ELSE f[i - 1] \o seqs[i]]
           flat == CHOOSE f : IsFlat(f)
<1>1. n \in Nat /\ base \in V /\ \A i \in 1 .. n : seqs[i] \in V
  OBVIOUS
<1>2. \A v, w \in V : v \o w \in V
  OBVIOUS
<1>3. \A v \in V : base \o v = v
  OBVIOUS
<1> HIDE DEF n, V, base
<1>4. step \in [(1 .. n) \X V -> V] /\ \A i \in 1 .. n, v \in V : step[<<i, v>>] = v \o seqs[i]
  BY <1>1, <1>2
<1> HIDE DEF step
<1>5. PICK g \in [0 .. n -> V] : Steps(g, n, base, step)
  BY <1>1, <1>4, StepwiseFunction
<1>6. g[0] = base /\ \A i \in 1 .. n : g[i] = g[i - 1] \o seqs[i]
  <2>1. \A i \in 1 .. n : g[i - 1] \in V
    BY <1>1
  <2> QED
    BY <1>4, <1>5, <2>1 DEF Steps
<1> DEFINE f == [i \in 1 .. n |-> g[i]]
<1>7. IsFlat(f)
  <2> SUFFICES ASSUME NEW i \in 1 .. n
               PROVE  g[i] = IF i = 1 THEN seqs[i] ELSE f[i - 1] \o seqs[i]
    OBVIOUS
  <2>1. CASE i = 1
    <3>1. i - 1 = 0
      BY <2>1
    <3> QED
      BY <1>1, <1>3, <1>6, <2>1, <3>1
  <2>2. CASE i # 1
    <3>1. i - 1 \in 1 .. n
      BY <1>1, <2>2
    <3> QED
      BY <1>6, <2>2, <3>1
  <2> QED
    BY <2>1, <2>2
<1> HIDE DEF f
<1>8. IsFlat(flat)
  <2> HIDE DEF IsFlat
  <2> QED
    BY <1>7
<1>9. flat = [i \in 1 .. n |-> IF i = 1 THEN seqs[i] ELSE flat[i - 1] \o seqs[i]]
  BY <1>8
<1>10. n # 0 => FlattenSeq(seqs) = flat[n]
  BY DEF FlattenSeq, n
<1> HIDE DEF flat, IsFlat
<1> DEFINE P == {i \in 0 .. n : i = 0 \/ flat[i] = g[i]}
<1>11. 0 \in P
  BY <1>1
<1>12. ASSUME NEW i \in 0 .. n - 1, i \in P PROVE i + 1 \in P
  <2>1. i + 1 \in 1 .. n /\ (i + 1) - 1 = i /\ (i + 1 = 1 <=> i = 0) /\ i + 1 \in 0 .. n
    BY <1>1
  <2>2. flat[i + 1] = IF i + 1 = 1 THEN seqs[i + 1] ELSE flat[i] \o seqs[i + 1]
    BY <1>9, <2>1
  <2>3. g[i + 1] = g[i] \o seqs[i + 1]
    BY <1>6, <2>1
  <2>4. CASE i = 0
    BY <1>1, <1>3, <1>6, <2>1, <2>2, <2>3, <2>4
  <2>5. CASE i # 0
    BY <1>12, <2>1, <2>2, <2>3, <2>5
  <2> QED
    BY <2>4, <2>5
<1> HIDE DEF P
<1>13. 0 .. n \subseteq P
  BY <1>1, <1>11, <1>12, InductionOnSets
<1>14. n # 0 => flat[n] = g[n]
  BY <1>1, <1>13 DEF P
<1>15. n = 0 => FlattenSeq(seqs) = g[n]
  <2> SUFFICES ASSUME n = 0 PROVE seqs = base
    BY <1>6 DEF FlattenSeq, n
  <2> QED
    BY DEF n, base
<1>16. FlattenSeq(seqs) = g[n]
  BY <1>10, <1>14, <1>15
<1>17. Joining(g, seqs)
  BY <1>6 DEF Joining, n, base
<1> QED
  BY <1>16, <1>17 DEF n, V

(* Where each of the joined sequences starts, and its elements there.      *)
Starts(start, seqs) ==
  /\ start \in [0 .. Len(seqs) -> Nat]
  /\ start[0] = 0
  /\ \A i \in 1 .. Len(seqs) : start[i] = start[i - 1] + Len(seqs[i])

PlacedUpTo(k, joined, start, seqs) ==
  /\ Len(joined) = start[k]
  /\ \A i \in 1 .. k :
       /\ start[i] <= start[k]
       /\ \A j \in 1 .. Len(seqs[i]) : joined[start[i - 1] + j] = seqs[i][j]

(* Where the elements of one of the sequences start and end.               *)
LEMMA StartsAre ==
  ASSUME NEW S, NEW seqs \in Seq(Seq(S)), NEW start, Starts(start, seqs),
         NEW i \in 1 .. Len(seqs)
  PROVE  /\ start[i] \in Nat /\ start[i - 1] \in Nat
         /\ seqs[i] \in Seq(S) /\ Len(seqs[i]) \in Nat
         /\ start[i] = start[i - 1] + Len(seqs[i])
<1> DEFINE n == Len(seqs)
<1>1. n \in Nat /\ i \in 1 .. n
  OBVIOUS
<1>2. start \in [0 .. n -> Nat] /\ start[i] = start[i - 1] + Len(seqs[i])
  BY DEF Starts
<1>3. seqs[i] \in Seq(S) /\ Len(seqs[i]) \in Nat
  OBVIOUS
<1> HIDE DEF n
<1>4. i \in 0 .. n /\ i - 1 \in 0 .. n
  BY <1>1
<1> QED
  BY <1>2, <1>3, <1>4

(* One more sequence is placed behind the others.                          *)
LEMMA OneMorePlaced ==
  ASSUME NEW S, NEW seqs \in Seq(Seq(S)), NEW start, Starts(start, seqs),
         NEW k \in 0 .. Len(seqs) - 1, NEW joined \in Seq(S),
         PlacedUpTo(k, joined, start, seqs)
  PROVE  PlacedUpTo(k + 1, joined \o seqs[k + 1], start, seqs)
<1> DEFINE s == seqs[k + 1]
           more == joined \o s
           before == start[k]
           after == start[k + 1]
<1>1. k \in Nat /\ k + 1 \in 1 .. Len(seqs) /\ (k + 1) - 1 = k
      /\ \A i \in 1 .. k : i \in 1 .. Len(seqs)
  OBVIOUS
<1>2. before \in Nat /\ after \in Nat /\ after = before + Len(s) /\ s \in Seq(S) /\ Len(s) \in Nat
  <2> DEFINE i == k + 1
  <2>1. i \in 1 .. Len(seqs) /\ i - 1 = k
    BY <1>1
  <2> HIDE DEF i
  <2>2. start[i] \in Nat /\ start[i - 1] \in Nat /\ seqs[i] \in Seq(S) /\ Len(seqs[i]) \in Nat
        /\ start[i] = start[i - 1] + Len(seqs[i])
    BY <2>1, StartsAre
  <2> QED
    BY <2>1, <2>2 DEF i
<1>3. Len(joined) = before
  BY DEF PlacedUpTo
<1> HIDE DEF s, before, after
<1>4. /\ Len(more) = after
      /\ \A i \in 1 .. before : more[i] = joined[i]
      /\ \A j \in 1 .. Len(s) : more[before + j] = s[j]
  <2>1. /\ Len(more) = Len(joined) + Len(s)
        /\ \A i \in 1 .. Len(joined) : more[i] = joined[i]
        /\ \A j \in 1 .. Len(s) : more[Len(joined) + j] = s[j]
    BY <1>2, JoinedElements
  <2> HIDE DEF more
  <2> QED
    BY <1>2, <1>3, <2>1
<1> HIDE DEF more
<1>5. ASSUME NEW i \in 1 .. k + 1
      PROVE  /\ start[i] <= after
             /\ \A j \in 1 .. Len(seqs[i]) : more[start[i - 1] + j] = seqs[i][j]
  <2>1. CASE i = k + 1
    <3>1. start[i] = after /\ start[i - 1] = before /\ seqs[i] = s
      BY <1>1, <2>1 DEF after, before, s
    <3> QED
      BY <1>2, <1>4, <3>1
  <2>2. CASE i # k + 1
    <3>1. i \in 1 .. k /\ i \in 1 .. Len(seqs)
      BY <1>1, <2>2
    <3> DEFINE from == start[i - 1] to == start[i] part == seqs[i]
    <3>2. /\ to <= before
          /\ \A j \in 1 .. Len(part) : joined[from + j] = part[j]
      BY <3>1 DEF PlacedUpTo, before
    <3>3. from \in Nat /\ to \in Nat /\ to = from + Len(part) /\ Len(part) \in Nat
      BY <3>1, StartsAre
    <3> HIDE DEF from, to, part
    <3>4. to <= after /\ \A j \in 1 .. Len(part) : from + j \in 1 .. before
      <4> DEFINE m == Len(part) l == Len(s)
      <4>1. /\ from \in Nat /\ m \in Nat /\ to = from + m /\ to <= before
            /\ before \in Nat /\ l \in Nat /\ after = before + l
        BY <1>2, <3>2, <3>3
      <4> HIDE DEF m, l
      <4>2. to <= after /\ \A j \in 1 .. m : from + j \in 1 .. before
        BY <4>1
      <4> QED
        BY <4>2 DEF m
    <3>5. \A j \in 1 .. Len(part) : more[from + j] = part[j]
      BY <1>4, <3>2, <3>4
    <3> QED
      BY <3>4, <3>5 DEF from, to, part
  <2> QED
    BY <2>1, <2>2
<1> QED
  BY <1>4, <1>5 DEF PlacedUpTo, after, more, s

(* FlattenSeq places each sequence behind those before it.                 *)
LEMMA FlatteningPlaces ==
  ASSUME NEW S, NEW seqs \in Seq(Seq(S)), NEW start, Starts(start, seqs)
  PROVE  /\ FlattenSeq(seqs) \in Seq(S)
         /\ PlacedUpTo(Len(seqs), FlattenSeq(seqs), start, seqs)
<1> DEFINE n == Len(seqs)
           Placed(k, joined) == PlacedUpTo(k, joined, start, seqs)
<1>1. n \in Nat
  OBVIOUS
<1>2. PICK f \in [0 .. n -> Seq(S)] : Joining(f, seqs) /\ FlattenSeq(seqs) = f[n]
  BY FlatteningJoins
<1>3. f[0] = << >> /\ \A i \in 1 .. n : f[i] = f[i - 1] \o seqs[i]
  BY <1>2 DEF Joining
<1>4. ASSUME NEW k \in 0 .. n - 1, NEW joined \in Seq(S), Placed(k, joined)
      PROVE  Placed(k + 1, joined \o seqs[k + 1])
  BY <1>4, OneMorePlaced
<1> DEFINE none == << >>
           z == 0
<1>5. Len(none) = 0 /\ start[0] = 0
  BY DEF Starts
<1>6. z \in Nat /\ 1 .. z = {} /\ Len(none) = start[z]
  BY <1>5
<1>7. Placed(z, none)
  <2> HIDE DEF none, z
  <2> QED
    BY <1>6 DEF PlacedUpTo
<1> HIDE DEF n, Placed, none, z
<1> DEFINE P == {k \in 0 .. n : Placed(k, f[k])}
<1>8. 0 \in P
  BY <1>1, <1>3, <1>7 DEF none, z
<1>9. ASSUME NEW k \in 0 .. n - 1, k \in P PROVE k + 1 \in P
  <2>1. k + 1 \in 1 .. n /\ (k + 1) - 1 = k /\ k + 1 \in 0 .. n /\ k \in 0 .. n
    BY <1>1
  <2>2. f[k + 1] = f[k] \o seqs[k + 1] /\ f[k] \in Seq(S)
    BY <1>3, <2>1
  <2> QED
    BY <1>4, <1>9, <2>1, <2>2
<1> HIDE DEF P
<1>10. 0 .. n \subseteq P
  BY <1>1, <1>8, <1>9, InductionOnSets
<1>11. Placed(n, f[n]) /\ f[n] \in Seq(S)
  BY <1>1, <1>10 DEF P
<1> QED
  BY <1>2, <1>11 DEF n, Placed

(* There are such starts.                                                  *)
LEMMA StartsExist ==
  ASSUME NEW S, NEW seqs \in Seq(Seq(S))
  PROVE  \E start : Starts(start, seqs)
<1> DEFINE n == Len(seqs)
           step == [pair \in (1 .. n) \X Nat |-> pair[2] + Len(seqs[pair[1]])]
           zero == 0
<1>1. n \in Nat /\ zero \in Nat
  OBVIOUS
<1>2. step \in [(1 .. n) \X Nat -> Nat]
      /\ \A i \in 1 .. n, v \in Nat : step[<<i, v>>] = v + Len(seqs[i])
  OBVIOUS
<1> HIDE DEF n, step, zero
<1>3. PICK g \in [0 .. n -> Nat] : Steps(g, n, zero, step)
  BY <1>1, <1>2, StepwiseFunction
<1>4. \A i \in 1 .. n : g[i] = g[i - 1] + Len(seqs[i])
  <2>1. \A i \in 1 .. n : g[i - 1] \in Nat
    BY <1>1
  <2> QED
    BY <1>2, <1>3, <2>1 DEF Steps
<1>5. g[0] = 0
  BY <1>3 DEF Steps, zero
<1>6. Starts(g, seqs)
  BY <1>4, <1>5 DEF Starts, n
<1> QED
  BY <1>6

(* The recursion has one solution, so any solution ends in FlattenSeq.     *)
LEMMA JoiningIsFlattening ==
  ASSUME NEW S, NEW seqs \in Seq(Seq(S)), NEW f, Joining(f, seqs)
  PROVE  f[Len(seqs)] = FlattenSeq(seqs)
<1> DEFINE n == Len(seqs)
           P(g) == {i \in 0 .. n : f[i] = g[i]}
<1>1. PICK g \in [0 .. n -> Seq(S)] : Joining(g, seqs) /\ FlattenSeq(seqs) = g[n]
  BY FlatteningJoins
<1>2. n \in Nat /\ f[0] = g[0]
      /\ \A i \in 1 .. n : f[i] = f[i - 1] \o seqs[i] /\ g[i] = g[i - 1] \o seqs[i]
  <2>1. n \in Nat
    OBVIOUS
  <2>2. f[0] = << >> /\ \A i \in 1 .. n : f[i] = f[i - 1] \o seqs[i]
    BY DEF Joining
  <2>3. g[0] = << >> /\ \A i \in 1 .. n : g[i] = g[i - 1] \o seqs[i]
    BY <1>1 DEF Joining
  <2> HIDE DEF n
  <2> QED
    BY <2>1, <2>2, <2>3
<1> HIDE DEF n
<1>3. 0 \in P(g)
  BY <1>2
<1>4. ASSUME NEW i \in 0 .. n - 1, i \in P(g) PROVE i + 1 \in P(g)
  <2>1. i + 1 \in 1 .. n /\ (i + 1) - 1 = i /\ i + 1 \in 0 .. n
    BY <1>2
  <2> QED
    BY <1>2, <1>4, <2>1
<1> HIDE DEF P
<1>5. 0 .. n \subseteq P(g)
  BY <1>2, <1>3, <1>4, InductionOnSets
<1>6. n \in P(g)
  BY <1>2, <1>5
<1> QED
  BY <1>1, <1>6 DEF P, n

(* The flattening of one sequence more.                                    *)
LEMMA FlattenOneMore ==
  ASSUME NEW S, NEW seqs \in Seq(Seq(S)), NEW s \in Seq(S)
  PROVE  FlattenSeq(Append(seqs, s)) = FlattenSeq(seqs) \o s
<1> DEFINE more == Append(seqs, s)
           n == Len(seqs)
<1>1. /\ more \in Seq(Seq(S)) /\ Len(more) = n + 1 /\ n \in Nat
      /\ more[n + 1] = s /\ \A i \in 1 .. n : more[i] = seqs[i]
  OBVIOUS
<1> HIDE DEF more
<1>2. PICK f \in [0 .. Len(more) -> Seq(S)] : Joining(f, more) /\ FlattenSeq(more) = f[Len(more)]
  BY <1>1, FlatteningJoins
<1>3. f[0] = << >> /\ \A i \in 1 .. n + 1 : f[i] = f[i - 1] \o more[i]
  BY <1>1, <1>2 DEF Joining
<1> HIDE DEF n
<1>4. Joining(f, seqs)
  <2>1. \A i \in 1 .. n : i \in 1 .. n + 1
    BY <1>1
  <2> QED
    BY <1>1, <1>3, <2>1 DEF Joining, n
<1>5. f[n] = FlattenSeq(seqs)
  BY <1>4, JoiningIsFlattening DEF n
<1>6. f[n + 1] = f[n] \o s
  <2>1. n + 1 \in 1 .. n + 1 /\ (n + 1) - 1 = n
    BY <1>1
  <2> QED
    BY <1>1, <1>3, <2>1
<1> QED
  BY <1>1, <1>2, <1>5, <1>6 DEF more
=================================================================================
