------------------------------- MODULE QueueOrder -------------------------------
(***************************************************************************)
(* The two list operations of the scheduler, list.sort(key=...) and the    *)
(* filtering list comprehension.  Each is a set with exactly one element,  *)
(* described by an index function rather than by recursion, so that a      *)
(* proof may take an arbitrary member and read off what it is.             *)
(***************************************************************************)
EXTENDS Integers, Sequences

Items(s) == {s[i] : i \in DOMAIN s}

Injective(s) == \A i, j \in DOMAIN s : s[i] = s[j] => i = j

(* The stable sorts of s by key: the one reordering of s in which a        *)
(* smaller key comes first and equal keys keep their order.                *)
StableSorts(s, key) ==
  {[i \in DOMAIN s |-> s[p[i]]] :
     p \in {q \in [DOMAIN s -> DOMAIN s] :
              \A i, j \in DOMAIN s : i < j =>
                \/ key[s[q[i]]] < key[s[q[j]]]
                \/ key[s[q[i]]] = key[s[q[j]]] /\ q[i] < q[j]}}

(* The subsequences of s made of all its elements that are in K.           *)
Keeping(s, K) ==
  UNION {{[i \in 1..n |-> s[p[i]]] :
            p \in {q \in [1..n -> DOMAIN s] :
                     /\ \A i, j \in 1..n : i < j => q[i] < q[j]
                     /\ {q[i] : i \in 1..n} = {k \in DOMAIN s : s[k] \in K}}} :
         n \in 0..Len(s)}

(* Mutant: the last element of s that is in K.                             *)
LastIn(s, K) ==
  {s[i] : i \in {n \in DOMAIN s : s[n] \in K /\ \A m \in DOMAIN s : m > n => s[m] \notin K}}

(* The first element of s that is in K, as a set: empty if there is none.  *)
FirstIn(s, K) ==
  {s[i] : i \in {n \in DOMAIN s : s[n] \in K /\ \A m \in DOMAIN s : m < n => s[m] \notin K}}
=============================================================================
