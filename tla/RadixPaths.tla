------------------------------- MODULE RadixPaths -------------------------------
(***************************************************************************)
(* A radix tree as the set of the paths of its nodes, the tokens from the  *)
(* root to the end of the node: the children of a node start with          *)
(* different tokens, so that the paths determine the tree.                 *)
(***************************************************************************)
EXTENDS Integers, FiniteSets, Sequences, SequencesExt

Longest(S) == CHOOSE p \in S : \A q \in S : Len(q) <= Len(p)

(* The longest common prefix of two paths.                                 *)
CommonPart(p, q) ==
  LET n == CHOOSE k \in 0 .. Len(p) :
             /\ k <= Len(q) /\ \A i \in 1 .. k : p[i] = q[i]
             /\ k = Len(p) \/ k = Len(q) \/ p[k + 1] # q[k + 1]
  IN SubSeq(p, 1, n)

(* The nodes that are matched as a whole on the way down along q.          *)
OnTheWay(tree, q) == {p \in tree \cup {<< >>} : IsPrefix(p, q)}

(* The longest part of q that is in the tree, also inside an edge.         *)
LongestMatch(tree, q) == Longest({CommonPart(p, q) : p \in tree \cup {<< >>}})

(* The path of the parent of node p.                                       *)
ParentPath(tree, p) == Longest(OnTheWay(tree, p) \ {p})

(* The children of the root.                                               *)
TopNodes(tree) == {p \in tree : \A q \in tree : IsPrefix(q, p) => q = p}

Without(prefix, p) == SubSeq(p, Len(prefix) + 1, Len(p))
=============================================================================
