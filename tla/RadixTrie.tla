-------------------------------- MODULE RadixTrie --------------------------------
(***************************************************************************)
(* class RadixTrieIndex of csrc/turing_radix_trie.hpp: a prefix tree whose *)
(* nodes carry ids.  Every member takes the mutex, insert() exclusively,   *)
(* so that a call is one step.                                             *)
(***************************************************************************)
EXTENDS RadixPaths

CONSTANTS
  TrieTokens,      (* token ids                                            *)
  MaxTrieLength,   (* bound of the model on the length of a sequence       *)
  MaxTrieNodes,    (* bound of the model on next_id_                       *)
  TrieKeys         (* keys of anchors                                      *)

VARIABLES
  nodeIds,         (* the nodes, by path, with their node_id               *)
  next_id_,
  anchors_,        (* the node_id of each key, -1 when there is none       *)
  answered         (* history: what the last insert of a sequence returned *)

trieVars == <<nodeIds, next_id_, anchors_, answered>>

TrieLists == UNION {[1 .. n -> TrieTokens] : n \in 1 .. MaxTrieLength}

TrieInit ==
  /\ nodeIds = << >>
  /\ next_id_ = 1
  /\ anchors_ = [key \in TrieKeys |-> -1]
  /\ answered = << >>

TrieNodes == DOMAIN nodeIds

(* match_longest_prefix(): the node that was matched last as a whole, and  *)
(* the tokens matched, those inside the next edge included.                *)
MatchedNode(q) ==
  LET p == Longest(OnTheWay(TrieNodes, q))
  IN IF p = << >> THEN 0 ELSE nodeIds[p]

MatchedLength(q) == Len(LongestMatch(TrieNodes, q))

(* Mutant: the head of a split node keeps its id.                          *)
IdsWhenHeadKeeps(split, tokens) ==
  LET cut == CHOOSE p \in TrieNodes : IsPrefix(split, p) /\ ~ \E q \in TrieNodes :
               IsPrefix(split, q) /\ Len(q) < Len(p)
  IN [p \in TrieNodes \cup {split, tokens} |->
        IF p = split THEN nodeIds[cut] ELSE IF p = cut \/ p = tokens THEN next_id_
        ELSE nodeIds[p]]

(* The ids when the edge that ends a partial match is split at split: the  *)
(* tail keeps the id, the head gets the next one, a remainder the one      *)
(* after it.                                                               *)
IdsWhenSplit(split, tokens) ==
  [p \in TrieNodes \cup {split, tokens} |->
     IF p = split THEN next_id_ ELSE IF p = tokens THEN next_id_ + 1 ELSE nodeIds[p]]

(* insert(), for a sequence that is not the path of a node: a leaf below a *)
(* whole node, or an edge to split.                                        *)
Insert(tokens) ==
  LET at == LongestMatch(TrieNodes, tokens) IN
  /\ nodeIds' = IF tokens \in TrieNodes THEN nodeIds
                ELSE IF at \in TrieNodes \cup {<< >>}
                THEN [p \in TrieNodes \cup {tokens} |->
                        IF p = tokens THEN next_id_ ELSE nodeIds[p]]
                ELSE IdsWhenSplit(at, tokens)
  /\ next_id_' = next_id_ + Cardinality(DOMAIN nodeIds') - Cardinality(TrieNodes)
  /\ next_id_' <= MaxTrieNodes + 1
  /\ answered' = [p \in DOMAIN answered \cup {tokens} |->
                    IF p = tokens THEN nodeIds'[p] ELSE answered[p]]
  /\ UNCHANGED anchors_

(* set_anchor()                                                            *)
SetAnchor(key, id) ==
  /\ anchors_' = [anchors_ EXCEPT ![key] = id]
  /\ UNCHANGED <<nodeIds, next_id_, answered>>

TrieNext ==
  \E tokens \in TrieLists :
    \/ Insert(tokens)
    \/ \E key \in TrieKeys : SetAnchor(key, MatchedNode(tokens))

TrieSpec == TrieInit /\ [][TrieNext]_trieVars

-----------------------------------------------------------------------------
(* The id that insert() returned names that sequence from then on, however *)
(* its node is split, extended or inserted again: a match of the sequence  *)
(* returns the id and the whole length.  Ids are given once, in order, and *)
(* an anchor names a node that exists, or the root.                        *)
IdsKeepTheirSequence ==
  /\ \A p \in DOMAIN answered : MatchedNode(p) = answered[p] /\ MatchedLength(p) = Len(p)
  /\ {nodeIds[p] : p \in TrieNodes} = 1 .. next_id_ - 1
  /\ Cardinality(TrieNodes) = next_id_ - 1
  /\ \A key \in TrieKeys : anchors_[key] \in -1 .. next_id_ - 1
=============================================================================
