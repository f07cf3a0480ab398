----------------------------- MODULE SpectralForest -----------------------------
(***************************************************************************)
(* class SpectralRadixSVDForest of turing/core/radix_svd.py: a prefix tree *)
(* of KV rows.                                                             *)
(*                                                                         *)
(* A row is abstracted to the tokens that it was computed from, its        *)
(* context.  The rows of a node were computed in one pass, so the context  *)
(* of the last one stands for all: contexts[p] for the node with path p.   *)
(***************************************************************************)
EXTENDS RadixPaths

CONSTANTS
  PrefixTokens,     (* token ids                                           *)
  MaxPrefix,        (* bound of the model on the length of a prefix        *)
  MaxInserted,      (* bound of the model on the number of prefixes        *)
  AnchorTags        (* tags of semantic anchors                            *)

VARIABLES
  contexts,         (* the nodes, with the context of their last row       *)
  cachedTokens,     (* total_cached_tokens                                 *)
  anchorRegistry,   (* the token_ids of each tag, empty when absent        *)
  inserted          (* history: the prefixes that were inserted            *)

forestVars == <<contexts, cachedTokens, anchorRegistry, inserted>>

PrefixLists == UNION {[1 .. n -> PrefixTokens] : n \in 1 .. MaxPrefix}

ForestInit ==
  /\ contexts = << >>
  /\ cachedTokens = 0
  /\ anchorRegistry = [tag \in AnchorTags |-> << >>]
  /\ inserted = {}

ForestNodes == DOMAIN contexts

(* What is left of the tokens when the children of the root that match as  *)
(* a whole are taken off: the insertion recurses, each time at the root.   *)
Remainder(tokens) ==
  LET tops == TopNodes(ForestNodes)
      peel[o \in 0 .. Len(tokens)] ==
        LET rest == SubSeq(tokens, o + 1, Len(tokens))
            whole == {p \in tops : IsPrefix(p, rest)}
        IN IF whole = {} THEN rest ELSE peel[o + Len(Longest(whole))]
  IN peel[0]

(* Where the child of the root with the same first token is split, empty   *)
(* if there is no such child.                                              *)
SplitPoint(rest) == LongestMatch(TopNodes(ForestNodes), rest)

(* The context of the head of a node when its tail is split off.           *)
HeadContext(split) ==
  LET p == CHOOSE x \in TopNodes(ForestNodes) : IsPrefix(split, x)
  IN SubSeq(contexts[p], 1, Len(contexts[p]) - (Len(p) - Len(split)))

(* Mutant: the tokens that the split node had are counted again.           *)
NewRowsAll(rest, split) == Len(rest)

(* The tokens that an insertion adds.                                      *)
NewRows(rest, split) == Len(rest) - Len(split)

(* The insertion of tokens and their rows.  After the match has recursed   *)
(* at the root, what is left becomes a child of the root, or of the head   *)
(* of the one it is split from.                                            *)
InsertRows(tokens) ==
  LET rest == Remainder(tokens)
      split == SplitPoint(rest)
      added == {rest, split} \ {<< >>}
  IN /\ contexts' = [p \in ForestNodes \cup added |->
           IF p \in ForestNodes THEN contexts[p]
           ELSE IF p = split THEN HeadContext(split) ELSE tokens]
     /\ cachedTokens' = cachedTokens + NewRows(rest, split)
     /\ inserted' = inserted \cup {tokens}
     /\ Cardinality(inserted') <= MaxInserted
     /\ UNCHANGED anchorRegistry

(* insert_prefix(), which compresses the rows first, and                   *)
(* insert_compressed_node(), which is given them compressed.               *)
InsertPrefix(tokens) == InsertRows(tokens)
InsertCompressedNode(tokens) == InsertRows(tokens)

(* match_prefix(): whole nodes, from the root.                             *)
MatchPrefix(tokens) == Longest(OnTheWay(ForestNodes, tokens))

(* mark_semantic_anchor(): only where a node ends with the tokens.         *)
MarkSemanticAnchor(tokens, tag) ==
  /\ tokens \in ForestNodes
  /\ anchorRegistry' = [anchorRegistry EXCEPT ![tag] = tokens]
  /\ UNCHANGED <<contexts, cachedTokens, inserted>>

(* match_anchor_prefix()                                                   *)
MatchAnchorPrefix(tag) == MatchPrefix(anchorRegistry[tag])

ForestNext ==
  \E tokens \in PrefixLists :
    \/ InsertPrefix(tokens)
    \/ InsertCompressedNode(tokens)
    \/ \E tag \in AnchorTags : MarkSemanticAnchor(tokens, tag)

ForestSpec == ForestInit /\ [][ForestNext]_forestVars

-----------------------------------------------------------------------------
(* The rows of all nodes, as pairs of a node and a position.               *)
RowsHeld ==
  UNION {{p} \X (Len(ParentPath(ForestNodes, p)) + 1 .. Len(p)) : p \in ForestNodes}

EndsWith(s, t) == Len(t) <= Len(s) /\ SubSeq(s, Len(s) - Len(t) + 1, Len(s)) = t

(* Through any sequence of splits: total_cached_tokens counts the rows     *)
(* that the nodes hold; the rows of a node were computed for its tokens;   *)
(* and a semantic anchor keeps matching all of its tokens although its     *)
(* node may be split (insert_prefix, mark_semantic_anchor).                *)
ForestExact ==
  /\ cachedTokens = Cardinality(RowsHeld)
  /\ \A p \in ForestNodes : EndsWith(contexts[p], Without(ParentPath(ForestNodes, p), p))
  /\ \A tag \in AnchorTags : MatchAnchorPrefix(tag) = anchorRegistry[tag]

(* radix_svd.py, match_prefix: "Traverses tree to match longest token      *)
(* prefix".  A prefix that was inserted would then be matched as a whole.  *)
InsertedPrefixMatches == \A tokens \in inserted : MatchPrefix(tokens) = tokens
=============================================================================
