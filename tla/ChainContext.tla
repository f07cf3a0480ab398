------------------------------ MODULE ChainContext ------------------------------
(***************************************************************************)
(* classes ChainContext and BranchContext of turing/dsl/context.py, driven *)
(* by the primitives of turing/dsl/primitives.py: a chain with a history,  *)
(* the branches that it forks, and their joins.                            *)
(*                                                                         *)
(* A prompt, an option or a generated text is one piece, both of the text  *)
(* and of the token list that it encodes to.  What the model generates is  *)
(* external: any of Drafts, with its log-probability; a truncated draft is *)
(* repaired to Whole in the text, not in the tokens, when a schema is set. *)
(***************************************************************************)
EXTENDS Integers, FiniteSets, Sequences, SequencesExt

CONSTANTS
  Branches,        (* ids of the branches of a fork                        *)
  Prompts,         (* prompts and options                                  *)
  Drafts,          (* generated texts                                      *)
  DraftScore,      (* [Drafts -> Int] their log-probability                *)
  Truncated,       (* the drafts that a schema repairs                     *)
  Whole,           (* a repaired draft                                     *)
  JoinedText,      (* the text of a concat join                            *)
  MaxHistory       (* bound of the model on the length of a history        *)

VARIABLES
  historyText, historyTokens,     (* history_text, history_tokens          *)
  schemaSet,                      (* current_schema is not None            *)
  forked,                         (* there is a fork                       *)
  branchText, branchTokens,       (* of each branch                        *)
  branchScores,                   (* token_logprobs of each branch         *)
  forkedAt,                       (* history: the tokens at the fork       *)
  loose                           (* history: a repaired draft or a concat *)
                                  (* join is in one of the texts           *)

chainBranches == <<forked, branchText, branchTokens, branchScores, forkedAt>>
chainVars == <<historyText, historyTokens, schemaSet, chainBranches, loose>>

NoBranches == [b \in Branches |-> << >>]

ChainInit ==
  /\ historyText = << >>
  /\ historyTokens = << >>
  /\ schemaSet = FALSE
  /\ forked = FALSE
  /\ branchText = NoBranches
  /\ branchTokens = NoBranches
  /\ branchScores = NoBranches
  /\ forkedAt = << >>
  /\ loose = FALSE

Repaired(d) == IF schemaSet /\ d \in Truncated THEN Whole ELSE d

(* append_prompt() and append_output() of the chain.                       *)
AppendToChain(text, tokens) ==
  /\ historyText' = historyText \o text
  /\ historyTokens' = historyTokens \o tokens
  /\ Len(historyText') <= MaxHistory

(* gen() of the chain.  The prompt is appended first and stays when the    *)
(* executor raises.                                                        *)
GenChain(prompt) ==
  /\ \/ /\ AppendToChain(prompt, prompt)
        /\ UNCHANGED loose
     \/ \E d \in Drafts :
          /\ AppendToChain(prompt \o <<Repaired(d)>>, prompt \o <<d>>)
          /\ loose' = (loose \/ Repaired(d) # d)
  /\ UNCHANGED <<schemaSet, chainBranches>>

(* select() of the chain: one of the options.                              *)
SelectChain(prompt, option) ==
  /\ AppendToChain(prompt \o <<option>>, prompt \o <<option>>)
  /\ UNCHANGED <<schemaSet, chainBranches, loose>>

Constrain ==
  /\ schemaSet' = TRUE
  /\ UNCHANGED <<historyText, historyTokens, chainBranches, loose>>

(* fork(): branches without tokens of their own.                           *)
Fork ==
  /\ forked' = TRUE
  /\ branchText' = NoBranches
  /\ branchTokens' = NoBranches
  /\ branchScores' = NoBranches
  /\ forkedAt' = historyTokens
  /\ UNCHANGED <<historyText, historyTokens, schemaSet, loose>>

AppendToBranch(b, text, tokens) ==
  /\ forked
  /\ branchText' = [branchText EXCEPT ![b] = @ \o text]
  /\ branchTokens' = [branchTokens EXCEPT ![b] = @ \o tokens]
  /\ Len(branchText[b]) + Len(text) <= MaxHistory

(* gen() and select() of a branch.  A selection has no log-probability.    *)
GenBranch(b, prompt) ==
  /\ \/ /\ AppendToBranch(b, prompt, prompt)
        /\ UNCHANGED <<branchScores, loose>>
     \/ \E d \in Drafts :
          /\ AppendToBranch(b, prompt \o <<Repaired(d)>>, prompt \o <<d>>)
          /\ branchScores' = [branchScores EXCEPT ![b] = Append(@, DraftScore[d])]
          /\ loose' = (loose \/ Repaired(d) # d)
  /\ UNCHANGED <<historyText, historyTokens, schemaSet, forked, forkedAt>>

SelectBranch(b, prompt, option) ==
  /\ AppendToBranch(b, prompt \o <<option>>, prompt \o <<option>>)
  /\ UNCHANGED <<historyText, historyTokens, schemaSet, forked, branchScores, forkedAt, loose>>

(* The prefix that full_tokens gives a branch is the history of its parent *)
(* as it is now.                                                           *)
FullTokens(b) == historyTokens \o branchTokens[b]

Total(scores) == FoldSeq(LAMBDA x, sum : x + sum, 0, scores)

(* a has at least the mean_logprob of b; no scores have mean 0.            *)
AtLeastAsLikely(a, b) ==
  Total(branchScores[a]) * (IF branchScores[b] = << >> THEN 1 ELSE Len(branchScores[b]))
    >= Total(branchScores[b]) * (IF branchScores[a] = << >> THEN 1 ELSE Len(branchScores[a]))

Votes(b) == Cardinality({x \in Branches : branchText[x] = branchText[b]})

(* Mutant: the text of the winner is taken over, its tokens are not.       *)
JoinTextOnly ==
  forked /\ \E b \in Branches :
    /\ \A x \in Branches : AtLeastAsLikely(b, x)
    /\ AppendToChain(branchText[b], << >>)
    /\ UNCHANGED <<schemaSet, chainBranches, loose>>

(* join() with "best", "vote" and "concat".  Branches whose text is empty  *)
(* have no vote, and concat appends a text without tokens.                 *)
JoinBest ==
  forked /\ \E b \in Branches :
    /\ \A x \in Branches : AtLeastAsLikely(b, x)
    /\ AppendToChain(branchText[b], branchTokens[b])
    /\ UNCHANGED <<schemaSet, chainBranches, loose>>

JoinVote ==
  forked /\ \E b \in {x \in Branches : branchText[x] # << >>} :
    /\ \A x \in Branches : branchText[x] # << >> => Votes(b) >= Votes(x)
    /\ AppendToChain(branchText[b], branchTokens[b])
    /\ UNCHANGED <<schemaSet, chainBranches, loose>>

JoinConcat ==
  /\ forked
  /\ AppendToChain(<<JoinedText>>, << >>)
  /\ loose' = TRUE
  /\ UNCHANGED <<schemaSet, chainBranches>>

OptionalPrompt == {<< >>} \cup {<<p>> : p \in Prompts}

ChainNext ==
  \/ Constrain \/ Fork \/ JoinBest \/ JoinVote \/ JoinConcat
  \/ \E prompt \in OptionalPrompt :
       \/ GenChain(prompt)
       \/ \E b \in Branches : GenBranch(b, prompt)
       \/ \E option \in Prompts :
            \/ SelectChain(prompt, option)
            \/ \E b \in Branches : SelectBranch(b, prompt, option)

ChainSpec == ChainInit /\ [][ChainNext]_chainVars

-----------------------------------------------------------------------------
(* The tokens that the next generation is fed are those of the text that   *)
(* the caller sees, of the chain and of every branch, through prompts,     *)
(* failed generations, selections and joins; only a concat join and a      *)
(* repaired draft part them.  And a branch still starts with the prefix it *)
(* was forked from, whatever the chain appended in between.                *)
TextIsTokens ==
  /\ ~loose => /\ historyText = historyTokens
               /\ branchText = branchTokens
  /\ \A b \in Branches : IsPrefix(forkedAt, FullTokens(b))

=============================================================================
