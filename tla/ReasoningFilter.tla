----------------------------- MODULE ReasoningFilter ----------------------------
(***************************************************************************)
(* ReasoningStreamFilter of turing/serving/reasoning.py and its native     *)
(* twin NativeReasoningFilter of csrc/turing_reasoning_scanner.hpp, which  *)
(* sort the text of a stream into reasoning and content.                   *)
(*                                                                         *)
(* A text is a sequence of pieces: an opening tag, a closing tag, half an  *)
(* opening tag or a plain word, the n-th of which in the stream is the     *)
(* number n.                                                               *)
(***************************************************************************)
EXTENDS Integers, Sequences

CONSTANTS
  TokenShapes,   (* the tokens that a model emits, as sequences of pieces, *)
                 (* in which "word" stands for a plain word                *)
  MaxStreamed    (* bound of the model: pieces of one stream               *)

(* A token has one tag at most, as those of a tokenizer do.                 *)
ASSUME ReasoningAssumption ==
  /\ MaxStreamed \in Nat
  /\ TokenShapes \subseteq Seq({"word", "open", "close", "half"})
  /\ \A shape \in TokenShapes : \A i, j \in DOMAIN shape :
       {shape[i], shape[j]} \subseteq {"open", "close"} => i = j

OpenTag == -1
CloseTag == -2
HalfTag == -3

VARIABLES
  fedText,       (* everything that process_token was called with          *)
  inThinking,    (* in_thinking_block                                      *)
  heldText,      (* buffered_text                                          *)
  reasoningOut,  (* the reasoning chunks that were returned, joined        *)
  contentOut     (* the content chunks, joined                             *)

reasoningVars == <<fedText, inThinking, heldText, reasoningOut, contentOut>>

ReasoningInit ==
  /\ fedText = <<>>
  /\ inThinking = FALSE
  /\ heldText = <<>>
  /\ reasoningOut = <<>>
  /\ contentOut = <<>>

(* The pieces of a token that comes behind n others.                       *)
Spelled(shape, n) ==
  [i \in DOMAIN shape |-> IF shape[i] = "word" THEN n + i
                          ELSE IF shape[i] = "open" THEN OpenTag
                          ELSE IF shape[i] = "close" THEN CloseTag ELSE HalfTag]

Has(text, tag) == \E i \in DOMAIN text : text[i] = tag
At(text, tag) ==
  CHOOSE i \in DOMAIN text : text[i] = tag /\ \A j \in 1 .. i - 1 : text[j] # tag
UpTo(text, tag) == SubSeq(text, 1, At(text, tag) - 1)
Beyond(text, tag) == SubSeq(text, At(text, tag) + 1, Len(text))

(* What follows the opening tag waits in the buffer for the next token.    *)
EnterBlock(text) ==
  /\ ~inThinking /\ Has(text, OpenTag)
  /\ inThinking' = TRUE
  /\ heldText' = Beyond(text, OpenTag)
  /\ contentOut' = contentOut \o UpTo(text, OpenTag)
  /\ UNCHANGED reasoningOut

(* Mutant: what follows the closing tag is reasoning still.                *)
LeaveBlockLate(text) ==
  /\ inThinking /\ Has(text, CloseTag)
  /\ inThinking' = FALSE
  /\ heldText' = <<>>
  /\ reasoningOut' = reasoningOut \o UpTo(text, CloseTag) \o Beyond(text, CloseTag)
  /\ UNCHANGED contentOut

LeaveBlock(text) ==
  /\ inThinking /\ Has(text, CloseTag)
  /\ inThinking' = FALSE
  /\ heldText' = <<>>
  /\ reasoningOut' = reasoningOut \o UpTo(text, CloseTag)
  /\ contentOut' = contentOut \o Beyond(text, CloseTag)

PassOn(text) ==
  /\ IF inThinking THEN ~Has(text, CloseTag) ELSE ~Has(text, OpenTag)
  /\ heldText' = <<>>
  /\ IF inThinking
     THEN reasoningOut' = reasoningOut \o text /\ UNCHANGED contentOut
     ELSE contentOut' = contentOut \o text /\ UNCHANGED reasoningOut
  /\ UNCHANGED inThinking

(* process_token(), which the native filter answers alike.                 *)
ProcessToken(shape) ==
  LET token == Spelled(shape, Len(fedText))
      text == heldText \o token
  IN /\ Len(fedText) + Len(shape) <= MaxStreamed
     /\ fedText' = fedText \o token
     /\ EnterBlock(text) \/ LeaveBlock(text) \/ PassOn(text)

ReasoningNext == \E shape \in TokenShapes : ProcessToken(shape)

ReasoningSpec == ReasoningInit /\ [][ReasoningNext]_reasoningVars

-----------------------------------------------------------------------------
Words(text) == {text[i] : i \in {j \in DOMAIN text : text[j] > 0}}

(* Every word of the text is there once, and in the order of the stream.   *)
InOrder(text) ==
  \A i, j \in DOMAIN text : i < j /\ text[i] > 0 /\ text[j] > 0 => text[i] < text[j]

(* The text before position i ends within a block: a second opening tag in *)
(* a block, or a closing tag outside one, is text.                         *)
Within(text, i) ==
  \E o \in 1 .. i - 1 : /\ text[o] = OpenTag
                        /\ \A c \in o .. i - 1 : text[c] # CloseTag

(* The words that a reader of the whole text finds between the tags.       *)
Thought(text) == {text[i] : i \in {j \in DOMAIN text : text[j] > 0 /\ Within(text, j)}}

(* Every word of a stream goes to the side it belongs to, in the order of  *)
(* the stream and once, wherever the tokens are cut between tags: only     *)
(* what stands behind an opening tag in its own token is held back, and    *)
(* the next token releases it (process_token, both builds).                *)
WordsKeepTheirSide ==
  /\ Words(reasoningOut \o heldText) = Thought(fedText)
  /\ Words(contentOut) = Words(fedText) \ Thought(fedText)
  /\ InOrder(reasoningOut \o heldText) /\ InOrder(contentOut)
=============================================================================
