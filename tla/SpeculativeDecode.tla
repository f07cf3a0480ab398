---------------------------- MODULE SpeculativeDecode ----------------------------
(***************************************************************************)
(* Greedy decoding in rounds of drafts and their verification:             *)
(* RidgeAssistedTreeSpeculator of turing/core/speculation.py, the fused    *)
(* verifier that it prefers (turing/kernels/triton_spec_verify.py), and    *)
(* the comparison with plain decoding of SpecExactParityVerifier in        *)
(* turing/serving/spec_gate.py and csrc/turing_spec_verifier.hpp.          *)
(*                                                                         *)
(* The target model is external: a function from the last token to the     *)
(* next one.  Row i of its logits sees the drafts before i.  The drafter   *)
(* may propose anything.                                                   *)
(***************************************************************************)
EXTENDS Integers, Sequences, SequencesExt, FiniteSetsExt

CONSTANTS
  SpecTokens,    (* the vocabulary                                         *)
  MaxDrafted,    (* bound of the model: drafts and rows of one round       *)
  MaxDecoded,    (* bound of the model: tokens decoded                     *)
  CompareWidth   (* tokens that the native comparison takes at once, 8     *)

ASSUME SpecAssumption ==
  /\ MaxDrafted \in Nat /\ MaxDecoded \in Nat /\ CompareWidth \in Nat \ {0}

VARIABLES
  target,        (* the target model                                       *)
  decoded,       (* the prompt's last token and the tokens of all rounds   *)
  total_drafted, total_accepted

specVars == <<target, decoded, total_drafted, total_accepted>>

SpecInit ==
  /\ target \in [SpecTokens -> SpecTokens]
  /\ decoded \in [{1} -> SpecTokens]
  /\ total_drafted = 0
  /\ total_accepted = 0

(* torch.argmax of the first n rows of target_logits.                      *)
Predicted(drafts, n) ==
  [i \in 1 .. n |-> target[IF i = 1 THEN Last(decoded) ELSE drafts[i - 1]]]

Mismatches(drafts, predicted) ==
  {i \in DOMAIN drafts \cap DOMAIN predicted : drafts[i] # predicted[i]}

(* Mutant: the correction is left out, and the draft is kept.              *)
FusedKeepsDraft(drafts, predicted) ==
  LET wrong == Mismatches(drafts, predicted)
      n == IF wrong = {} THEN Cardinality(DOMAIN drafts \cap DOMAIN predicted) ELSE Min(wrong)
  IN SubSeq(drafts, 1, n)

(* fused_speculative_verify_cuda(): all rows are compared at once.         *)
FusedVerify(drafts, predicted) ==
  LET wrong == Mismatches(drafts, predicted)
  IN IF wrong = {}
     THEN SubSeq(drafts, 1, Cardinality(DOMAIN drafts \cap DOMAIN predicted))
     ELSE Append(SubSeq(drafts, 1, Min(wrong) - 1), predicted[Min(wrong)])

(* The loop of verify_speculative_candidates(): what is accepted after i   *)
(* drafts, and whether it has stopped.                                     *)
LoopVerify(drafts, predicted) ==
  LET after[i \in 0 .. Len(drafts)] ==
        IF i = 0 THEN [accepted |-> << >>, stopped |-> FALSE]
        ELSE IF after[i - 1].stopped \/ i > Len(predicted) THEN after[i - 1]
        ELSE [accepted |-> Append(after[i - 1].accepted, predicted[i]),
              stopped |-> drafts[i] # predicted[i]]
  IN after[Len(drafts)].accepted

(* verify_speculative_candidates().  The fused path counts every draft as  *)
(* drafted, the loop those that it looks at.                               *)
VerifyRound(drafts, rows) ==
  LET predicted == Predicted(drafts, rows)
      fused == FusedVerify(drafts, predicted)
      loop == LoopVerify(drafts, predicted)
  IN \/ /\ decoded' = decoded \o fused
        /\ total_drafted' = total_drafted + Len(drafts)
        /\ total_accepted' = total_accepted + Len(fused)
     \/ /\ decoded' = decoded \o loop
        /\ total_drafted' = total_drafted + Len(loop)
        /\ total_accepted' = total_accepted + Len(loop)

SpecNext ==
  /\ Len(decoded) <= MaxDecoded
  /\ \E k, rows \in 1 .. MaxDrafted :
       /\ rows <= k + 1
       /\ \E drafts \in [1 .. k -> SpecTokens] : VerifyRound(drafts, rows)
  /\ UNCHANGED target

SpecDecodeSpec == SpecInit /\ [][SpecNext]_specVars

-----------------------------------------------------------------------------
(* What plain decoding makes of the same prompt.                           *)
PlainTokens(n) ==
  LET plain[i \in 1 .. n] == IF i = 1 THEN decoded[1] ELSE target[plain[i - 1]]
  IN plain

(* verify_greedy_parity_simd_cpp(): the index of the first divergence, or  *)
(* -1, by whole blocks and then by the tokens that are left.               *)
FirstDivergence(spec, plain, count) ==
  LET blocks == count \div CompareWidth
      Differs(i) == spec[i] # plain[i]
      BlockOf(b) == {i \in (b - 1) * CompareWidth + 1 .. b * CompareWidth : Differs(i)}
      bad == {b \in 1 .. blocks : BlockOf(b) # {}}
      rest == {i \in blocks * CompareWidth + 1 .. count : Differs(i)}
  IN IF bad # {} THEN Min(BlockOf(Min(bad))) - 1
     ELSE IF rest # {} THEN Min(rest) - 1
     ELSE -1

(* verify_greedy_parity(): passed                                          *)
GreedyParity(spec, plain) ==
  LET count == IF Len(spec) < Len(plain) THEN Len(spec) ELSE Len(plain)
  IN FirstDivergence(spec, plain, count) = -1 /\ Len(spec) = Len(plain)

(* Whatever is drafted and whichever verifier runs in a round, a run of    *)
(* rounds emits the tokens of plain greedy decoding, the parity verifier   *)
(* sees that and would see any one token changed, and no round counts more *)
(* tokens as accepted than as drafted (verify_speculative_candidates,      *)
(* fused_speculative_verify_cuda, verify_greedy_parity).                   *)
SpecIsGreedy ==
  LET plain == PlainTokens(Len(decoded)) IN
  /\ decoded = plain
  /\ GreedyParity(decoded, plain)
  /\ \A i \in DOMAIN plain, t \in SpecTokens :
       t # plain[i] => ~GreedyParity(decoded, [plain EXCEPT ![i] = t])
  /\ ~GreedyParity(decoded, Append(plain, decoded[1]))
  /\ total_accepted <= total_drafted
=============================================================================
