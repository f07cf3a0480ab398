----------------------------- MODULE ComputeBatcher -----------------------------
(***************************************************************************)
(* classes ComputeCostEstimator and AdaptiveComputeBatcher of              *)
(* turing/serving/traffic.py: bucket_requests() cuts the requests, sorted  *)
(* by cost, into batches, one request per turn of its loop, and            *)
(* pack_varlen_tokens() lays the token lists of a batch end to end.        *)
(*                                                                         *)
(* A request is a record of its task and sizes.  Its tokens are the pairs  *)
(* of the place of its list in the batch and a position.                   *)
(***************************************************************************)
EXTENDS Integers, FiniteSets, Sequences, SequencesExt

CONSTANTS
  TaskRequests,      (* the requests that may arrive                       *)
  MaxArrived,        (* bound of the model on how many arrive at once      *)
  HiddenDim,         (* hidden_dim                                         *)
  MaxBatchCost,      (* max_batch_cost                                     *)
  MaxBatchSize,      (* max_batch_size                                     *)
  TolerancePct       (* cost_tolerance_ratio, in percent                   *)

ASSUME BatcherAssumption ==
  /\ \A r \in TaskRequests : r.len \in Nat /\ r.new \in Nat /\ r.candidates \in Nat
  /\ HiddenDim \in Nat /\ MaxArrived \in Nat
  /\ MaxBatchCost \in Nat /\ MaxBatchSize \in Nat \ {0} /\ TolerancePct \in Nat

VARIABLES
  decorated,         (* the sorted requests that are not yet in a batch    *)
  batches,           (* the batches that are closed                        *)
  current_batch,
  arrived            (* history: the sorted requests of this call          *)

batcherVars == <<decorated, batches, current_batch, arrived>>

AtLeastOne(n) == IF n < 1 THEN 1 ELSE n

(* estimate_cost()                                                         *)
EstimateCost(r) ==
  CASE r.task = "rerank" -> AtLeastOne(r.len * r.len * AtLeastOne(r.candidates))
    [] r.task = "generate" -> AtLeastOne(r.len + r.new)
    [] OTHER -> AtLeastOne(r.len * HiddenDim)

CostOf(batch) ==
  LET upto[i \in 0 .. Len(batch)] ==
        IF i = 0 THEN 0 ELSE upto[i - 1] + EstimateCost(batch[i])
  IN upto[Len(batch)]

Ascending(s) ==
  \A i \in 1 .. Len(s) - 1 : EstimateCost(s[i]) <= EstimateCost(s[i + 1])

BatcherInit ==
  /\ arrived \in {s \in UNION {[1 .. n -> TaskRequests] : n \in 1 .. MaxArrived} :
                    Ascending(s)}
  /\ decorated = arrived
  /\ batches = << >>
  /\ current_batch = << >>

(* Mutant: a full batch takes one request more.                            *)
JoinsOneMore(batch, r) ==
  /\ CostOf(batch) + EstimateCost(r) <= MaxBatchCost
  /\ Len(batch) <= MaxBatchSize
  /\ (EstimateCost(r) - EstimateCost(batch[1])) * 100
       <= TolerancePct * EstimateCost(batch[1])

(* The request joins the batch whose first request is the pivot.           *)
Joins(batch, r) ==
  /\ CostOf(batch) + EstimateCost(r) <= MaxBatchCost
  /\ Len(batch) < MaxBatchSize
  /\ (EstimateCost(r) - EstimateCost(batch[1])) * 100
       <= TolerancePct * EstimateCost(batch[1])

(* One turn of the loop: the next request opens the first batch, joins the *)
(* current one, or closes it and opens another.                            *)
Consider ==
  /\ decorated # << >>
  /\ decorated' = Tail(decorated)
  /\ IF current_batch = << >> \/ Joins(current_batch, Head(decorated))
     THEN /\ current_batch' = Append(current_batch, Head(decorated))
          /\ UNCHANGED batches
     ELSE /\ batches' = Append(batches, current_batch)
          /\ current_batch' = <<Head(decorated)>>
  /\ UNCHANGED arrived

(* After the loop.                                                         *)
CloseLast ==
  /\ decorated = << >>
  /\ current_batch # << >>
  /\ batches' = Append(batches, current_batch)
  /\ current_batch' = << >>
  /\ UNCHANGED <<decorated, arrived>>

BatcherNext == Consider \/ CloseLast

BatcherSpec == BatcherInit /\ [][BatcherNext]_batcherVars

(* pack_varlen_tokens(), in both builds.                                   *)
TokenList(batch, i) == [j \in 1 .. batch[i].len |-> <<i, j>>]

FlatTokens(batch) == FlattenSeq([i \in DOMAIN batch |-> TokenList(batch, i)])

CuSeqlens(batch) ==
  LET upto[i \in 0 .. Len(batch)] == IF i = 0 THEN 0 ELSE upto[i - 1] + batch[i].len
  IN upto

-----------------------------------------------------------------------------
BatchSound(batch) ==
  /\ Len(batch) \in 1 .. MaxBatchSize
  /\ Len(batch) > 1 => CostOf(batch) <= MaxBatchCost
  /\ \A i \in DOMAIN batch :
       (EstimateCost(batch[i]) - EstimateCost(batch[1])) * 100
         <= TolerancePct * EstimateCost(batch[1])

Closed == IF current_batch = << >> THEN batches ELSE Append(batches, current_batch)

(* The batches keep every request, once and in order, and each respects    *)
(* the three limits, except that a request too expensive for any batch has *)
(* one to itself.  No batch is closed early: the request after it breaks a *)
(* limit.  And the boundaries of the packed batch cut it into the token    *)
(* lists it was made of (bucket_requests, pack_varlen_tokens).             *)
BatchesSound ==
  /\ FlattenSeq(Closed) \o decorated = arrived
  /\ \A k \in DOMAIN Closed :
       /\ BatchSound(Closed[k])
       /\ k > 1 => ~BatchSound(Append(Closed[k - 1], Closed[k][1]))
       /\ \A i \in DOMAIN Closed[k] :
            SubSeq(FlatTokens(Closed[k]), CuSeqlens(Closed[k])[i - 1] + 1,
                   CuSeqlens(Closed[k])[i]) = TokenList(Closed[k], i)
=============================================================================
