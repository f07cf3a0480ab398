--------------------------- MODULE DistributedDriver ----------------------------
(***************************************************************************)
(* The forward passes that the engine makes for one request: through the   *)
(* model (SubspaceCausalLM.forward of turing/models/causal_lm.py) or, when *)
(* it was started with tensor or pipeline parallelism, through             *)
(* DistributedInferenceDriver of turing/serving/distributed.py and the     *)
(* pipeline stages of turing/models/tensor_parallel.py.  The engine hands  *)
(* each pass the caches that the pass before it returned.                  *)
(*                                                                         *)
(* A cache is the sequence of its rows; a row is abstracted to the layer   *)
(* that computed it, the position it was rotated to and its token, tokens  *)
(* being numbered as they are fed.                                         *)
(***************************************************************************)
EXTENDS Integers, Sequences, SequencesExt

CONSTANTS
  NumLayers,     (* len(model.layers)                                      *)
  StageCounts,   (* the values of pp_size, 0 standing for no driver        *)
  MaxPass,       (* bound of the model: tokens of one pass                 *)
  MaxFed         (* bound of the model: tokens of the request              *)

ASSUME DriverAssumption ==
  /\ NumLayers \in Nat \ {0} /\ MaxPass \in Nat /\ MaxFed \in Nat
  /\ StageCounts \subseteq Nat

VARIABLES
  pp_size,       (* 0 without a driver                                     *)
  past_kv,       (* the caches, one for each layer; empty for None         *)
  fed            (* history: the number of tokens fed                      *)

driverVars == <<pp_size, past_kv, fed>>

LayersPerStage(n) == IF NumLayers < n THEN 1 ELSE NumLayers \div n

(* Mutant: the last stage takes no more layers than the others.            *)
StageEvenLayers(n, i) ==
  [j \in 1 .. LayersPerStage(n) |-> (i - 1) * LayersPerStage(n) + j]

(* The layers of stage i of n: the last one takes the rest.                *)
StageLayers(n, i) ==
  LET first == (i - 1) * LayersPerStage(n)
      size == IF i < n THEN LayersPerStage(n)
              ELSE IF first < NumLayers THEN NumLayers - first ELSE 0
  IN [j \in 1 .. size |-> first + j]

(* partition_model_for_pipeline() does not raise.                          *)
Partitions(n) ==
  \A i \in 1 .. n : \A j \in DOMAIN StageLayers(n, i) : StageLayers(n, i)[j] <= NumLayers

DriverInit ==
  /\ pp_size \in {n \in StageCounts : Partitions(n)}
  /\ past_kv = << >>
  /\ fed = 0

(* The rows that a layer computes for k tokens from a start position.      *)
Rows(layer, start, k) ==
  [j \in 1 .. k |-> [layer |-> layer, position |-> start + j - 1, token |-> fed + j]]

PastOf(i) == IF i \in DOMAIN past_kv THEN past_kv[i] ELSE << >>

(* The start position that the model takes from its caches.                *)
ModelStart == Len(PastOf(1))

(* SubspaceCausalLM.forward()                                              *)
ModelForward(k) ==
  /\ pp_size = 0
  /\ past_kv' = [i \in 1 .. NumLayers |-> PastOf(i) \o Rows(i, ModelStart, k)]

(* PipelineStage.forward(): the caches of all layers, indexed by the place *)
(* of the layer in the stage, and the start position as it was passed.     *)
StageForward(i, start, k) ==
  LET layers == StageLayers(pp_size, i)
  IN [idx \in DOMAIN layers |-> PastOf(idx) \o Rows(layers[idx], start, k)]

(* forward_distributed(), with the start_pos that the engine leaves at 0.  *)
ForwardDistributed(k) ==
  /\ pp_size > 0
  /\ past_kv' = FlattenSeq([i \in 1 .. pp_size |-> StageForward(i, 0, k)])

DriverNext ==
  \E k \in 1 .. MaxPass :
    /\ fed + k <= MaxFed
    /\ ModelForward(k) \/ ForwardDistributed(k)
    /\ fed' = fed + k
    /\ UNCHANGED pp_size

DriverSpec == DriverInit /\ [][DriverNext]_driverVars

-----------------------------------------------------------------------------
TokensInOrder == \A i \in DOMAIN past_kv : \A j \in 1 .. fed : past_kv[i][j].token = j

OwnRows == \A i \in DOMAIN past_kv : \A j \in 1 .. fed : past_kv[i][j].layer = i

Consecutive == \A i \in DOMAIN past_kv : \A j \in 1 .. fed : past_kv[i][j].position = j - 1

(* However a prompt is cut into passes, every layer runs once in a pass    *)
(* and its cache has one row for each token fed, in order, for any number  *)
(* of stages.  Without stages to confuse, the rows are those of the layer, *)
(* and in the model itself they are at consecutive positions (forward of   *)
(* SubspaceCausalLM, partition_model_for_pipeline, PipelineStage.forward,  *)
(* forward_distributed).                                                   *)
CachesExact ==
  /\ fed > 0 => Len(past_kv) = NumLayers
  /\ \A i \in DOMAIN past_kv : Len(past_kv[i]) = fed
  /\ TokensInOrder
  /\ pp_size <= 1 => OwnRows
  /\ pp_size = 0 => Consecutive

(* distributed.py, forward_distributed: a "full forward pass" through the  *)
(* stages.  A driver would then leave the caches that the model leaves.    *)
DriverIsTheModel == OwnRows /\ Consecutive
=============================================================================
