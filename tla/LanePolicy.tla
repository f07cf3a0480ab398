------------------------------- MODULE LanePolicy -------------------------------
(***************************************************************************)
(* class LanePolicy of turing/serving/traffic.py: the three QoS lanes, how *)
(* a request gets one, and what the scheduler asks of a lane.              *)
(***************************************************************************)
EXTENDS Integers

CONSTANTS
  NoLane,             (* None                                               *)
  PolicyOn,           (* the engine was given a LanePolicy                  *)
  LaneChunk,          (* [Lanes -> prefill chunk of the lane, in tokens]    *)
  PrefillChunkSize,   (* the engine's chunk when no lane applies            *)
  BatchAbove          (* max_tokens above this is BATCH (1024 in the code)  *)

Lanes == {"interactive", "batch", "background"}

ASSUME LaneAssumption ==
  /\ NoLane \notin Lanes
  /\ PolicyOn \in BOOLEAN
  /\ LaneChunk \in [Lanes -> Nat \ {0}]
  /\ PrefillChunkSize \in Nat \ {0}
  /\ BatchAbove \in Nat

Priority(lane) ==
  IF lane = "batch" THEN 1 ELSE IF lane = "background" THEN 2 ELSE 0

(* classify_request(max_tokens, stream=True), as add_request calls it.     *)
Classify(maxTokens) == IF maxTokens > BatchAbove THEN "batch" ELSE "interactive"

(* The lane of a request whose caller passed lane.                         *)
LaneFor(lane, maxTokens) ==
  IF lane = NoLane /\ PolicyOn THEN Classify(maxTokens) ELSE lane

(* The sort key of the waiting queue.                                      *)
SortKey(lane) == IF lane = NoLane THEN 0 ELSE Priority(lane)

(* The number of prompt tokens one iteration feeds for a request.          *)
ChunkBudget(lane) ==
  IF PolicyOn /\ lane # NoLane THEN LaneChunk[lane] ELSE PrefillChunkSize
=============================================================================
