------------------------- MODULE MCContinuousBatchEngine -------------------------
(* Instances of ContinuousBatchEngine for TLC.  One token is one byte in    *)
(* most runs.  The estimates of the first three requests, 6, 5 and 5 of a   *)
(* budget of 12, meet all three decisions: b and c are admitted together    *)
(* (below 10.8), a with one of them is in the QUEUE band, a with both is    *)
(* shed.                                                                    *)
EXTENDS ContinuousBatchEngine, TLC

CONSTANTS a, b, c

MCLaneChunk == [l \in Lanes |-> IF l = "interactive" THEN 2 ELSE 1]

(* Three lanes, prompts of two or three chunks.                             *)
MCPromptLen == (a :> 3) @@ (b :> 2) @@ (c :> 3)
MCMaxNew == (a :> 3) @@ (b :> 3) @@ (c :> 2)
MCLaneArg == (a :> NoLane) @@ (b :> "batch") @@ (c :> "background")
MCUseSvd == [r \in Ids |-> FALSE]

(* An empty prompt, a request for no tokens, a compressed estimate.         *)
MCPromptLenEmpty == (a :> 1) @@ (b :> 2) @@ (c :> 0)
MCMaxNewZero == (a :> 0) @@ (b :> 3) @@ (c :> 2)
MCUseSvdOne == [r \in Ids |-> r = b]

(* Forks of which the first, the second or no branch is shed.              *)
MCForks == {<<a, b>>, <<c, b>>}
MCForkOne == {<<a, b>>}

(* Short requests of two lanes, for the run that submits for ever.          *)
MCPromptLenShort == [r \in Ids |-> 1]
MCMaxNewShort == (a :> 2) @@ (b :> 2) @@ (c :> 1)

(* Two requests with estimate 11, in the QUEUE band of a budget of 12.      *)
MCPromptLenBand == [r \in Ids |-> 6]
MCMaxNewBand == [r \in Ids |-> 5]
MCLaneArgOne == [r \in Ids |-> "interactive"]

(* The lanes of the run about the prefill, and of the one that submits for  *)
(* ever: with three tokens at most, b is interactive too.                   *)
MCLaneArgTwo == (a :> "interactive") @@ (b :> NoLane) @@ (c :> "background")
=============================================================================
