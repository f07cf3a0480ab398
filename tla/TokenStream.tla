------------------------------- MODULE TokenStream -------------------------------
(***************************************************************************)
(* What ContinuousBatchEngine.stream_generate promises one caller: it      *)
(* refuses the request, or hands out its tokens in order and then the end. *)
(* The engine is shown to implement it for each of its requests, and the   *)
(* HTTP handlers are modelled on top of it.                                *)
(***************************************************************************)
EXTENDS Integers

VARIABLES
  full,       (* the tokens that the request will get                      *)
  produced,   (* the tokens it has got so far                              *)
  taken,      (* the tokens that its reader has taken                      *)
  reader      (* "none", "reading", "ended", "rejected" or "gone"          *)

streamState == <<full, produced, taken, reader>>

StreamInit ==
  /\ produced = 0
  /\ taken = 0
  /\ reader = "none"

(* add_request() accepts the request; the caller of a fork that fails      *)
(* half-way never reads what it has opened.                                *)
Open ==
  /\ reader = "none"
  /\ reader' \in {"reading", "gone"}
  /\ UNCHANGED <<full, produced, taken>>

(* add_request() sheds the request.                                        *)
Refuse ==
  /\ reader = "none"
  /\ reader' = "rejected"
  /\ UNCHANGED <<full, produced, taken>>

(* The scheduler adds a token, whether there is a reader or not.           *)
Produce ==
  /\ reader \notin {"none", "rejected"}
  /\ produced < full
  /\ produced' = produced + 1
  /\ UNCHANGED <<full, taken, reader>>

TakeToken ==
  /\ reader = "reading"
  /\ taken < produced
  /\ taken' = taken + 1
  /\ UNCHANGED <<full, produced, reader>>

(* The end is behind the last token.                                       *)
TakeEnd ==
  /\ reader = "reading"
  /\ taken = full
  /\ reader' = "ended"
  /\ UNCHANGED <<full, produced, taken>>

LeaveStream ==
  /\ reader = "reading"
  /\ reader' = "gone"
  /\ UNCHANGED <<full, produced, taken>>

StreamNext == Open \/ Refuse \/ Produce \/ TakeToken \/ TakeEnd \/ LeaveStream

StreamSpec == StreamInit /\ [][StreamNext]_streamState
=============================================================================
