------------------------------ MODULE NativeTraffic ------------------------------
(***************************************************************************)
(* class NativeTrafficManager of csrc/turing_traffic_manager.hpp: the      *)
(* ledger of AdmissionController once more, with the same watermarks.      *)
(* admit() and release() hold the mutex, so that a call is one step.       *)
(*                                                                         *)
(* allocated_bytes_ is unsigned: subtraction wraps at 2^64, which a model  *)
(* integer below zero stands for.                                          *)
(***************************************************************************)
EXTENDS AdmissionControl

CONSTANT MaxNativeBytes   (* bound of the model on allocated_bytes_: it    *)
                          (* grows for good when a known id is admitted    *)

ASSUME NativeTrafficAssumption == MaxNativeBytes \in Nat

VARIABLES
  allocated_map_,      (* bytes of each id, 0 when it has no entry         *)
  allocated_bytes_,    (* the running sum                                  *)
  leaked_bytes         (* history: entries that were overwritten           *)

nativeVars == <<allocated_map_, allocated_bytes_, leaked_bytes>>

NativeInit ==
  /\ allocated_map_ = [id \in Ids |-> 0]
  /\ allocated_bytes_ = 0
  /\ leaked_bytes = 0

(* admit() when it answers "admit": the entry is replaced, the sum is      *)
(* charged with the whole estimate all the same.                           *)
NativeAdmit(id, est) ==
  /\ Decision(allocated_bytes_, est) = "admit"
  /\ allocated_map_' = [allocated_map_ EXCEPT ![id] = est]
  /\ allocated_bytes_' = allocated_bytes_ + est
  /\ allocated_bytes_' <= MaxNativeBytes
  /\ leaked_bytes' = leaked_bytes + allocated_map_[id]

(* Mutant: the entry is charged off and stays.                             *)
NativeReleaseKeeps(id) ==
  /\ allocated_bytes_' = allocated_bytes_ - allocated_map_[id]
  /\ UNCHANGED <<allocated_map_, leaked_bytes>>

(* release(), of an unknown id without effect.                             *)
NativeRelease(id) ==
  /\ allocated_bytes_' = allocated_bytes_ - allocated_map_[id]
  /\ allocated_map_' = [allocated_map_ EXCEPT ![id] = 0]
  /\ UNCHANGED leaked_bytes

NativeNext ==
  \E id \in Ids : NativeRelease(id) \/ \E est \in Estimates : NativeAdmit(id, est)

NativeSpec == NativeInit /\ [][NativeNext]_nativeVars

-----------------------------------------------------------------------------
(* The sum covers the entries, so that it never wraps below zero and the   *)
(* bytes of the admitted ids stay below the high watermark; the entries    *)
(* that a second admission overwrote, and nothing else, are counted for    *)
(* ever: the budget they take is lost until restart (admit, release).      *)
NativeSumCovers ==
  /\ allocated_bytes_ = BytesOf(allocated_map_, Ids) + leaked_bytes
  /\ BytesOf(allocated_map_, Ids) * 100 < HighPct * Budget
=============================================================================
