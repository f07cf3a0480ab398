------------------------------ MODULE RoutingHistory -----------------------------
(***************************************************************************)
(* class RoutingHistoryTracker of turing/core/expert_cache.py with its     *)
(* native twin, NativeRoutingHistoryTracker of                             *)
(* csrc/turing_routing_history.hpp, over the sessions of a program: both   *)
(* count the same routes, the ranking is taken from the twin when there is *)
(* one, and the file holds what the Python side counted.                   *)
(*                                                                         *)
(* One layer stands for all, its experts are within the twin's 64, and the *)
(* decay factor is one half, which int and uint32_t truncate alike.        *)
(***************************************************************************)
EXTENDS Integers

CONSTANTS
  RoutedExperts,   (* expert ids                                           *)
  MaxCount,        (* bound of the model on a count                        *)
  HistoryBuilds,   (* whether _native is there: the values to check        *)
  NoFile

ASSUME HistoryAssumption == MaxCount \in Nat /\ HistoryBuilds \subseteq BOOLEAN

VARIABLES
  counts,          (* 0 for a missing key                                  *)
  native_counts,   (* counts_ of the twin                                  *)
  history_file,    (* what save() wrote                                    *)
  has_native,
  restored         (* history: load() was called in this session           *)

historyVars == <<counts, native_counts, history_file, has_native, restored>>

NoCounts == [e \in RoutedExperts |-> 0]

HistoryInit ==
  /\ counts = NoCounts /\ native_counts = NoCounts /\ history_file = NoFile
  /\ has_native \in HistoryBuilds
  /\ restored = FALSE

Halved(c) == [e \in RoutedExperts |-> c[e] \div 2]

(* Mutant: a count is rounded up and never leaves the ranking.             *)
HalvedUp(c) == [e \in RoutedExperts |-> (c[e] + 1) \div 2]

(* The twin's decay(), which keeps an expert with count 0 in its array.    *)
NativeHalved(c) == [e \in RoutedExperts |-> c[e] \div 2]

(* record_route(), of a list in which an expert may stand twice.           *)
RecordRoute(e, times) ==
  /\ counts[e] + times <= MaxCount /\ native_counts[e] + times <= MaxCount
  /\ counts' = [counts EXCEPT ![e] = @ + times]
  /\ native_counts' = IF has_native THEN [native_counts EXCEPT ![e] = @ + times] ELSE NoCounts
  /\ UNCHANGED <<history_file, has_native, restored>>

(* decay()                                                                 *)
DecayCounts ==
  /\ counts' = Halved(counts)
  /\ native_counts' = NativeHalved(native_counts)
  /\ UNCHANGED <<history_file, has_native, restored>>

(* save() and load(): the file knows nothing of the twin.                  *)
SaveHistory ==
  /\ history_file' = counts
  /\ UNCHANGED <<counts, native_counts, has_native, restored>>

LoadHistory ==
  /\ history_file # NoFile
  /\ counts' = history_file
  /\ restored' = TRUE
  /\ UNCHANGED <<native_counts, history_file, has_native>>

(* The program ends and starts again, with a new tracker.                  *)
NewSession ==
  /\ counts' = NoCounts /\ native_counts' = NoCounts /\ restored' = FALSE
  /\ UNCHANGED <<history_file, has_native>>

HistoryNext ==
  \/ \E e \in RoutedExperts, times \in 1 .. 2 : RecordRoute(e, times)
  \/ DecayCounts \/ SaveHistory \/ LoadHistory \/ NewSession

HistorySpec == HistoryInit /\ [][HistoryNext]_historyVars

(* What get_top_k_experts() ranks the experts by.                          *)
RankedBy == IF has_native THEN native_counts ELSE counts

-----------------------------------------------------------------------------
(* As long as no history was loaded into a twin, the ranking is the same   *)
(* in both builds, and without a twin also across sessions: it is by the   *)
(* routes that were counted and decayed (record_route, decay,              *)
(* get_top_k_experts).                                                     *)
RankingIsTheCounts == ~(has_native /\ restored) => RankedBy = counts
=============================================================================
