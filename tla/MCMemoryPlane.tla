----------------------------- MODULE MCMemoryPlane ------------------------------
(* Instance of MemoryPlane for TLC.  Experts, and requests, are            *)
(* interchangeable.                                                        *)
EXTENDS MemoryPlane, TLC

ExpertsAndRequests == Permutations(Experts) \cup Permutations(Requests)
=============================================================================
