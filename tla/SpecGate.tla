-------------------------------- MODULE SpecGate --------------------------------
(***************************************************************************)
(* class SpeculationGatePolicy of turing/serving/spec_gate.py: a switch    *)
(* with hysteresis between full speculation and plain decoding, driven by  *)
(* the number of running requests.                                         *)
(***************************************************************************)
EXTENDS Naturals

CONSTANTS LowThreshold, HighThreshold

ASSUME GateAssumption ==
  /\ LowThreshold \in Nat
  /\ HighThreshold \in Nat

Modes == {"full_spec", "collapsed", "plain"}

(* gate_decision(active): the mode it leaves.  "collapsed" is never set.   *)
GateDecision(mode, active) ==
  IF active <= LowThreshold THEN "full_spec"
  ELSE IF active >= HighThreshold THEN "plain" ELSE mode
=============================================================================
