----------------------------- MODULE MCFanCurve -----------------------------
(* Instances of FanCurve for TLC: three slots, a list with a point of its   *)
(* own for each, one shorter and out of order, so that both the padding and *)
(* the clamping are used, one with a point too many; a minimum of 30% that  *)
(* raises the first stock point.                                            *)
EXTENDS FanCurve

MCStock == <<[temp |-> 40, speed |-> 20], [temp |-> 60, speed |-> 45],
             [temp |-> 80, speed |-> 70]>>
MCCurves == {<< <<45, 80>>, <<65, 170>>, <<85, 255>> >>, << <<50, 120>>, <<50, 60>> >>,
             << <<40, 90>>, <<55, 130>>, <<70, 180>>, <<90, 255>> >>}

(* What the theorems of FanCurveProofs about the curves assume, for these   *)
(* values: TLC evaluates it before it explores.                             *)
ASSUME HypothesesHold == Undisturbed /\ InRange
=============================================================================
