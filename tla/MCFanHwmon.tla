----------------------------- MODULE MCFanHwmon -----------------------------
(* Instances of FanHwmon for TLC: two curve points, stock (40 C, 20%) and   *)
(* (70 C, 60%), a minimum of 30% that clamps the first point.               *)
EXTENDS FanHwmon, TLC

MCStock == <<[temp |-> 40, speed |-> 20], [temp |-> 70, speed |-> 60]>>

MCTempsZero == {0, 70000}
MCTempsOne  == {50000}
MCPwms      == {0, 128}

MCSymmetry == Permutations(Procs)
=============================================================================
