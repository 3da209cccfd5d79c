------------------------------ MODULE MCOcBoot ------------------------------
(* Instances of OcBoot for TLC: a curve of two points, one choice of every  *)
(* kind beside stock, a list that is refused, and two tries of the service  *)
(* instead of fifteen.                                                      *)
EXTENDS OcBoot, TLC

MCStockCurve  == <<600, 900>>
MCKnobs       == <<"mem">>
MCStockKnob   == [k \in {"mem"} |-> 19000]
MCOffsets     == {<<-50, 1200>>, <<0, 800>>}
MCOneOffset   == {<<400, 1100>>}
MCCurves      == {(1 :> 1100), (2 :> 1300)}
MCKnobChoices == {<<"mem", 20000>>}
MCReadsOk     == {"ok"}
MCReadsAll    == {"ok", "short", "error"}

MCSymmetry  == Permutations(Users)
=============================================================================
