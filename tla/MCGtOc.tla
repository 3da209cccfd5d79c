-------------------------------- MODULE MCGtOc --------------------------------
(* Instances of GtOc for TLC: three points, lists that cover one, two or    *)
(* none of them, one above the ceiling and one with an index too high.      *)
EXTENDS GtOc, TLC

MCStockCurve  == <<600, 750, 900>>
MCLists       == {(1 :> 700), (2 :> 1300 @@ 3 :> 500), (4 :> 800)}
MCKnobs       == {"mem"}
MCKnobRange   == [k \in MCKnobs |-> <<14000, 24000>>]
MCStockKnob   == [k \in MCKnobs |-> 19000]
MCKnobChoices == {<<"mem", 20000>>, <<"mem", 13000>>}
===============================================================================
