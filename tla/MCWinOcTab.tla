------------------------------ MODULE MCWinOcTab ------------------------------
(* Instances of WinOcTab for TLC: two boards of one model, the second with  *)
(* locked settings, and stock curves of four points with three anchors.     *)
EXTENDS WinOcTab

CONSTANTS b70, dflt

MCKey           == [c \in Cards |-> b70]
MCOrder         == <<"power", "mem", "freq", "volt">>
MCLow           == [k \in Knobs |-> 0]
MCHigh          == [k \in Knobs |-> IF k = "freq" THEN 0 ELSE 1]
MCSliderDefault == [k \in Knobs |-> IF k = "power" THEN 1 ELSE 0]
MCCliCurves     == {<<3, 1>>}
MCPresets       == {[k \in {"volt", "mem"} |-> 1]}
MCStockKnob     == [c \in Cards |-> [k \in Knobs |-> 0]]
MCStockVf       == [c \in Cards |-> <<1, 1, 2, 3>>]
MCFirstFile     == [k \in Keys |-> IF k = b70 THEN Absent ELSE Blank]
===============================================================================
