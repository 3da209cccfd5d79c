----------------------------- MODULE MCWinFanTab -----------------------------
(* Instances of WinFanTab for TLC: two cards, a graph of a few temperatures *)
(* and speeds, and a table of three points.                                 *)
EXTENDS WinFanTab

CONSTANTS a, b, dflt

MCKey          == [c \in Cards |-> IF c = 1 THEN a ELSE b]
MCDefaultCurve == <<<<0, 0>>, <<2, 1>>>>
MCStockTable   == <<<<1, 0>>, <<2, 1>>>>
MCFlatTemps    == <<0, 2>>
MCFirstFile    == [k \in Keys |->
                     CASE k = a -> Absent
                       [] k = b -> [mode |-> "curve", curve |-> <<<<1, 0>>, <<3, 1>>>>]
                       [] OTHER -> [mode |-> "auto", curve |-> <<>>]]
===============================================================================
