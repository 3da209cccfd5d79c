------------------------------ MODULE FanControl ------------------------------
(***************************************************************************)
(* What the driver promises its users, without PCODE sequences, locks or    *)
(* flags: the fan follows the stock table, a curve, or runs at full speed;  *)
(* a change of that takes effect completely and at once, or not at all; the *)
(* mode that pwmN_enable reports always says which of the three it is; and  *)
(* no curve asks for less than the fan's minimum speed.                     *)
(***************************************************************************)
EXTENDS Integers

CONSTANTS Points,       \* the points of a table
          StockTable,   \* the table the firmware runs when left alone
          Curve         \* all tables

VARIABLES reported,     \* "stock", "curve" or "full"
          table,        \* the table the fan follows
          floor         \* minimum speed, fixed when the driver loads

avars == <<reported, table, floor>>

Init ==
  /\ floor \in 0..100
  /\ \/ reported = "stock" /\ table = StockTable
     \/ /\ reported = "curve"
        /\ table \in Curve
        /\ \A p \in Points : table[p].speed >= floor

HandBack == reported' = "stock" /\ table' = StockTable

Follow == /\ reported' = "curve"
          /\ table' \in Curve
          /\ \A p \in Points : table'[p].speed >= floor

FullSpeed == /\ reported' = "full"
             /\ table' \in Curve
             /\ \A p \in Points : table'[p].speed = 100

Next == (HandBack \/ Follow \/ FullSpeed) /\ UNCHANGED floor

Spec == Init /\ [][Next]_avars
=============================================================================
