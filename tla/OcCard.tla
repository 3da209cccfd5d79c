-------------------------------- MODULE OcCard --------------------------------
(* The voltage-frequency curve of a card as its users see it: what one      *)
(* whole store of listed points makes of it.  OcBoot takes such a store for *)
(* one step; GtOc has the mailbox calls it is made of.                      *)
EXTENDS Integers, Sequences

CONSTANTS
  OC_VF_NPTS,     \* points of the curve, all of which the card exposes
  StockCurve,     \* the curve the card powers up with, in mV
  VMIN, VMAX      \* what every voltage is clamped to

Points == 1..OC_VF_NPTS

ASSUME PointsAssumption == OC_VF_NPTS \in Nat \ {0}

(* A slip: no ceiling *)
ClampBelow(v, hi) == IF v < VMIN THEN VMIN ELSE v

Clamp(v, hi) == IF v < VMIN THEN VMIN ELSE IF v > hi THEN hi ELSE v

(* vf_curve_store: the points listed are clamped, the others kept *)
Store(c, f) == [p \in Points |-> IF p \in DOMAIN f THEN Clamp(f[p], VMAX) ELSE c[p]]
===============================================================================
