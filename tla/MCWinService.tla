---------------------------- MODULE MCWinService ----------------------------
(* Instances of WinService for TLC: two cards with keys of their own, a     *)
(* fan mode in every profile to begin with; for the overclock-only run one  *)
(* card and a profile with an offset alone.                                 *)
EXTENDS WinService

CONSTANTS a, b, dflt, unset, quiet, loud, minus50, custom

MCKey       == [c \in {1, 2} |-> IF c = 1 THEN a ELSE b]
MCOneKey    == [c \in {1} |-> a]
MCFirstFile == [k \in {a, b, dflt} |->
                  CASE k = a    -> [fan |-> quiet, volt |-> minus50, curve |-> unset]
                    [] k = b    -> Absent
                    [] k = dflt -> [fan |-> loud, volt |-> unset, curve |-> unset]]
MCOcOnly    == [k \in {a, dflt} |->
                  IF k = a THEN [fan |-> unset, volt |-> minus50, curve |-> unset] ELSE Absent]
=============================================================================
