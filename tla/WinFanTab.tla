------------------------------- MODULE WinFanTab -------------------------------
(***************************************************************************)
(* The Fan tab of the Windows GUI, from the mouse to the fan's table: the   *)
(* editor of the curve, the profile that Apply saves as text and the        *)
(* service reads back, and the table that is built from it.  Profiles are   *)
(* saved and applied in one step each; WinService has the interleavings.    *)
(*                                                                          *)
(* A point is <<temperature, speed>>.                                       *)
(***************************************************************************)
EXTENDS SequencesExt, TLC

CONSTANTS
  Cards,          \* adapters that the GUI has enumerated
  Key,            \* [Cards -> Keys]: AdapterInfo::key
  Keys, Default,  \* sections of the settings file; that of the empty key
  TempMax,        \* right end of the graph (100); the file takes up to ParseMax
  ParseMax,       \* 127
  SpeedMax,       \* 100
  PairCount,      \* points a fan table has room for (32)
  DefaultCurve,   \* what the editor shows for want of anything else
  StockTable,     \* what "auto" runs
  FlatTemps,      \* temperatures of the table that runs one speed
  Absent,         \* no such section
  Nothing,        \* no curve applied
  FirstFile,      \* the settings file that the GUI finds
  MaxEdits,       \* bound on the mouse's edits
  MaxSaves        \* bound on the saves

Temps  == 0..TempMax
Speeds == 0..SpeedMax
Spots  == Temps \X Speeds
Modes  == {"none", "auto", "max", "curve"}
Views  == {"fan", "other"}

ASSUME RangeAssumption ==
  /\ TempMax \in Nat /\ ParseMax \in Nat /\ TempMax <= ParseMax /\ SpeedMax \in Nat
  /\ PairCount \in Nat \ {0}
  /\ DefaultCurve \in Seq(Spots) /\ Len(DefaultCurve) >= 2
  /\ StockTable \in Seq(Spots) /\ Len(StockTable) \in 1..PairCount
  /\ FlatTemps \in Seq(Temps) /\ Len(FlatTemps) \in 1..PairCount
ASSUME KeyAssumption == Default \in Keys /\ Key \in [Cards -> Keys \ {Default}] /\ Cards # {}

(* Nodes of the editor and points of a file.  A temperature may be one that *)
(* is off the graph: from the file it is at most ParseMax, and dragging a   *)
(* node that has no room may push it below 0, and the next one further.     *)
Nodes    == {p \in Int \X Speeds : p[1] <= ParseMax}
Profiles == [mode : Modes, curve : Seq(Nodes)]
ASSUME FileAssumption ==
  Absent \notin Profiles /\ FirstFile \in [Keys -> Profiles \cup {Absent}]

VARIABLES
  gui,      \* g_ready, g_view, the selected card, g_curve and g_dragIdx
  file,     \* [Keys -> profile or Absent]: the fan settings of config.ini
  table,    \* [Cards -> the fan's table; empty while the driver has its own]
  history   \* what only the properties look at, and the two bounds

vars == <<gui, file, table, history>>

NoProfile == [mode |-> "none", curve |-> <<>>]
-----------------------------------------------------------------------------
(* Stable, as std::sort is for the few points that a table has room for:    *)
(* the n-th point is the one that n - 1 others come before.                 *)
Before(c, i, j) == c[i][1] < c[j][1] \/ (c[i][1] = c[j][1] /\ i < j)
Rank(c, j)      == Cardinality({i \in DOMAIN c : Before(c, i, j)}) + 1
Sorted(c)       == [n \in DOMAIN c |-> c[CHOOSE i \in DOMAIN c : Rank(c, i) = n]]

(* A slip: the bound of the graph instead of that of the sensor             *)
ReadableBelowMax(p) == p[1] \in 0..(TempMax - 1) /\ p[2] \in Speeds

(* A slip: a point out of range is taken as it is *)
ReadBackWhole(c) == Sorted(c)

(* parseFanCurve of what formatFanCurve wrote: the first point out of range *)
(* ends the reading, and the caller keeps the points before it.             *)
Readable(p) == p[1] \in 0..ParseMax /\ p[2] \in Speeds
ReadBack(c) ==
  LET s   == Sorted(c)
      bad == {i \in DOMAIN s : ~Readable(s[i])}
  IN IF bad = {} THEN s ELSE SubSeq(s, 1, Min(bad) - 1)

(* loadConfigFor: the card's own profile, else the default one              *)
Find(k) ==
  IF file[k] # Absent THEN file[k] ELSE IF file[Default] # Absent THEN file[Default] ELSE NoProfile
Load(k) == [Find(k) EXCEPT !.curve = ReadBack(@)]

(* A slip: the speeds are left as drawn *)
RisingAsDrawn(c) == c

(* Each speed is raised to the highest of the points up to it               *)
Rising(c) == [i \in DOMAIN c |-> <<c[i][1], Max({c[j][2] : j \in 1..i})>>]

(* A slip: a table that is just full is refused *)
FitsStrictly(c) == c # <<>> /\ Len(c) < PairCount
Fits(c) == c # <<>> /\ Len(c) <= PairCount

(* fanSetCurve, with what the fan runs if the curve is refused              *)
SetCurve(c, old) == IF Fits(c) THEN Rising(Sorted(c)) ELSE old

(* The fan part of applyProfile *)
Applied(p, old) ==
  CASE p.mode = "auto"  -> SetCurve(StockTable, old)
    [] p.mode = "max"   -> SetCurve([i \in DOMAIN FlatTemps |-> <<FlatTemps[i], SpeedMax>>], old)
    [] p.mode = "curve" -> SetCurve(p.curve, old)
    [] p.mode = "none"  -> old
-----------------------------------------------------------------------------
(* The editor.  The curve of a card is the saved one, else the live one     *)
(* (unless the fan cannot be read), else the default.                       *)
EditorCurves(c) ==
  LET p == Load(Key[c])
  IN {Sorted(x) : x \in IF p.mode = "curve" /\ Len(p.curve) >= 2 THEN {p.curve}
                        ELSE {DefaultCurve} \cup
                             (IF Len(table[c]) >= 2 THEN {table[c]} ELSE {})}

(* A slip: the editor keeps the curve it had *)
ShowWithoutLoading(v, c) ==
  /\ IF v = "fan" /\ gui.curve = <<>>
     THEN \E x \in EditorCurves(c) : gui' = [gui EXCEPT !.view = v, !.card = c, !.curve = x]
     ELSE gui' = [gui EXCEPT !.view = v, !.card = c]
  /\ history' = [history EXCEPT !.drawn = FALSE]

Show(v, c) ==
  /\ IF v = "fan"
     THEN \E x \in EditorCurves(c) : gui' = [gui EXCEPT !.view = v, !.card = c, !.curve = x]
     ELSE gui' = [gui EXCEPT !.view = v, !.card = c]
  /\ history' = [history EXCEPT !.drawn = FALSE]

SetView ==
  /\ gui.ready
  /\ \E v \in Views : Show(v, gui.card)
  /\ UNCHANGED <<file, table>>

Reselect ==
  /\ gui.ready
  /\ \E c \in Cards : Show(gui.view, c)
  /\ UNCHANGED <<file, table>>

InEditor == gui.ready /\ gui.view = "fan"

Edit(new) ==
  /\ history.edits < MaxEdits
  /\ gui' = [gui EXCEPT !.curve = new]
  /\ history' = [history EXCEPT !.edits = @ + 1, !.drawn = TRUE]
  /\ UNCHANGED <<file, table>>

(* hitNode: the first of the nodes under the mouse                          *)
HitNode(i) == \A j \in 1..(i - 1) : gui.curve[j] # gui.curve[i]

OnLDown ==
  /\ InEditor
  /\ \E i \in DOMAIN gui.curve : HitNode(i) /\ gui' = [gui EXCEPT !.drag = i]
  /\ UNCHANGED <<file, table, history>>

(* A node stays between its neighbours.  A node that a right click has      *)
(* removed meanwhile is written past the end, where nobody reads it.        *)
Dragged(i, p) ==
  LET lo == IF i > 1 THEN gui.curve[i - 1][1] + 1 ELSE 0
      hi == IF i < Len(gui.curve) THEN gui.curve[i + 1][1] - 1 ELSE TempMax
  IN <<Min({hi, Max({lo, p[1]})}), p[2]>>

OnMouseMove ==
  /\ InEditor
  /\ gui.drag \in DOMAIN gui.curve
  /\ \E p \in Spots : Edit([gui.curve EXCEPT ![gui.drag] = Dragged(gui.drag, p)])

OnLUp ==
  /\ gui.drag # 0
  /\ gui' = [gui EXCEPT !.drag = 0]
  /\ UNCHANGED <<file, table, history>>

OnDblClick ==
  /\ InEditor
  /\ \E p \in Spots : Edit(Sorted(Append(gui.curve, p)))

OnRDown ==
  /\ InEditor
  /\ Len(gui.curve) > 2
  /\ \E i \in DOMAIN gui.curve :
       /\ HitNode(i)
       /\ Edit([j \in 1..(Len(gui.curve) - 1) |->
                  IF j < i THEN gui.curve[j] ELSE gui.curve[j + 1]])

ResetCurve ==
  /\ InEditor
  /\ Edit(DefaultCurve)
-----------------------------------------------------------------------------
(* saveFanProfile: the rest of the profile stays as it was loaded           *)
SaveFanProfile(k, mode, curve) ==
  /\ history.saves < MaxSaves
  /\ file' = [file EXCEPT ![k] = [Load(k) EXCEPT !.mode = mode,
                                                 !.curve = IF mode = "curve" THEN curve ELSE @]]
  /\ history' = [history EXCEPT !.saves = @ + 1,
                                !.applied[k] = IF mode = "curve" THEN curve ELSE Nothing]
  /\ UNCHANGED <<gui, table>>

ApplyCurve == InEditor /\ SaveFanProfile(Key[gui.card], "curve", gui.curve)

AutoOrMax == InEditor /\ \E m \in {"auto", "max"} : SaveFanProfile(Key[gui.card], m, <<>>)

(* The tray's menu also works when no card was found: the key is empty then *)
Tray ==
  \E m \in {"auto", "max"} :
    SaveFanProfile(IF gui.ready THEN Key[gui.card] ELSE Default, m, <<>>)

(* The service applies a card's profile *)
Service(c) ==
  /\ \E p \in {Load(Key[c])} : table' = [table EXCEPT ![c] = Applied(p, @)]
  /\ UNCHANGED <<gui, file, history>>
-----------------------------------------------------------------------------
Init ==
  /\ gui \in [ready : BOOLEAN, view : {"other"}, card : {CHOOSE c \in Cards : TRUE},
              curve : {<<>>}, drag : {0}]
  /\ file = FirstFile
  /\ table = [c \in Cards |-> <<>>]
  /\ history = [drawn |-> FALSE, applied |-> [k \in Keys |-> Nothing],
                edits |-> 0, saves |-> 0]

Next ==
  \/ SetView \/ Reselect
  \/ OnLDown \/ OnMouseMove \/ OnLUp \/ OnDblClick \/ OnRDown \/ ResetCurve
  \/ ApplyCurve \/ AutoOrMax \/ Tray
  \/ \E c \in Cards : Service(c)

Spec == Init /\ [][Next]_vars

(* The service applies all profiles at every cycle of its loop              *)
FairSpec == Spec /\ \A c \in Cards : WF_vars(Service(c))
-----------------------------------------------------------------------------
TypeOK ==
  /\ gui.ready \in BOOLEAN /\ gui.view \in Views /\ gui.card \in Cards
  /\ gui.curve \in Seq(Nodes) /\ gui.drag \in Nat
  /\ file \in [Keys -> Profiles \cup {Absent}]
  /\ \A c \in Cards : table[c] \in Seq(Nodes) /\ Len(table[c]) <= PairCount
                     /\ \A i \in DOMAIN table[c] : table[c][i][1] >= 0

(* Whatever was drawn, dragged and saved: a fan's table is in order of      *)
(* temperature and never slower at a higher one.  The driver takes any      *)
(* other table and loses control of the fan.                                *)
TableSound ==
  \A c \in Cards : \A i, j \in DOMAIN table[c] :
    i < j => table[c][i][1] <= table[c][j][1] /\ table[c][i][2] <= table[c][j][2]

(* Until somebody draws on it, the curve on the Fan tab is point for point  *)
(* the one that the service reads for the selected card, whichever cards    *)
(* and tabs were shown and whatever was drawn and saved before: Apply is    *)
(* then without effect, and never gives a card the curve of another.        *)
ShownIsSaved ==
  InEditor /\ ~history.drawn =>
    LET p == Load(Key[gui.card])
    IN p.mode = "curve" /\ Len(p.curve) >= 2 => gui.curve = p.curve

(* A curve that was applied, with every point on the graph, is what the tab *)
(* shows when it is opened for that card again, whatever was drawn and not  *)
(* applied in between.                                                      *)
Opened(c) == gui' # gui /\ gui'.view = "fan" /\ (gui.view # "fan" \/ gui.card # c) /\ gui'.card = c
OnGraph(x) == \A i \in DOMAIN x : x[i] \in Spots
SamePoints(x, y) ==
  /\ Len(x) = Len(y)
  /\ \A p \in ToSet(x) \cup ToSet(y) : Cardinality({i \in DOMAIN x : x[i] = p}) = Cardinality({i \in DOMAIN y : y[i] = p})
AppliedComesBack ==
  [][\A c \in Cards :
       LET x == history.applied[Key[c]]
       IN Opened(c) /\ x # Nothing => (OnGraph(x) => SamePoints(gui'.curve, x))]_vars

(* A curve that was applied, fits the table and lies on the graph is in the *)
(* end what the fan follows, as long as nothing else is saved for the card: *)
(* point for point in order of temperature, at the highest speed that was   *)
(* drawn up to there.                                                       *)
Follows(t, x) ==
  /\ Len(t) = Len(x)
  /\ \A i \in DOMAIN t :
       /\ \E j \in DOMAIN x : x[j][1] <= t[i][1] /\ x[j][2] = t[i][2]
       /\ \A j \in DOMAIN x : x[j][1] < t[i][1] => x[j][2] <= t[i][2]
  /\ \A v \in Temps : Cardinality({i \in DOMAIN t : t[i][1] = v}) = Cardinality({i \in DOMAIN x : x[i][1] = v})
Usable(x) == x # Nothing /\ Len(x) <= PairCount /\ OnGraph(x)
DrawnIsRun ==
  \A c \in Cards : <>[](LET x == history.applied[Key[c]] IN Usable(x) => Follows(table[c], x))
-----------------------------------------------------------------------------
(* A statement of the source that the code does not keep                    *)

(* "Keep temperatures strictly ordered so the curve stays monotonic in x"   *)
(* (gui/main.cpp:917)                                                       *)
InOrder(x, i) ==
  /\ i > 1 => x[i - 1][1] < x[i][1]
  /\ i < Len(x) => x[i][1] < x[i + 1][1]
DragKeepsOrder == [][OnMouseMove => InOrder(gui'.curve, gui.drag)]_vars
===============================================================================
