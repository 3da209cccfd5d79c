------------------------------- MODULE WinOcTab -------------------------------
(***************************************************************************)
(* The Overclock tab of the Windows GUI beside the command line, the        *)
(* service and the cards: which settings of which card end up in which      *)
(* profile, and which of those the cards take.  Boards of one model share a *)
(* profile, and the firmware of some of them locks part of the settings.    *)
(* Profiles are saved and applied in one step each; WinService has the      *)
(* interleavings, and what becomes of fans is WinFanTab's.                  *)
(*                                                                          *)
(* A setting is a knob (a slider) or the voltage curve, whose frequencies   *)
(* are those of the card it was read from and are never edited.             *)
(***************************************************************************)
EXTENDS SequencesExt, TLC

CONSTANTS
  Cards,          \* adapters, all enumerated
  Key,            \* [Cards -> Keys]: AdapterInfo::key
  Keys, Default,  \* sections of the settings file; that of the empty key
  Order,          \* the knobs, in the order that a profile is applied
  Lockable,       \* knobs of which b70Gated says so (volt, temp, mem)
  Locked,         \* cards whose firmware refuses those, and curves
  Low, High,      \* [Knobs -> Int]: ends of the sliders
  SliderDefault,  \* [Knobs -> Int]: what a slider shows for want of better
  CliValues,      \* values that are typed for any knob
  CliCurves,      \* voltages of curves that are typed
  Presets,        \* functions from knobs to values
  StockKnob,      \* [Cards -> [Knobs -> Int]]: what cards start with
  StockVf,        \* [Cards -> voltages of the stock curve]
  MaxAnchors,     \* points of a curve that can be dragged (8)
  Below, Above,   \* margins of the graph around the stock curve (40, 60 mV)
  Unset, Absent, Nothing,
  FirstFile,      \* the settings file that the GUI finds
  MaxEdits,       \* bound on what happens beside saves
  MaxSaves        \* bound on the saves

Knobs == {Order[i] : i \in DOMAIN Order}

ASSUME KnobAssumption ==
  /\ "power" \in Knobs /\ "volt" \in Lockable /\ Lockable \subseteq Knobs \ {"power"}
  /\ Low \in [Knobs -> Int] /\ High \in [Knobs -> Int] /\ \A k \in Knobs : Low[k] <= High[k]
  /\ SliderDefault \in [Knobs -> Int]
ASSUME CardAssumption ==
  /\ Cards # {} /\ Default \in Keys /\ Key \in [Cards -> Keys \ {Default}]
  /\ Locked \subseteq Cards
  /\ StockVf \in [Cards -> Seq(Nat) \ {<<>>}]
  /\ \A c \in Cards : \A i \in 2..Len(StockVf[c]) : StockVf[c][i - 1] <= StockVf[c][i]
  /\ MaxAnchors \in Nat /\ MaxAnchors >= 2 /\ Below \in Nat /\ Above \in Nat
ASSUME ValueAssumption ==
  /\ StockKnob \in [Cards -> [Knobs -> Int]] /\ CliValues \subseteq Int /\ CliCurves \subseteq Seq(Nat)
  /\ \A p \in Presets : \A k \in DOMAIN p : p[k] \in Int

VARIABLES
  gui,      \* the view, the selected card and the controls of the tab
  file,     \* [Keys -> profile or Absent]: overclock settings of config.ini
  named,    \* a named profile or Absent
  hw,       \* [Cards -> settings in force]
  history   \* what only the properties look at, and the two bounds

vars == <<gui, file, named, hw, history>>

NoCurve == [of |-> Nothing, mv |-> <<>>]
Blank   == [apply |-> FALSE, knob |-> [k \in Knobs |-> Unset], vf |-> NoCurve]
Stock(c) == [knob |-> StockKnob[c], vf |-> NoCurve]
-----------------------------------------------------------------------------
(* Profiles and cards *)

Find(k) ==
  IF file[k] # Absent THEN file[k] ELSE IF file[Default] # Absent THEN file[Default] ELSE Blank

Accepts(c, k) == c \notin Locked \/ k \notin Lockable

(* A slip: the first refusal ends it, as in a chain of && *)
AppliedUntilRefused(p, c, h) ==
  LET wanted == {i \in DOMAIN Order : p.knob[Order[i]] # Unset}
      done   == {Order[i] : i \in {j \in wanted : \A l \in wanted : l <= j => Accepts(c, Order[l])}}
  IN IF ~p.apply THEN h
     ELSE [knob |-> [k \in Knobs |-> IF k \in done THEN p.knob[k] ELSE h.knob[k]],
           vf   |-> IF p.vf # NoCurve /\ Accepts(c, "volt") THEN p.vf
                    ELSE IF "volt" \in done THEN NoCurve ELSE h.vf]

(* The overclock part of applyProfile goes on past what the card refuses.   *)
(* The later of an offset and a curve is what the card follows.             *)
Applied(p, c, h) ==
  LET done == {k \in Knobs : p.knob[k] # Unset /\ Accepts(c, k)}
  IN IF ~p.apply THEN h
     ELSE [knob |-> [k \in Knobs |-> IF k \in done THEN p.knob[k] ELSE h.knob[k]],
           vf   |-> IF p.vf # NoCurve /\ Accepts(c, "volt") THEN p.vf
                    ELSE IF "volt" \in done THEN NoCurve ELSE h.vf]
-----------------------------------------------------------------------------
(* The sliders *)

(* A slip: the slider takes what it is told *)
OnSliderAsGiven(k, v) == v
OnSlider(k, v) == IF v < Low[k] THEN Low[k] ELSE IF v > High[k] THEN High[k] ELSE v

(* A slip: whether a card is gated is found out once *)
GatedAsBefore(reported, stock) ==
  IF history.shown = Nothing THEN reported \cap Lockable = {} \/ Len(stock.mv) < 2 ELSE gui.gated
Gated(reported, stock) == reported \cap Lockable = {} \/ Len(stock.mv) < 2

(* loadOcFields.  Each reading of the card's state may fail, and so may     *)
(* that of its curve; what is locked is not reported.                       *)
Loaded(v, c, reported, stock) ==
  LET p == Find(Key[c])
      Value(k) == IF p.knob[k] # Unset THEN p.knob[k]
                  ELSE IF k \in reported THEN hw[c].knob[k] ELSE SliderDefault[k]
  IN [view |-> v, card |-> c,
      pos |-> [k \in Knobs |-> OnSlider(k, Value(k))],
      gated |-> Gated(reported, stock),
      curveMode |-> p.vf # NoCurve,
      edit |-> IF p.vf # NoCurve THEN p.vf ELSE stock,
      stock |-> stock]

LoadOcFields(v, c) ==
  /\ gui' \in {Loaded(v, c, reported, stock) :
                reported \in SUBSET {k \in Knobs : Accepts(c, k)},
                stock \in {NoCurve} \cup
                          (IF c \in Locked THEN {} ELSE {[of |-> c, mv |-> StockVf[c]]})}
  /\ history' = [history EXCEPT !.shown = c]

Show(v, c) ==
  IF v = "oc" THEN LoadOcFields(v, c)
  ELSE gui' = [gui EXCEPT !.view = v, !.card = c] /\ UNCHANGED history

SetView  == (\E v \in {"oc", "other"} : Show(v, gui.card)) /\ UNCHANGED <<file, named, hw>>
Reselect == (\E c \in Cards : Show(gui.view, c)) /\ UNCHANGED <<file, named, hw>>

OnTab == gui.view = "oc"

Edit(g) ==
  /\ history.edits < MaxEdits
  /\ gui' = g
  /\ history' = [history EXCEPT !.edits = @ + 1]
  /\ UNCHANGED <<file, named, hw>>

MoveSlider ==
  /\ OnTab
  /\ \E k \in Knobs :
       /\ k \in Lockable => ~gui.gated
       /\ k = "volt" => ~gui.curveMode
       /\ \E v \in Low[k]..High[k] : Edit([gui EXCEPT !.pos[k] = v])

ApplyPreset ==
  /\ OnTab /\ ~gui.gated
  /\ \E p \in Presets :
       Edit([gui EXCEPT !.pos = [k \in Knobs |-> IF k \in DOMAIN p THEN OnSlider(k, p[k]) ELSE @[k]]])

ToggleCurve ==
  /\ OnTab /\ Len(gui.stock.mv) >= 2 /\ ~gui.gated
  /\ Edit([gui EXCEPT !.curveMode = ~@,
                      !.edit = IF ~gui.curveMode /\ Len(@.mv) < 2 THEN gui.stock ELSE @])
-----------------------------------------------------------------------------
(* The curve *)

VfLow(mv)  == IF Min(ToSet(mv)) > Below THEN Min(ToSet(mv)) - Below ELSE 0
VfHigh(mv) == Max(ToSet(mv)) + Above

Anchors(n) ==
  LET k == Min({MaxAnchors, n})
  IN [a \in 1..k |-> 1 + ((a - 1) * (n - 1)) \div (k - 1)]

(* lround of the straight line from x to y, num/den of the way: halves go   *)
(* up, whether the line rises or falls, for no voltage is negative.         *)
Between(x, y, num, den) == (2 * (x * den + (y - x) * num) + den) \div (2 * den)

Interpolated(mv) ==
  LET at == Anchors(Len(mv))
  IN [i \in DOMAIN mv |->
        IF i \in ToSet(at) THEN mv[i]
        ELSE LET a == Max({b \in DOMAIN at : at[b] < i})
             IN Between(mv[at[a]], mv[at[a + 1]], i - at[a], at[a + 1] - at[a])]

(* Slips: no second pass; a second pass that lowers                         *)
ReinterpOnce(mv) == Interpolated(mv)
ReinterpLowering(mv) ==
  LET x == Interpolated(mv) IN [i \in DOMAIN x |-> Min({x[j] : j \in i..Len(x)})]

(* Voltages between anchors, then none below one before it                  *)
Reinterp(mv) ==
  LET x == Interpolated(mv) IN [i \in DOMAIN x |-> Max({x[j] : j \in 1..i})]

(* Pressing the button on an anchor and moving the mouse once               *)
Drag(a, to) ==
  LET mv == gui.edit.mv
  IN Edit([gui EXCEPT !.edit.mv = Reinterp([mv EXCEPT ![Anchors(Len(mv))[a]] = to])])

OnOcMove ==
  /\ OnTab /\ gui.curveMode /\ ~gui.gated
  /\ \E a \in DOMAIN Anchors(Len(gui.edit.mv)),
        to \in VfLow(gui.stock.mv)..VfHigh(gui.stock.mv) : Drag(a, to)
-----------------------------------------------------------------------------
(* Saving *)

Save(k, p) ==
  /\ history.saves < MaxSaves
  /\ file' = [file EXCEPT ![k] = p]

(* A slip: the curve of before stays beside the offset                      *)
TabProfileKeepingCurve(g, p) ==
  LET curve  == g.curveMode /\ ~g.gated /\ Len(g.edit.mv) >= 2
      saved  == Knobs \ (IF g.gated THEN Lockable ELSE IF curve THEN {"volt"} ELSE {})
  IN [apply |-> TRUE, knob |-> [k \in Knobs |-> IF k \in saved THEN g.pos[k] ELSE Unset],
      vf    |-> IF curve THEN g.edit ELSE IF g.gated THEN NoCurve ELSE p.vf]

(* What applyOc makes of the profile p: power and frequency always, the     *)
(* rest where the card is not gated, an offset or a curve.                  *)
TabProfile(g, p) ==
  LET curve  == g.curveMode /\ ~g.gated /\ Len(g.edit.mv) >= 2
      saved  == Knobs \ (IF g.gated THEN Lockable ELSE IF curve THEN {"volt"} ELSE {})
  IN [apply |-> TRUE, knob |-> [k \in Knobs |-> IF k \in saved THEN g.pos[k] ELSE Unset],
      vf    |-> IF curve THEN g.edit ELSE NoCurve]

ApplyControls(g) ==
  LET k == Key[g.card]
  IN /\ Save(k, TabProfile(g, Find(k)))
     /\ gui' = g
     /\ history' = [history EXCEPT !.saves = @ + 1, !.applied[k] = g]
     /\ UNCHANGED <<named, hw>>

ApplyOc == OnTab /\ ApplyControls(gui)

ResetOc ==
  /\ OnTab
  /\ ApplyControls([gui EXCEPT !.pos =
       [k \in Knobs |-> IF k = "power" THEN @[k] ELSE OnSlider(k, SliderDefault[k])]])

CliSaves(k, p) ==
  /\ Save(k, p)
  /\ history' = [history EXCEPT !.saves = @ + 1, !.applied[k] = Nothing]
  /\ UNCHANGED gui

(* oc freq, volt, mem, temp and tune power: the card first, and only what   *)
(* it takes is saved.                                                       *)
CmdOcKnob(c) ==
  \E k \in Knobs, v \in CliValues :
    LET one == [Blank EXCEPT !.apply = TRUE, !.knob[k] = v]
    IN /\ Accepts(c, k)
       /\ hw' = [hw EXCEPT ![c] = Applied(one, c, @)]
       /\ CliSaves(Key[c], [Find(Key[c]) EXCEPT !.apply = TRUE, !.knob[k] = v])
       /\ UNCHANGED named

(* oc profile load: a named profile has no curve, and the one saved stays   *)
CmdOcProfileLoad(c) ==
  /\ named # Absent
  /\ hw' = [hw EXCEPT ![c] = Applied(named, c, @)]
  /\ CliSaves(Key[c], [Find(Key[c]) EXCEPT !.apply = named.apply, !.knob = named.knob])
  /\ UNCHANGED named
-----------------------------------------------------------------------------
(* What else changes a card, and named profiles *)

Beside ==
  /\ history.edits < MaxEdits
  /\ history' = [history EXCEPT !.edits = @ + 1]
  /\ UNCHANGED <<gui, file>>

CmdOcProfileSave(c) ==
  /\ Beside
  /\ named' = [Blank EXCEPT !.apply = TRUE,
                            !.knob = [k \in Knobs |-> IF Accepts(c, k) THEN hw[c].knob[k] ELSE Unset]]
  /\ UNCHANGED hw

CmdOcProfileDelete == named # Absent /\ Beside /\ named' = Absent /\ UNCHANGED hw

CmdOcVfcurve(c) ==
  /\ c \notin Locked
  /\ Beside
  /\ \E mv \in CliCurves : hw' = [hw EXCEPT ![c].vf = [of |-> Nothing, mv |-> mv]]
  /\ UNCHANGED named

(* oc reset: the profile stays, so the service undoes it.  The resets that  *)
(* come from the driver leave handles stale, and are WinService's.          *)
CmdOcReset(c) == Beside /\ hw' = [hw EXCEPT ![c] = Stock(c)] /\ UNCHANGED named

Service(c) ==
  /\ hw' = [hw EXCEPT ![c] = Applied(Find(Key[c]), c, @)]
  /\ UNCHANGED <<gui, file, named, history>>
-----------------------------------------------------------------------------
Init ==
  /\ gui = [view |-> "other", card |-> CHOOSE c \in Cards : TRUE, pos |-> Low, gated |-> FALSE,
            curveMode |-> FALSE, edit |-> NoCurve, stock |-> NoCurve]
  /\ file = FirstFile
  /\ named = Absent
  /\ hw = [c \in Cards |-> Stock(c)]
  /\ history = [shown |-> Nothing, applied |-> [k \in Keys |-> Nothing], edits |-> 0, saves |-> 0]

Next ==
  \/ SetView \/ Reselect \/ MoveSlider \/ ApplyPreset \/ ToggleCurve \/ OnOcMove
  \/ ApplyOc \/ ResetOc \/ CmdOcProfileDelete
  \/ \E c \in Cards : \/ CmdOcKnob(c) \/ CmdOcProfileLoad(c) \/ CmdOcProfileSave(c)
                      \/ CmdOcVfcurve(c) \/ CmdOcReset(c) \/ Service(c)

Spec == Init /\ [][Next]_vars

(* The service applies all profiles at every cycle of its loop              *)
FairSpec == Spec /\ \A c \in Cards : WF_vars(Service(c))
-----------------------------------------------------------------------------
Curves   == [of : Cards \cup {Nothing}, mv : Seq(Nat)]
Profiles == [apply : BOOLEAN, knob : [Knobs -> Int \cup {Unset}], vf : Curves]

ASSUME SentinelAssumption == Unset \notin Int /\ Absent \notin Profiles

TypeOK ==
  /\ gui.view \in {"oc", "other"} /\ gui.card \in Cards
  /\ \A k \in Knobs : gui.pos[k] \in Low[k]..High[k]
  /\ gui.gated \in BOOLEAN /\ gui.curveMode \in BOOLEAN
  /\ gui.edit \in Curves /\ gui.stock \in Curves
  /\ file \in [Keys -> Profiles \cup {Absent}]
  /\ named \in Profiles \cup {Absent}
  /\ \A c \in Cards : hw[c].knob \in [Knobs -> Int] /\ hw[c].vf \in Curves

(* As many points as the card it comes from, none below one before it, and  *)
(* within the graph's margins around the stock curves of that model         *)
Sound(x) ==
  LET model == {c \in Cards : Key[c] = Key[x.of]}
  IN \/ x = NoCurve
     \/ /\ Len(x.mv) = Len(StockVf[x.of])
        /\ \A i \in 2..Len(x.mv) : x.mv[i - 1] <= x.mv[i]
        /\ \A i \in DOMAIN x.mv : /\ \E c \in model : x.mv[i] >= VfLow(StockVf[c])
                                  /\ \E c \in model : x.mv[i] <= VfHigh(StockVf[c])
(* Nobody but the tab saves curves, for a card that it shows                *)
ASSUME FileAssumption ==
  /\ FirstFile \in [Keys -> Profiles \cup {Absent}]
  /\ \A k \in Keys : FirstFile[k] # Absent /\ FirstFile[k].vf # NoCurve =>
       LET x == FirstFile[k].vf
       IN k # Default /\ x.of \in Cards /\ Key[x.of] = k /\ Len(x.mv) >= 2 /\ Sound(x)

(* However it was dragged, saved and loaded, a curve on the tab or in the   *)
(* file, and one in force that was not typed, never asks for less voltage   *)
(* at a higher frequency, has as many points as the card it comes from, and *)
(* stays within the graph's margins around the stock curves of that model.  *)
CurvesSound ==
  /\ Sound(gui.edit)
  /\ \A k \in Keys : file[k] # Absent => Sound(file[k].vf)
  /\ \A c \in Cards : hw[c].vf.of # Nothing => Sound(hw[c].vf)

(* Apply and Reset for a card whose firmware locks settings save none of    *)
(* those, whichever card the tab showed before.                             *)
LockedUnsaved ==
  [][gui.card \in Locked /\ history'.saves # history.saves /\ (ApplyOc \/ ResetOc) =>
       LET p == file'[Key[gui.card]]
       IN p.vf = NoCurve /\ \A k \in Lockable : p.knob[k] = Unset]_vars

(* Dragging an anchor moves no anchor before it, takes it no lower than the *)
(* one before it, and moves the ones after it only as far up as it goes.    *)
DragMovesUpOnly ==
  [][gui'.edit.mv # gui.edit.mv /\ OnTab /\ gui.curveMode /\ ~gui.gated =>
       LET at  == Anchors(Len(gui.edit.mv))
           old == [b \in DOMAIN at |-> gui.edit.mv[at[b]]]
           new == [b \in DOMAIN at |-> gui'.edit.mv[at[b]]]
       IN \A a \in DOMAIN at, to \in VfLow(gui.stock.mv)..VfHigh(gui.stock.mv) : Drag(a, to) =>
            \A b \in DOMAIN at :
              new[b] = IF b < a THEN old[b]
                       ELSE IF b = a THEN Max({to} \cup {old[d] : d \in 1..(a - 1)})
                       ELSE Max({old[b], new[a]})]_vars

(* What was applied on the tab is what it shows when it is opened again for *)
(* a card of that model, unless the command line has saved since: the       *)
(* sliders that were saved, and the curve exactly if it was a curve.        *)
Opened(c) == history'.shown = c /\ gui'.view = "oc" /\ (gui.view # "oc" \/ gui.card # c) /\ gui'.card = c
AppliedIsShown ==
  [][\A c \in Cards :
       LET g == history.applied[Key[c]]
       IN Opened(c) /\ g # Nothing =>
            LET curve == g.curveMode /\ ~g.gated
            IN /\ \A k \in Knobs \ (IF g.gated THEN Lockable ELSE IF curve THEN {"volt"} ELSE {}) :
                    gui'.pos[k] = g.pos[k]
               /\ gui'.curveMode = curve
               /\ curve => gui'.edit = g.edit]_vars

(* Once nobody changes anything any more, every card ends up with each of   *)
(* the settings of its profile that its firmware takes, also those that     *)
(* come after one it refuses, and after an oc reset.  The service's handles *)
(* are good throughout: for what follows a reset of the driver, see         *)
(* WinService.                                                              *)
InForce(c) ==
  LET p == Find(Key[c])
  IN p.apply => /\ \A k \in Knobs : p.knob[k] # Unset /\ Accepts(c, k) => hw[c].knob[k] = p.knob[k]
                /\ p.vf # NoCurve /\ Accepts(c, "volt") => hw[c].vf = p.vf
                /\ p.vf = NoCurve /\ p.knob["volt"] # Unset /\ Accepts(c, "volt") => hw[c].vf = NoCurve
SettingsInForce == \A c \in Cards : <>[]InForce(c)
===============================================================================
