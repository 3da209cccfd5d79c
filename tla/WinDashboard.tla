------------------------------ MODULE WinDashboard ------------------------------
(***************************************************************************)
(* The dashboard of the Windows GUI: the timer samples the selected card,   *)
(* rates come from two samples, every tile keeps a graph, and a menu picks  *)
(* the tiles.  All of it is one thread, but the menu lets the timer in, and *)
(* any call of the driver may fail.                                         *)
(*                                                                          *)
(* Of a value the model keeps the card that it was read from; of a counter  *)
(* also its size.                                                           *)
(***************************************************************************)
EXTENDS SequencesExt, TLC

CONSTANTS
  Cards,        \* adapters that the GUI has enumerated
  First,        \* those it may have selected at its start
  Counters,     \* tiles whose value is a rate: power, util, render, ...
  Order,        \* all tiles, as buildMetricRows lists them
  Provided,     \* [Cards -> counters that the card reports]
  Modules,      \* [Cards -> memory modules]
  HistLen,      \* values of a graph (120)
  Nothing,
  MaxTime,      \* bound on a card's clock
  MaxEvents     \* bound on what the user does, resets, and changes of what fails

Calls == {"telemetry", "fan", "memory"}
Tiles == ToSet(Order)

ASSUME TileAssumption ==
  /\ {"clock", "fan", "vram", "throttle"} \subseteq Tiles \ Counters /\ Counters \subseteq Tiles
  /\ Order \in Seq(Tiles) /\ IsInjective(Order)
  /\ First \subseteq Cards
  /\ Provided \in [Cards -> SUBSET Counters]
  /\ \A c \in Cards : Modules[c] # {}
  /\ HistLen \in Nat \ {0} /\ MaxTime \in Nat

VARIABLES
  gui,      \* card, g_prev, g_metrics, g_fanPct, g_mem, g_hist, g_menuMetricIds
  popup,    \* the open menu: its items, <<tile, checked>>
  hidden,   \* tiles that g_metricVis has as not visible
  hw,       \* [Cards -> clock, counters, session of the driver, failing calls]
  events    \* number of them

vars == <<gui, popup, hidden, hw, events>>
-----------------------------------------------------------------------------
NoSample  == [of |-> Nothing, session |-> 0, time |-> 0, count |-> [k \in Counters |-> 0], has |-> {}]
NoMetrics == [of |-> Nothing, rate |-> [k \in {} |-> 0]]
NoMemory  == [of |-> Nothing, modules |-> {}]

(* sampleTelemetry, if the driver lets it *)
Sample(c) ==
  [of |-> c, session |-> hw[c].session, time |-> hw[c].time, count |-> hw[c].count, has |-> Provided[c]]

Samples(c) == {Sample(c)} \cup (IF "telemetry" \in hw[c].failing THEN {NoSample} ELSE {})

(* readMemory adds up the modules that can be read, and fails without one   *)
Memories(c) ==
  {[of |-> c, modules |-> m] : m \in IF "memory" \in hw[c].failing THEN SUBSET Modules[c] \ {{}}
                                     ELSE {Modules[c]}}
  \cup (IF "memory" \in hw[c].failing THEN {gui.mem} ELSE {})

FanReadings(c) == {c} \cup (IF "fan" \in hw[c].failing THEN {gui.fan} ELSE {})

(* deriveMetrics: rates, in percent, of the counters that both samples have *)
Derived(a, b) ==
  [of   |-> b.of,
   rate |-> [k \in {x \in a.has \cap b.has : b.time > a.time} |->
               (100 * (b.count[k] - a.count[k])) \div (b.time - a.time)]]

(* buildMetricRows: the tiles that have something to show, in order; the    *)
(* n-th is the one that n - 1 others come before.                           *)
HasRow(g, t) ==
  CASE t \in Counters -> t \in DOMAIN g.metrics.rate
    [] t = "vram"     -> g.mem # NoMemory
    [] OTHER          -> TRUE
Rows(g) ==
  LET has     == {i \in DOMAIN Order : HasRow(g, Order[i])}
      Rank(i) == Cardinality({j \in has : j <= i})
  IN [n \in 1..Cardinality(has) |-> Order[CHOOSE i \in has : Rank(i) = n]]

(* The tiles with a graph, and what it is fed (hasHist, hist)               *)
Drawn(g, t)   == HasRow(g, t) /\ t # "throttle"
ValueOf(g, t) == IF t = "vram" THEN g.mem.of ELSE g.metrics.of

(* A slip: nothing is dropped at the front *)
PushedUntrimmed(g) ==
  [g EXCEPT !.hist = [t \in Tiles |-> IF Drawn(g, t) THEN Append(@[t], ValueOf(g, t)) ELSE @[t]]]

(* updateMetricHistory, also after a sample that failed *)
Pushed(g) ==
  LET Trimmed(h) == IF Len(h) > HistLen THEN Tail(h) ELSE h
  IN [g EXCEPT !.hist = [t \in Tiles |-> IF Drawn(g, t) THEN Trimmed(Append(@[t], ValueOf(g, t)))
                                         ELSE @[t]]]

Visible(t) == t \notin hidden

Step(g) ==
  /\ gui' = g
  /\ UNCHANGED <<popup, hidden, hw, events>>

Event ==
  /\ events < MaxEvents
  /\ events' = events + 1
-----------------------------------------------------------------------------
(* A slip: a sample is only good for rates if the one before it was good    *)
TickNeedingPrev ==
  \E s \in Samples(gui.card), m \in Memories(gui.card), f \in FanReadings(gui.card) :
    Step(Pushed([gui EXCEPT
      !.sampled = TRUE,
      !.prev    = IF s = NoSample \/ @ = NoSample THEN @ ELSE s,
      !.metrics = IF s = NoSample \/ gui.prev = NoSample THEN @ ELSE Derived(gui.prev, s),
      !.fan     = f,
      !.mem     = m]))

(* The timer's tick; also the second half of selecting a card               *)
Tick ==
  \E s \in Samples(gui.card), m \in Memories(gui.card), f \in FanReadings(gui.card) :
    Step(Pushed([gui EXCEPT
      !.sampled = TRUE,
      !.prev    = IF s = NoSample THEN @ ELSE s,
      !.metrics = IF s = NoSample THEN @ ELSE Derived(gui.prev, s),
      !.fan     = f,
      !.mem     = m]))

(* A slip: the sample is kept if a new one fails, as tick does              *)
ReselectKeepingSample(c) ==
  /\ gui.sampled /\ popup = <<>>
  /\ Event
  /\ \E s \in Samples(c) :
       gui' = [gui EXCEPT !.card = c, !.prev = IF s = NoSample THEN @ ELSE s, !.sampled = FALSE]
  /\ UNCHANGED <<popup, hidden, hw>>

(* reselect up to its tick: the sample that rates start from                *)
Reselect(c) ==
  /\ gui.sampled /\ popup = <<>>
  /\ Event
  /\ \E s \in Samples(c) : gui' = [gui EXCEPT !.card = c, !.prev = s, !.sampled = FALSE]
  /\ UNCHANGED <<popup, hidden, hw>>

(* showMetricsMenu; its loop dispatches the timer until the menu is closed  *)
OpenMenu ==
  /\ gui.sampled /\ popup = <<>>
  /\ Event
  /\ gui' = [gui EXCEPT !.ids = Rows(gui)]
  /\ popup' = [i \in DOMAIN Rows(gui) |-> <<Rows(gui)[i], Visible(Rows(gui)[i])>>]
  /\ UNCHANGED <<hidden, hw>>

Toggled(t) == IF Visible(t) THEN hidden \cup {t} ELSE hidden \ {t}

(* A slip: the tiles of the moment instead of those of the menu             *)
PickedNow(i) == IF i \in DOMAIN Rows(gui) THEN Toggled(Rows(gui)[i]) ELSE hidden
Picked(i) == IF i \in DOMAIN gui.ids THEN Toggled(gui.ids[i]) ELSE hidden

PickTile(i) ==
  /\ hidden' = Picked(i)
  /\ popup' = <<>>
  /\ UNCHANGED <<gui, hw, events>>

DismissMenu == popup # <<>> /\ popup' = <<>> /\ UNCHANGED <<gui, hidden, hw, events>>
-----------------------------------------------------------------------------
(* The cards.  A counter of seconds advances by a second in a second at most. *)
Advance(c) ==
  /\ hw[c].time < MaxTime
  /\ \E d \in [Counters -> 0..1] :
       hw' = [hw EXCEPT ![c].time = @ + 1, ![c].count = [k \in Counters |-> @[k] + d[k]]]
  /\ UNCHANGED <<gui, popup, hidden, events>>

Trouble(c, state) ==
  /\ Event
  /\ hw' = [hw EXCEPT ![c] = state]
  /\ UNCHANGED <<gui, popup, hidden>>

(* A reset of the driver, with which counters and the clock start again     *)
Reset(c) ==
  Trouble(c, [hw[c] EXCEPT !.session = @ + 1, !.time = 0, !.count = [k \in Counters |-> 0]])

ChangeFailing(c) ==
  \E f \in {{}, {"telemetry"}, Calls \ {"telemetry"}} : Trouble(c, [hw[c] EXCEPT !.failing = f])
-----------------------------------------------------------------------------
(* WM_CREATE takes a first sample, which may fail, and ticks                *)
Init ==
  /\ hw = [c \in Cards |-> [time |-> 0, count |-> [k \in Counters |-> 0], session |-> 0, failing |-> {}]]
  /\ \E c \in First : \E s \in {NoSample, Sample(c)} :
       gui = [card |-> c, prev |-> s, sampled |-> FALSE, metrics |-> NoMetrics, fan |-> Nothing,
              mem |-> NoMemory, hist |-> [t \in Tiles |-> <<>>], ids |-> <<>>]
  /\ popup = <<>>
  /\ hidden = {}
  /\ events = 0

Next ==
  \/ Tick
  \/ \E c \in Cards : Reselect(c) \/ Advance(c) \/ Reset(c) \/ ChangeFailing(c)
  \/ OpenMenu \/ DismissMenu
  \/ \E i \in DOMAIN popup : PickTile(i)

Spec == Init /\ [][Next]_vars

(* The timer goes off every second *)
FairSpec == Spec /\ WF_vars(Tick)
-----------------------------------------------------------------------------
IsSample(s) ==
  /\ s.of \in Cards \cup {Nothing} /\ s.session \in Nat /\ s.time \in 0..MaxTime
  /\ s.count \in [Counters -> Nat] /\ s.has \subseteq Counters

TypeOK ==
  /\ gui.card \in Cards /\ IsSample(gui.prev) /\ gui.sampled \in BOOLEAN
  /\ gui.metrics.of \in Cards \cup {Nothing} /\ DOMAIN gui.metrics.rate \subseteq Counters
  /\ gui.fan \in Cards \cup {Nothing} /\ gui.mem.of \in Cards \cup {Nothing}
  /\ \A t \in Tiles : Len(gui.hist[t]) <= HistLen /\ ToSet(gui.hist[t]) \subseteq Cards \cup {Nothing}
  /\ ToSet(gui.ids) \subseteq Tiles /\ hidden \subseteq Tiles

(* A rate is taken between two moments of one card, in their order, however *)
(* cards are selected while samples fail; and unless the driver was reset   *)
(* between them it is one that the card can have had.                       *)
RatesOfOneCard ==
  [][gui'.metrics # gui.metrics =>
       \A k \in DOMAIN gui'.metrics.rate :
         /\ gui.prev.of = gui'.prev.of /\ gui.prev.time < gui'.prev.time
         /\ gui.prev.session = gui'.prev.session => gui'.metrics.rate[k] \in 0..100]_vars

(* Whatever the timer does to the tiles while the menu is open: picking an  *)
(* item changes what its check mark said, for the tile that it named, and   *)
(* no other.                                                                *)
ItemTogglesItsTile ==
  [][\A i \in DOMAIN popup : PickTile(i) =>
       \A t \in Tiles : (t \notin hidden') = IF t = popup[i][1] THEN ~popup[i][2] ELSE Visible(t)]_vars

(* After any failures, resets and selections: once the selected card        *)
(* answers, all that the dashboard shows, its graphs too, is that card's,   *)
(* and all of its memory is counted.                                        *)
AllShownIsOf(c) ==
  /\ gui.metrics.of = c /\ gui.fan = c /\ gui.mem = [of |-> c, modules |-> Modules[c]]
  /\ \A t \in ToSet(Rows(gui)) : ToSet(gui.hist[t]) \subseteq {c}
CatchesUp == <>[](hw[gui.card].failing = {} => AllShownIsOf(gui.card))
===============================================================================
