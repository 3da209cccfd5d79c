-------------------------- MODULE WinDashboardProofs --------------------------
(***************************************************************************)
(* The types and two action properties of WinDashboard, for every set of    *)
(* cards, tiles and counters, and every bound.                              *)
(***************************************************************************)
EXTENDS WinDashboard, FiniteSetTheorems, FunctionTheorems, TLAPS

-----------------------------------------------------------------------------
Fields == {"card", "prev", "sampled", "metrics", "fan", "mem", "hist", "ids"}

Shape == DOMAIN gui = Fields

(* A tick, as far as rates and the menu go *)
LEMMA TickFacts ==
  ASSUME Shape, Tick
  PROVE  /\ DOMAIN gui' = Fields
         /\ gui'.card = gui.card /\ gui'.ids = gui.ids
         /\ UNCHANGED <<popup, hidden, hw, events>>
         /\ \E s \in Samples(gui.card) :
              /\ gui'.prev = IF s = NoSample THEN gui.prev ELSE s
              /\ gui'.metrics = IF s = NoSample THEN gui.metrics ELSE Derived(gui.prev, s)
<1>1. PICK s \in Samples(gui.card), m \in Memories(gui.card), f \in FanReadings(gui.card) :
        Step(Pushed([gui EXCEPT
          !.sampled = TRUE,
          !.prev    = IF s = NoSample THEN @ ELSE s,
          !.metrics = IF s = NoSample THEN @ ELSE Derived(gui.prev, s),
          !.fan     = f,
          !.mem     = m])
        )
  BY DEF Tick
<1> DEFINE g == [gui EXCEPT
          !.sampled = TRUE,
          !.prev    = IF s = NoSample THEN @ ELSE s,
          !.metrics = IF s = NoSample THEN @ ELSE Derived(gui.prev, s),
          !.fan     = f,
          !.mem     = m]
<1>2. /\ DOMAIN g = Fields
      /\ g.card = gui.card /\ g.ids = gui.ids
      /\ g.prev = IF s = NoSample THEN gui.prev ELSE s
      /\ g.metrics = IF s = NoSample THEN gui.metrics ELSE Derived(gui.prev, s)
  BY DEF Shape, Fields
<1>3. gui' = Pushed(g) /\ UNCHANGED <<popup, hidden, hw, events>>
  BY <1>1 DEF Step
<1> HIDE DEF g
<1>4. \E h : Pushed(g) = [g EXCEPT !.hist = h]
  BY DEF Pushed
<1>5. PICK h : gui' = [g EXCEPT !.hist = h]
  BY <1>3, <1>4
<1>6. /\ DOMAIN gui' = Fields /\ gui'.card = g.card /\ gui'.ids = g.ids
      /\ gui'.prev = g.prev /\ gui'.metrics = g.metrics
  BY <1>2, <1>5 DEF Fields
<1>7. QED
  BY <1>2, <1>3, <1>6
-----------------------------------------------------------------------------
(* The menu: while it is open, its items and check marks are those of the   *)
(* indices that come back.                                                  *)
MenuInv ==
  /\ Shape
  /\ popup # <<>> => /\ DOMAIN popup = DOMAIN gui.ids
                     /\ \A i \in DOMAIN popup : popup[i] = <<gui.ids[i], Visible(gui.ids[i])>>

LEMMA MenuInit == Init => MenuInv
<1> SUFFICES ASSUME Init PROVE MenuInv
  OBVIOUS
<1>1. popup = <<>> /\ Shape
  BY DEF Init, Shape, Fields
<1>2. QED
  BY <1>1 DEF MenuInv

LEMMA MenuStep == MenuInv /\ [Next]_vars => MenuInv'
<1> SUFFICES ASSUME MenuInv, [Next]_vars PROVE MenuInv'
  OBVIOUS
<1> USE DEF MenuInv
<1>1. CASE Tick
  BY <1>1, TickFacts DEF Shape, Visible
<1>2. ASSUME NEW c \in Cards, Reselect(c) PROVE MenuInv'
  BY <1>2 DEF Reselect, Shape, Fields
<1>3. ASSUME NEW c \in Cards, Advance(c) \/ Reset(c) \/ ChangeFailing(c) PROVE MenuInv'
  <2>1. UNCHANGED <<gui, popup, hidden>>
    BY <1>3 DEF Advance, Reset, ChangeFailing, Trouble
  <2>2. QED
    BY <2>1 DEF Shape, Visible
<1>4. CASE OpenMenu
  <2> DEFINE rows == Rows(gui)
  <2>1. /\ gui' = [gui EXCEPT !.ids = rows] /\ hidden' = hidden
        /\ popup' = [i \in DOMAIN rows |-> <<rows[i], Visible(rows[i])>>]
    BY <1>4 DEF OpenMenu
  <2> HIDE DEF rows
  <2>2. gui'.ids = rows /\ DOMAIN gui' = Fields
    BY <2>1 DEF Shape, Fields
  <2>3. QED
    BY <2>1, <2>2 DEF Shape, Visible
<1>5. CASE DismissMenu
  BY <1>5 DEF DismissMenu, Shape
<1>6. ASSUME NEW i \in DOMAIN popup, PickTile(i) PROVE MenuInv'
  BY <1>6 DEF PickTile, Shape
<1>7. CASE UNCHANGED vars
  BY <1>7 DEF vars, Shape, Visible
<1>8. QED
  BY <1>1, <1>2, <1>3, <1>4, <1>5, <1>6, <1>7 DEF Next

(* Whatever ticks came while the menu was open, picking an item turns the   *)
(* tile it named into the opposite of its check mark, and touches no other. *)
THEOREM ItemsTruthful == Spec => ItemTogglesItsTile
<1>1. MenuInv /\ [Next]_vars => [\A i \in DOMAIN popup : PickTile(i) =>
       \A t \in Tiles : (t \notin hidden') = IF t = popup[i][1] THEN ~popup[i][2] ELSE Visible(t)]_vars
  <2> SUFFICES ASSUME MenuInv, NEW i \in DOMAIN popup, PickTile(i), NEW t \in Tiles
               PROVE  (t \notin hidden') = IF t = popup[i][1] THEN ~popup[i][2] ELSE Visible(t)
    OBVIOUS
  <2>1. popup # <<>>
    OBVIOUS
  <2>2. i \in DOMAIN gui.ids /\ popup[i][1] = gui.ids[i] /\ popup[i][2] = Visible(gui.ids[i])
    BY <2>1 DEF MenuInv
  <2>3. hidden' = Toggled(gui.ids[i])
    BY <2>2 DEF PickTile, Picked
  <2>4. QED
    BY <2>2, <2>3 DEF Toggled, Visible
<1>2. QED
  BY <1>1, MenuInit, MenuStep, PTL DEF Spec, ItemTogglesItsTile
-----------------------------------------------------------------------------
(* A part of a whole, in percent *)
LEMMA Percent ==
  ASSUME NEW a \in Nat, NEW b \in Nat, b > 0, a <= b
  PROVE  (100 * a) \div b \in 0..100
<1> DEFINE q == (100 * a) \div b
<1>1. q \in Int /\ b * q <= 100 * a /\ 100 * a < b * q + b
  OBVIOUS
<1>2. q >= 0
  <2> SUFFICES ASSUME q < 0 PROVE FALSE
    BY <1>1
  <2>1. q + 1 <= 0
    BY <1>1
  <2>2. b * (q + 1) <= 0
    BY <1>1, <2>1
  <2>3. QED
    BY <1>1, <2>2
<1>3. q <= 100
  <2> SUFFICES ASSUME q >= 101 PROVE FALSE
    BY <1>1
  <2>1. b * q >= b * 101
    BY <1>1
  <2>2. QED
    BY <1>1, <2>1
<1>4. QED
  BY <1>1, <1>2, <1>3

(* What a sample that was taken of a card has to do with the card now:      *)
(* unless the driver was reset, no counter has advanced faster than time.   *)
Taken(s, c) ==
  /\ s.of = c /\ s.session \in Nat /\ s.time \in Nat /\ s.count \in [Counters -> Nat]
  /\ s.session <= hw[c].session
  /\ s.session = hw[c].session =>
       /\ s.time <= hw[c].time
       /\ \A k \in Counters : /\ s.count[k] <= hw[c].count[k]
                              /\ hw[c].count[k] - s.count[k] <= hw[c].time - s.time

CardState == [time : Nat, count : [Counters -> Nat], session : Nat, failing : SUBSET Calls]

(* The last sample is of the selected card, or there is none                *)
SampleInv ==
  /\ Shape
  /\ hw \in [Cards -> CardState]
  /\ gui.card \in Cards
  /\ gui.prev = NoSample \/ Taken(gui.prev, gui.card)

LEMMA SampleTaken ==
  ASSUME hw \in [Cards -> CardState], NEW c \in Cards, NEW s \in Samples(c)
  PROVE  s = NoSample \/ (s = Sample(c) /\ Taken(s, c))
<1>1. s = NoSample \/ s = Sample(c)
  BY DEF Samples
<1>2. /\ hw[c].time \in Nat /\ hw[c].session \in Nat /\ hw[c].count \in [Counters -> Nat]
      /\ \A k \in Counters : hw[c].count[k] \in Nat
  BY DEF CardState
<1>3. Taken(Sample(c), c)
  BY <1>2 DEF Taken, Sample
<1>4. QED
  BY <1>1, <1>3

LEMMA SampleInit == Init => SampleInv
<1> SUFFICES ASSUME Init PROVE SampleInv
  OBVIOUS
<1>1. hw \in [Cards -> CardState]
  BY DEF Init, CardState, Calls
<1>2. PICK c \in First : \E s \in {NoSample, Sample(c)} :
       gui = [card |-> c, prev |-> s, sampled |-> FALSE, metrics |-> NoMetrics, fan |-> Nothing,
              mem |-> NoMemory, hist |-> [t \in Tiles |-> <<>>], ids |-> <<>>]
  BY DEF Init
<1>3. c \in Cards
  BY TileAssumption DEF TileAssumption
<1>4. Shape /\ gui.card = c /\ (gui.prev = NoSample \/ gui.prev = Sample(c))
  BY <1>2 DEF Shape, Fields
<1>5. Sample(c) \in Samples(c)
  BY DEF Samples
<1>6. QED
  BY <1>1, <1>3, <1>4, <1>5, SampleTaken DEF SampleInv

(* A card's state, field by field *)
LEMMA CardFields ==
  ASSUME NEW r \in CardState, NEW t \in Nat, NEW n \in [Counters -> Nat], NEW i \in Nat,
         NEW f \in SUBSET Calls
  PROVE  /\ [time |-> t, count |-> n, session |-> i, failing |-> f] \in CardState
         /\ [r EXCEPT !.time = t, !.count = n]
              = [time |-> t, count |-> n, session |-> r.session, failing |-> r.failing]
         /\ [r EXCEPT !.failing = f]
              = [time |-> r.time, count |-> r.count, session |-> r.session, failing |-> f]
<1>1. [time |-> t, count |-> n, session |-> i, failing |-> f] \in CardState
  BY DEF CardState
<1>2. [r EXCEPT !.time = t, !.count = n]
        = [time |-> t, count |-> n, session |-> r.session, failing |-> r.failing]
  <2> DEFINE x == [r EXCEPT !.time = t]
  <2>1. x = [time |-> t, count |-> r.count, session |-> r.session, failing |-> r.failing]
    BY DEF CardState
  <2>2. ASSUME NEW z, z = [time |-> t, count |-> r.count, session |-> r.session, failing |-> r.failing]
        PROVE  [z EXCEPT !.count = n]
                 = [time |-> t, count |-> n, session |-> r.session, failing |-> r.failing]
    BY <2>2
  <2>3. QED
    BY <2>1, <2>2
<1>3. [r EXCEPT !.failing = f]
        = [time |-> r.time, count |-> r.count, session |-> r.session, failing |-> f]
  BY DEF CardState
<1>4. QED
  BY <1>1, <1>2, <1>3

LEMMA ResetFields ==
  ASSUME NEW r \in CardState, NEW t, NEW n, NEW i
  PROVE  [r EXCEPT !.session = i, !.time = t, !.count = n]
           = [time |-> t, count |-> n, session |-> i, failing |-> r.failing]
<1> DEFINE x == [r EXCEPT !.session = i]
<1>1. x = [time |-> r.time, count |-> r.count, session |-> i, failing |-> r.failing]
  BY DEF CardState
<1>2. ASSUME NEW z, z = [time |-> r.time, count |-> r.count, session |-> i, failing |-> r.failing]
      PROVE  [z EXCEPT !.time = t]
               = [time |-> t, count |-> r.count, session |-> i, failing |-> r.failing]
  BY <1>2
<1>3. ASSUME NEW z, z = [time |-> t, count |-> r.count, session |-> i, failing |-> r.failing]
      PROVE  [z EXCEPT !.count = n]
               = [time |-> t, count |-> n, session |-> i, failing |-> r.failing]
  BY <1>3
<1>4. QED
  BY <1>1, <1>2, <1>3

(* A card moves on by a second or starts again, and samples of it age       *)
LEMMA CardMoves ==
  ASSUME SampleInv, gui' = gui, NEW c \in Cards,
         Advance(c) \/ Reset(c) \/ ChangeFailing(c)
  PROVE  SampleInv'
<1>1. /\ hw \in [Cards -> CardState] /\ hw[c] \in CardState
      /\ hw[c].time \in Nat /\ hw[c].session \in Nat /\ hw[c].count \in [Counters -> Nat]
      /\ hw[c].failing \in SUBSET Calls
  BY DEF SampleInv, CardState
<1>2. PICK new \in CardState :
        /\ hw' = [hw EXCEPT ![c] = new]
        /\ \/ /\ new.session = hw[c].session /\ new.time \in {hw[c].time, hw[c].time + 1}
              /\ \A k \in Counters : new.count[k] - hw[c].count[k] \in 0..(new.time - hw[c].time)
           \/ new.session = hw[c].session + 1
  <2>1. CASE Advance(c)
    <3>1. PICK d \in [Counters -> 0..1] :
        hw' = [hw EXCEPT ![c].time = @ + 1, ![c].count = [k \in Counters |-> @[k] + d[k]]]
      BY <2>1 DEF Advance
    <3> DEFINE count == [k \in Counters |-> hw[c].count[k] + d[k]]
               t == hw[c].time + 1
               new == [time |-> t, count |-> count, session |-> hw[c].session,
                       failing |-> hw[c].failing]
    <3>2. \A k \in Counters : /\ hw[c].count[k] \in Nat /\ d[k] \in 0..1
                              /\ count[k] = hw[c].count[k] + d[k]
      BY <1>1
    <3>3. count \in [Counters -> Nat]
      BY <3>2
    <3>4. t \in Nat /\ t = hw[c].time + 1
      BY <1>1
    <3>5. hw' = [hw EXCEPT ![c] = [hw[c] EXCEPT !.time = t, !.count = count]]
      BY <1>1, <3>1
    <3> HIDE DEF count, t
    <3>6. new \in CardState
      BY <1>1, <3>3, <3>4, CardFields
    <3>7. [hw[c] EXCEPT !.time = t, !.count = count] = new
      BY <1>1, <3>3, <3>4, CardFields
    <3>8. new.session = hw[c].session /\ new.time = t /\ new.count = count
      OBVIOUS
    <3> HIDE DEF new
    <3>9. \A k \in Counters : new.count[k] - hw[c].count[k] \in 0..(new.time - hw[c].time)
      BY <1>1, <3>2, <3>4, <3>8
    <3>10. QED
      BY <3>4, <3>5, <3>6, <3>7, <3>8, <3>9
  <2>2. CASE Reset(c)
    <3> DEFINE zero == [k \in Counters |-> 0]
               i == hw[c].session + 1
               t == 0
               new == [time |-> t, count |-> zero, session |-> i, failing |-> hw[c].failing]
    <3>1. zero \in [Counters -> Nat] /\ i \in Nat /\ t \in Nat
      BY <1>1
    <3>2. hw' = [hw EXCEPT ![c] = [hw[c] EXCEPT !.session = i, !.time = t, !.count = zero]]
      BY <2>2 DEF Reset, Trouble
    <3>3. i = hw[c].session + 1 /\ new.session = i
      OBVIOUS
    <3> HIDE DEF zero, i, t
    <3>4. [hw[c] EXCEPT !.session = i, !.time = t, !.count = zero] = new
      BY <1>1, ResetFields
    <3>5. new \in CardState
      BY <1>1, <3>1, CardFields
    <3> HIDE DEF new
    <3>6. QED
      BY <3>2, <3>3, <3>4, <3>5
  <2>3. CASE ChangeFailing(c)
    <3>1. PICK f \in SUBSET Calls : hw' = [hw EXCEPT ![c] = [hw[c] EXCEPT !.failing = f]]
      BY <2>3 DEF ChangeFailing, Trouble, Calls
    <3> DEFINE new == [time |-> hw[c].time, count |-> hw[c].count, session |-> hw[c].session,
                       failing |-> f]
    <3>2. [hw[c] EXCEPT !.failing = f] = new /\ new \in CardState
      BY <1>1, CardFields
    <3>3. new.session = hw[c].session /\ new.time = hw[c].time /\ new.count = hw[c].count
      OBVIOUS
    <3> HIDE DEF new
    <3>4. \A k \in Counters : new.count[k] - hw[c].count[k] \in 0..(new.time - hw[c].time)
      BY <1>1, <3>3
    <3>5. QED
      BY <3>1, <3>2, <3>3, <3>4
  <2>4. QED
    BY <2>1, <2>2, <2>3
<1>3. hw' \in [Cards -> CardState] /\ hw'[c] = new /\ \A d \in Cards \ {c} : hw'[d] = hw[d]
  BY <1>1, <1>2
<1>4. /\ new.time \in Nat /\ new.session \in Nat /\ new.count \in [Counters -> Nat]
      /\ \A k \in Counters : new.count[k] \in Nat /\ hw[c].count[k] \in Nat
  BY <1>1 DEF CardState
<1>5. ASSUME NEW d \in Cards, NEW s, Taken(s, d) PROVE Taken(s, d)'
  <2>1. CASE d # c
    BY <1>3, <1>5, <2>1 DEF Taken
  <2>2. CASE d = c /\ new.session = hw[c].session + 1
    BY <1>1, <1>3, <1>4, <1>5, <2>2 DEF Taken
  <2>3. CASE /\ d = c /\ new.session = hw[c].session /\ new.time \in {hw[c].time, hw[c].time + 1}
             /\ \A k \in Counters : new.count[k] - hw[c].count[k] \in 0..(new.time - hw[c].time)
    <3>1. \A k \in Counters : s.count[k] \in Nat
      BY <1>5 DEF Taken
    <3>2. QED
      BY <1>1, <1>3, <1>4, <1>5, <2>3, <3>1 DEF Taken
  <2>4. QED
    BY <1>2, <2>1, <2>2, <2>3
<1>6. QED
  BY <1>3, <1>5 DEF SampleInv, Shape

LEMMA SampleStep == SampleInv /\ [Next]_vars => SampleInv'
<1> SUFFICES ASSUME SampleInv, [Next]_vars PROVE SampleInv'
  OBVIOUS
<1>1. CASE Tick
  <2>1. Shape /\ gui.card \in Cards /\ hw \in [Cards -> CardState]
    BY DEF SampleInv
  <2>2. PICK s \in Samples(gui.card) : gui'.prev = IF s = NoSample THEN gui.prev ELSE s
    BY <1>1, <2>1, TickFacts
  <2>3. hw' = hw /\ gui'.card = gui.card /\ Shape'
    BY <1>1, <2>1, TickFacts DEF Shape
  <2>4. s = NoSample \/ Taken(s, gui.card)
    BY <2>1, SampleTaken
  <2>5. gui'.prev = NoSample \/ Taken(gui'.prev, gui.card)
    BY <2>2, <2>4 DEF SampleInv
  <2>6. QED
    BY <2>1, <2>3, <2>5 DEF SampleInv, Taken, NoSample
<1>2. ASSUME NEW c \in Cards, Reselect(c) PROVE SampleInv'
  <2>1. PICK s \in Samples(c) : gui' = [gui EXCEPT !.card = c, !.prev = s, !.sampled = FALSE]
    BY <1>2 DEF Reselect
  <2>2. hw' = hw /\ hw \in [Cards -> CardState] /\ Shape
    BY <1>2 DEF Reselect, SampleInv
  <2>3. gui'.card = c /\ gui'.prev = s /\ Shape'
    BY <2>1, <2>2 DEF Shape, Fields
  <2>4. s = NoSample \/ Taken(s, c)
    BY <2>2, SampleTaken
  <2>5. QED
    BY <2>2, <2>3, <2>4 DEF SampleInv, Taken, NoSample
<1>3. ASSUME NEW c \in Cards, Advance(c) \/ Reset(c) \/ ChangeFailing(c) PROVE SampleInv'
  <2>1. gui' = gui
    BY <1>3 DEF Advance, Reset, ChangeFailing, Trouble
  <2>2. QED
    BY <1>3, <2>1, CardMoves
<1>4. CASE OpenMenu
  <2>1. hw' = hw /\ \E x : gui' = [gui EXCEPT !.ids = x]
    BY <1>4 DEF OpenMenu
  <2>2. gui'.card = gui.card /\ gui'.prev = gui.prev /\ Shape'
    BY <2>1 DEF SampleInv, Shape, Fields
  <2>3. QED
    BY <2>1, <2>2 DEF SampleInv, Taken, NoSample
<1>5. CASE UNCHANGED <<gui, hw>>
  BY <1>5 DEF SampleInv, Shape, Taken, NoSample
<1>6. CASE DismissMenu
  BY <1>5, <1>6 DEF DismissMenu
<1>7. ASSUME NEW i \in DOMAIN popup, PickTile(i) PROVE SampleInv'
  BY <1>5, <1>7 DEF PickTile
<1>8. CASE UNCHANGED vars
  BY <1>5, <1>8 DEF vars
<1>9. QED
  BY <1>1, <1>2, <1>3, <1>4, <1>6, <1>7, <1>8 DEF Next

(* Whatever is selected, reset or refused, a rate is taken between two      *)
(* moments of one card in their order, and unless that card was reset       *)
(* between them it is from 0 to 100 percent.                                *)
THEOREM RatesSound == Spec => RatesOfOneCard
<1> DEFINE Sound == gui'.metrics # gui.metrics =>
       \A k \in DOMAIN gui'.metrics.rate :
         /\ gui.prev.of = gui'.prev.of /\ gui.prev.time < gui'.prev.time
         /\ gui.prev.session = gui'.prev.session => gui'.metrics.rate[k] \in 0..100
<1>1. SampleInv /\ [Next]_vars => [Sound]_vars
  <2> SUFFICES ASSUME SampleInv, Next, gui'.metrics # gui.metrics,
                      NEW k \in DOMAIN gui'.metrics.rate
               PROVE  /\ gui.prev.of = gui'.prev.of /\ gui.prev.time < gui'.prev.time
                      /\ gui.prev.session = gui'.prev.session => gui'.metrics.rate[k] \in 0..100
    OBVIOUS
  <2>1. Shape /\ gui.card \in Cards /\ hw \in [Cards -> CardState]
    BY DEF SampleInv
  <2>2. Tick
    <3>1. ASSUME NEW c \in Cards, Reselect(c) PROVE gui'.metrics = gui.metrics
      BY <2>1, <3>1 DEF Reselect, Shape, Fields
    <3>2. ASSUME NEW c \in Cards, Advance(c) \/ Reset(c) \/ ChangeFailing(c) PROVE gui' = gui
      BY <3>2 DEF Advance, Reset, ChangeFailing, Trouble
    <3>3. OpenMenu => gui'.metrics = gui.metrics
      BY <2>1 DEF OpenMenu, Shape, Fields
    <3>4. DismissMenu => gui' = gui
      BY DEF DismissMenu
    <3>5. ASSUME NEW i \in DOMAIN popup, PickTile(i) PROVE gui' = gui
      BY <3>5 DEF PickTile
    <3>6. QED
      BY <3>1, <3>2, <3>3, <3>4, <3>5 DEF Next
  <2>3. PICK s \in Samples(gui.card) :
          /\ gui'.prev = IF s = NoSample THEN gui.prev ELSE s
          /\ gui'.metrics = IF s = NoSample THEN gui.metrics ELSE Derived(gui.prev, s)
    BY <2>1, <2>2, TickFacts
  <2>4. s # NoSample /\ gui'.prev = s /\ gui'.metrics = Derived(gui.prev, s)
    BY <2>3
  <2>5. s = Sample(gui.card) /\ Taken(s, gui.card)
    BY <2>1, <2>4, SampleTaken
  <2>6. /\ k \in gui.prev.has \cap s.has /\ s.time > gui.prev.time
        /\ gui'.metrics.rate[k] =
             (100 * (s.count[k] - gui.prev.count[k])) \div (s.time - gui.prev.time)
    BY <2>4 DEF Derived
  <2>7. gui.prev # NoSample
    BY <2>6 DEF NoSample
  <2>8. Taken(gui.prev, gui.card)
    BY <2>7 DEF SampleInv
  <2>9. gui.prev.of = gui'.prev.of /\ gui.prev.time < gui'.prev.time
    BY <2>4, <2>5, <2>6, <2>8 DEF Taken
  <2>10. k \in Counters
    BY <2>1, <2>5, <2>6, TileAssumption DEF TileAssumption, Sample
  <2>11. ASSUME gui.prev.session = s.session PROVE gui'.metrics.rate[k] \in 0..100
    <3> DEFINE a == s.count[k] - gui.prev.count[k]
               b == s.time - gui.prev.time
    <3>1. /\ s.session = hw[gui.card].session /\ s.time = hw[gui.card].time
          /\ s.count = hw[gui.card].count
      BY <2>5 DEF Sample
    <3>2. /\ s.time \in Nat /\ gui.prev.time \in Nat /\ s.count[k] \in Nat /\ gui.prev.count[k] \in Nat
      BY <2>5, <2>8, <2>10 DEF Taken
    <3>3. a \in Nat /\ b \in Nat /\ b > 0 /\ a <= b
      BY <2>6, <2>8, <2>10, <2>11, <3>1, <3>2 DEF Taken
    <3> HIDE DEF a, b
    <3>4. (100 * a) \div b \in 0..100
      BY <3>3, Percent
    <3>5. QED
      BY <2>6, <3>4 DEF a, b
  <2>12. QED
    BY <2>4, <2>9, <2>11
<1>2. QED
  BY <1>1, SampleInit, SampleStep, PTL DEF Spec, RatesOfOneCard
-----------------------------------------------------------------------------
(* The rows of the menu are tiles: the ranks of those that have something   *)
(* to show are the numbers from 1 on, each of them taken once.              *)
LEMMA RowsAreTiles ==
  ASSUME NEW g
  PROVE  ToSet(Rows(g)) \subseteq Tiles
<1> DEFINE has == {i \in DOMAIN Order : HasRow(g, Order[i])}
           upTo(i) == {j \in has : j <= i}
           n == Cardinality(has)
           S == 1..n
           r == [i \in has |-> Cardinality(upTo(i))]
<1>1. Len(Order) \in Nat /\ DOMAIN Order = 1..Len(Order) /\ \A i \in DOMAIN Order : Order[i] \in Tiles
  BY TileAssumption DEF TileAssumption
<1>2. has \subseteq 1..Len(Order) /\ has \subseteq Nat
  BY <1>1
<1>3. IsFiniteSet(has) /\ n \in Nat
  <2>1. IsFiniteSet(1..Len(Order))
    BY <1>1, FS_Interval
  <2> HIDE DEF has
  <2>2. IsFiniteSet(has)
    BY <1>2, <2>1, FS_Subset
  <2>3. QED
    BY <2>2, FS_CardinalityType
<1>4. IsFiniteSet(S) /\ Cardinality(S) = n
  <2> HIDE DEF n
  <2>1. 1 \in Int /\ n \in Int /\ n >= 0
    BY <1>3
  <2>2. IsFiniteSet(1..n) /\ Cardinality(1..n) = IF 1 > n THEN 0 ELSE n - 1 + 1
    BY <2>1, FS_Interval
  <2>3. QED
    BY <2>1, <2>2
<1> HIDE DEF has
<1>5. ASSUME NEW i \in has
      PROVE  /\ upTo(i) \subseteq has /\ IsFiniteSet(upTo(i)) /\ Cardinality(upTo(i)) \in S
             /\ i \in upTo(i)
  <2>1. upTo(i) \subseteq has /\ i \in upTo(i)
    BY <1>2
  <2> HIDE DEF n
  <2>2. IsFiniteSet(upTo(i)) /\ Cardinality(upTo(i)) <= Cardinality(has)
    BY <1>3, <2>1, FS_Subset
  <2>3. Cardinality(upTo(i)) \in Nat
    BY <2>2, FS_CardinalityType
  <2>4. Cardinality(upTo(i)) # 0
    BY <2>1, <2>2, FS_EmptySet
  <2>5. QED
    BY <1>3, <2>1, <2>2, <2>3, <2>4 DEF n
<1>6. ASSUME NEW i \in has, NEW j \in has, Cardinality(upTo(i)) = Cardinality(upTo(j)) PROVE i = j
  <2>1. ASSUME NEW a \in has, NEW b \in has, a <= b, Cardinality(upTo(a)) = Cardinality(upTo(b))
        PROVE  a = b
    <3>1. upTo(a) \subseteq upTo(b)
      <4>1. ASSUME NEW k \in has, k <= a PROVE k <= b
        <5>1. k \in Nat /\ a \in Nat /\ b \in Nat
          BY <1>2
        <5>2. QED
          BY <2>1, <4>1, <5>1
      <4>2. QED
        BY <4>1
    <3>2. upTo(a) = upTo(b)
      BY <1>5, <2>1, <3>1, FS_Subset
    <3>3. b \in upTo(a)
      BY <1>5, <3>2
    <3>4. b <= a
      BY <3>3
    <3>5. QED
      BY <1>2, <2>1, <3>4
  <2>2. i <= j \/ j <= i
    BY <1>2
  <2>3. QED
    BY <1>6, <2>1, <2>2
<1> HIDE DEF upTo, n
<1>7. r \in [has -> S]
  BY <1>5
<1>8. r \in Injection(has, S)
  BY <1>6, <1>7, Fun_IsInj DEF Injection
<1>9. r \in Surjection(has, S)
  <2> HIDE DEF r, S
  <2>1. Cardinality(has) = Cardinality(S)
    BY <1>4 DEF n
  <2>2. QED
    BY <1>4, <1>8, <2>1, FS_Injection
<1>10. \A m \in S : \E i \in has : Cardinality(upTo(i)) = m
  BY <1>9 DEF Surjection
<1>11. ASSUME NEW m \in S PROVE (CHOOSE i \in has : Cardinality(upTo(i)) = m) \in has
  BY <1>10
<1>12. Rows(g) = [m \in S |-> Order[CHOOSE i \in has : Cardinality(upTo(i)) = m]]
  BY DEF Rows, has, upTo, n
<1>13. ASSUME NEW m \in S PROVE Rows(g)[m] \in Tiles
  BY <1>1, <1>2, <1>11, <1>12
<1>14. DOMAIN Rows(g) = S
  BY <1>12
<1>15. QED
  BY <1>13, <1>14 DEF ToSet
-----------------------------------------------------------------------------
(* What a tick leaves of the values shown                                   *)
Origins == Cards \cup {Nothing}
Graph   == {h \in Seq(Origins) : Len(h) <= HistLen}

LEMMA GraphGrows ==
  ASSUME NEW h \in Graph, NEW v \in Origins
  PROVE  (IF Len(Append(h, v)) > HistLen THEN Tail(Append(h, v)) ELSE Append(h, v)) \in Graph
<1> DEFINE x == Append(h, v)
<1>1. HistLen \in Nat \ {0}
  BY TileAssumption DEF TileAssumption
<1>2. x \in Seq(Origins) /\ Len(x) = Len(h) + 1 /\ Len(h) \in Nat /\ Len(h) <= HistLen
  BY DEF Graph
<1> HIDE DEF x
<1>3. Len(x) > 0 => x # <<>>
  BY <1>2
<1>4. x # <<>> => Tail(x) \in Seq(Origins) /\ Len(Tail(x)) = Len(x) - 1
  BY <1>2
<1>5. QED
  BY <1>1, <1>2, <1>3, <1>4 DEF Graph, x

(* The fields of the window that a tick sets                                *)
ShownOK(g) ==
  /\ g.metrics.of \in Origins /\ DOMAIN g.metrics.rate \subseteq Counters
  /\ g.fan \in Origins /\ g.mem.of \in Origins

LEMMA PushedTypes ==
  ASSUME NEW g, DOMAIN g = Fields, ShownOK(g), g.hist \in [Tiles -> Graph]
  PROVE  /\ DOMAIN Pushed(g) = Fields
         /\ Pushed(g).hist \in [Tiles -> Graph]
         /\ \A f \in Fields \ {"hist"} : Pushed(g)[f] = g[f]
<1> DEFINE x(t) == Append(g.hist[t], ValueOf(g, t))
           new == [t \in Tiles |-> IF Drawn(g, t) THEN IF Len(x(t)) > HistLen THEN Tail(x(t)) ELSE x(t)
                                   ELSE g.hist[t]]
<1>1. \A t \in Tiles : ValueOf(g, t) \in Origins
  BY DEF ShownOK, ValueOf
<1>2. ASSUME NEW t \in Tiles PROVE new[t] \in Graph
  <2>1. g.hist[t] \in Graph
    OBVIOUS
  <2>2. (IF Len(x(t)) > HistLen THEN Tail(x(t)) ELSE x(t)) \in Graph
    BY <1>1, <2>1, GraphGrows
  <2> HIDE DEF x
  <2>3. new[t] = IF Drawn(g, t) THEN IF Len(x(t)) > HistLen THEN Tail(x(t)) ELSE x(t) ELSE g.hist[t]
    OBVIOUS
  <2> HIDE DEF new
  <2>4. QED
    BY <2>1, <2>2, <2>3
<1>3. new \in [Tiles -> Graph]
  <2>1. new = [t \in Tiles |-> new[t]]
    OBVIOUS
  <2> HIDE DEF new
  <2>2. QED
    BY <1>2, <2>1
<1>4. Pushed(g) = [g EXCEPT !.hist = new]
  BY DEF Pushed
<1> HIDE DEF new
<1>5. QED
  BY <1>3, <1>4 DEF Fields

TypeInv ==
  /\ SampleInv
  /\ \A c \in Cards : hw[c].time <= MaxTime
  /\ gui.sampled \in BOOLEAN /\ IsSample(gui.prev)
  /\ ShownOK(gui) /\ gui.hist \in [Tiles -> Graph]
  /\ ToSet(gui.ids) \subseteq Tiles /\ hidden \subseteq Tiles

LEMMA InvTypes == TypeInv => TypeOK
<1> SUFFICES ASSUME TypeInv PROVE TypeOK
  OBVIOUS
<1>1. ASSUME NEW t \in Tiles PROVE Len(gui.hist[t]) <= HistLen /\ ToSet(gui.hist[t]) \subseteq Origins
  <2>1. gui.hist[t] \in Seq(Origins) /\ Len(gui.hist[t]) <= HistLen
    BY DEF TypeInv, Graph
  <2>2. DOMAIN gui.hist[t] = 1..Len(gui.hist[t]) /\ \A i \in 1..Len(gui.hist[t]) : gui.hist[t][i] \in Origins
    BY <2>1
  <2>3. QED
    BY <2>1, <2>2 DEF ToSet
<1>2. gui.card \in Cards
  BY DEF TypeInv, SampleInv
<1>3. QED
  BY <1>1, <1>2 DEF TypeInv, TypeOK, ShownOK, Origins

LEMMA SampleTypes ==
  ASSUME hw \in [Cards -> CardState], \A c \in Cards : hw[c].time <= MaxTime,
         NEW c \in Cards, NEW s \in Samples(c)
  PROVE  IsSample(s)
<1>1. hw[c].time \in Nat /\ hw[c].session \in Nat /\ hw[c].count \in [Counters -> Nat]
  BY DEF CardState
<1>2. MaxTime \in Nat /\ Provided[c] \subseteq Counters
  BY TileAssumption DEF TileAssumption
<1>3. hw[c].time \in 0..MaxTime
  BY <1>1, <1>2
<1>4. IsSample(NoSample)
  BY <1>2 DEF IsSample, NoSample
<1>5. IsSample(Sample(c))
  BY <1>1, <1>2, <1>3 DEF IsSample, Sample
<1>6. QED
  BY <1>4, <1>5 DEF Samples

LEMMA TypesInit == Init => TypeInv
<1> SUFFICES ASSUME Init PROVE TypeInv
  OBVIOUS
<1>1. SampleInv
  BY SampleInit
<1>2. MaxTime \in Nat /\ HistLen \in Nat /\ First \subseteq Cards
  BY TileAssumption DEF TileAssumption
<1>3. \A c \in Cards : hw[c].time = 0
  BY DEF Init
<1>4. \A c \in Cards : hw[c].time <= MaxTime
  BY <1>2, <1>3
<1>5. PICK c \in First : \E s \in {NoSample, Sample(c)} :
       gui = [card |-> c, prev |-> s, sampled |-> FALSE, metrics |-> NoMetrics, fan |-> Nothing,
              mem |-> NoMemory, hist |-> [t \in Tiles |-> <<>>], ids |-> <<>>]
  BY DEF Init
<1>6. PICK s \in {NoSample, Sample(c)} :
       gui = [card |-> c, prev |-> s, sampled |-> FALSE, metrics |-> NoMetrics, fan |-> Nothing,
              mem |-> NoMemory, hist |-> [t \in Tiles |-> <<>>], ids |-> <<>>]
  BY <1>5
<1>7. /\ gui.prev = s /\ gui.sampled = FALSE /\ gui.metrics = NoMetrics /\ gui.fan = Nothing
      /\ gui.mem = NoMemory /\ gui.hist = [t \in Tiles |-> <<>>] /\ gui.ids = <<>>
  BY <1>6
<1>8. IsSample(s)
  <2>1. c \in Cards
    BY <1>2
  <2>2. IsSample(Sample(c))
    <3>1. Sample(c) \in Samples(c)
      BY DEF Samples
    <3>2. QED
      BY <1>1, <1>4, <2>1, <3>1, SampleTypes DEF SampleInv
  <2>3. IsSample(NoSample)
    BY <1>2 DEF IsSample, NoSample
  <2>4. QED
    BY <2>2, <2>3
<1>9. <<>> \in Graph /\ gui.hist \in [Tiles -> Graph]
  BY <1>2, <1>7 DEF Graph
<1>10. ShownOK(gui)
  BY <1>7 DEF ShownOK, Origins, NoMetrics, NoMemory
<1>11. ToSet(gui.ids) = {} /\ hidden = {}
  BY <1>7 DEF ToSet, Init
<1>12. QED
  BY <1>1, <1>4, <1>7, <1>8, <1>9, <1>10, <1>11 DEF TypeInv

(* The clock of a card does not pass its bound                              *)
LEMMA ClockBounded ==
  ASSUME hw \in [Cards -> CardState], \A c \in Cards : hw[c].time <= MaxTime,
         NEW c \in Cards, Advance(c) \/ Reset(c) \/ ChangeFailing(c)
  PROVE  \A d \in Cards : hw'[d].time <= MaxTime
<1>1. /\ hw[c].time \in Nat /\ MaxTime \in Nat /\ hw[c] \in CardState
      /\ DOMAIN hw = Cards
  BY TileAssumption DEF TileAssumption, CardState
<1>2. PICK r : hw' = [hw EXCEPT ![c] = r] /\ r.time <= MaxTime
  <2>1. CASE Advance(c)
    <3>1. hw[c].time + 1 <= MaxTime
      <4>1. hw[c].time < MaxTime
        BY <2>1 DEF Advance
      <4>2. QED
        BY <1>1, <4>1
    <3>2. PICK d : hw' = [hw EXCEPT ![c].time = @ + 1, ![c].count = [k \in Counters |-> @[k] + d[k]]]
      BY <2>1 DEF Advance
    <3>3. \E n : hw' = [hw EXCEPT ![c] = [hw[c] EXCEPT !.time = hw[c].time + 1, !.count = n]]
      BY <1>1, <3>2
    <3>4. PICK n : hw' = [hw EXCEPT ![c] = [hw[c] EXCEPT !.time = hw[c].time + 1, !.count = n]]
      BY <3>3
    <3>5. [hw[c] EXCEPT !.time = hw[c].time + 1, !.count = n].time = hw[c].time + 1
      BY <1>1 DEF CardState
    <3>6. QED
      BY <3>1, <3>4, <3>5
  <2>2. CASE Reset(c)
    <3> DEFINE z == [k \in Counters |-> 0]
    <3>1. hw' = [hw EXCEPT ![c] = [hw[c] EXCEPT !.session = @ + 1, !.time = 0, !.count = z]]
      BY <2>2 DEF Reset, Trouble
    <3> HIDE DEF z
    <3>2. [hw[c] EXCEPT !.session = @ + 1, !.time = 0, !.count = z].time = 0
      BY <1>1 DEF CardState
    <3>3. 0 <= MaxTime
      BY <1>1
    <3>4. QED
      BY <3>1, <3>2, <3>3
  <2>3. CASE ChangeFailing(c)
    <3>1. PICK f : hw' = [hw EXCEPT ![c] = [hw[c] EXCEPT !.failing = f]]
      BY <2>3 DEF ChangeFailing, Trouble
    <3>2. [hw[c] EXCEPT !.failing = f].time = hw[c].time
      BY <1>1 DEF CardState
    <3>3. QED
      BY <3>1, <3>2
  <2>4. QED
    BY <2>1, <2>2, <2>3
<1>3. ASSUME NEW d \in Cards PROVE hw'[d].time <= MaxTime
  <2>1. hw'[d] = IF d = c THEN r ELSE hw[d]
    BY <1>1, <1>2
  <2>2. QED
    BY <1>2, <2>1
<1>4. QED
  BY <1>3

LEMMA TypesStep == TypeInv /\ [Next]_vars => TypeInv'
<1> SUFFICES ASSUME TypeInv, [Next]_vars PROVE TypeInv'
  OBVIOUS
<1>1. SampleInv /\ SampleInv'
  BY SampleStep DEF TypeInv
<1>2. Shape /\ gui.card \in Cards /\ hw \in [Cards -> CardState]
  BY <1>1 DEF SampleInv
<1>3. CASE Tick
  <2>1. PICK s \in Samples(gui.card), m \in Memories(gui.card), f \in FanReadings(gui.card) :
        Step(Pushed([gui EXCEPT
          !.sampled = TRUE,
          !.prev    = IF s = NoSample THEN @ ELSE s,
          !.metrics = IF s = NoSample THEN @ ELSE Derived(gui.prev, s),
          !.fan     = f,
          !.mem     = m]))
    BY <1>3 DEF Tick
  <2> DEFINE g == [gui EXCEPT
          !.sampled = TRUE,
          !.prev    = IF s = NoSample THEN @ ELSE s,
          !.metrics = IF s = NoSample THEN @ ELSE Derived(gui.prev, s),
          !.fan     = f,
          !.mem     = m]
  <2>2. gui' = Pushed(g) /\ UNCHANGED <<popup, hidden, hw, events>>
    BY <2>1 DEF Step
  <2>3. /\ DOMAIN g = Fields /\ g.sampled = TRUE /\ g.ids = gui.ids /\ g.hist = gui.hist
        /\ g.prev = (IF s = NoSample THEN gui.prev ELSE s)
        /\ g.metrics = (IF s = NoSample THEN gui.metrics ELSE Derived(gui.prev, s))
        /\ g.fan = f /\ g.mem = m
    BY <1>2 DEF Shape, Fields
  <2> HIDE DEF g
  <2>4. IsSample(s)
    BY <1>2, SampleTypes DEF TypeInv
  <2>5. IsSample(g.prev)
    BY <2>3, <2>4 DEF TypeInv
  <2>6. g.metrics.of \in Origins /\ DOMAIN g.metrics.rate \subseteq Counters
    <3>1. gui.metrics.of \in Origins /\ DOMAIN gui.metrics.rate \subseteq Counters
      BY DEF TypeInv, ShownOK
    <3>2. Derived(gui.prev, s).of = s.of /\ DOMAIN Derived(gui.prev, s).rate \subseteq s.has
      BY DEF Derived
    <3>3. s.of \in Origins /\ s.has \subseteq Counters
      BY <2>4 DEF IsSample, Origins
    <3>4. QED
      BY <2>3, <3>1, <3>2, <3>3
  <2>7. g.fan \in Origins
    <3>1. gui.fan \in Origins
      BY DEF TypeInv, ShownOK
    <3>2. QED
      BY <1>2, <2>3, <3>1 DEF FanReadings, Origins
  <2>8. g.mem.of \in Origins
    <3>1. gui.mem.of \in Origins
      BY DEF TypeInv, ShownOK
    <3>2. m = gui.mem \/ m.of = gui.card
      BY DEF Memories
    <3>3. QED
      BY <1>2, <2>3, <3>1, <3>2 DEF Origins
  <2>9. ShownOK(g) /\ g.hist \in [Tiles -> Graph]
    BY <2>3, <2>6, <2>7, <2>8 DEF ShownOK, TypeInv
  <2>10. gui'.hist \in [Tiles -> Graph] /\ \A x \in Fields \ {"hist"} : gui'[x] = g[x]
    BY <2>2, <2>3, <2>9, PushedTypes
  <2>11. /\ gui'.sampled = TRUE /\ gui'.ids = gui.ids /\ gui'.prev = g.prev
         /\ gui'.metrics = g.metrics /\ gui'.fan = g.fan /\ gui'.mem = g.mem
    BY <2>3, <2>10 DEF Fields
  <2>12. ShownOK(gui')
    BY <2>9, <2>11 DEF ShownOK
  <2>13. QED
    BY <1>1, <2>2, <2>5, <2>10, <2>11, <2>12 DEF TypeInv
<1>4. ASSUME NEW c \in Cards, Reselect(c) PROVE TypeInv'
  <2>1. PICK s \in Samples(c) : gui' = [gui EXCEPT !.card = c, !.prev = s, !.sampled = FALSE]
    BY <1>4 DEF Reselect
  <2>2. UNCHANGED <<hidden, hw>>
    BY <1>4 DEF Reselect
  <2>3. /\ gui'.prev = s /\ gui'.sampled = FALSE /\ gui'.metrics = gui.metrics /\ gui'.fan = gui.fan
        /\ gui'.mem = gui.mem /\ gui'.hist = gui.hist /\ gui'.ids = gui.ids
    BY <1>2, <2>1 DEF Shape, Fields
  <2>4. IsSample(s)
    BY <1>2, SampleTypes DEF TypeInv
  <2>5. QED
    BY <1>1, <2>2, <2>3, <2>4 DEF TypeInv, ShownOK
<1>5. ASSUME NEW c \in Cards, Advance(c) \/ Reset(c) \/ ChangeFailing(c) PROVE TypeInv'
  <2>1. gui' = gui /\ hidden' = hidden
    BY <1>5 DEF Advance, Reset, ChangeFailing, Trouble
  <2>2. \A d \in Cards : hw'[d].time <= MaxTime
    BY <1>2, <1>5, ClockBounded DEF TypeInv
  <2>3. QED
    BY <1>1, <2>1, <2>2 DEF TypeInv
<1>6. CASE OpenMenu
  <2> DEFINE rows == Rows(gui)
  <2>1. gui' = [gui EXCEPT !.ids = rows] /\ UNCHANGED <<hidden, hw>>
    BY <1>6 DEF OpenMenu
  <2>2. ToSet(rows) \subseteq Tiles
    BY RowsAreTiles
  <2> HIDE DEF rows
  <2>3. /\ gui'.prev = gui.prev /\ gui'.sampled = gui.sampled /\ gui'.metrics = gui.metrics
        /\ gui'.fan = gui.fan /\ gui'.mem = gui.mem /\ gui'.hist = gui.hist /\ gui'.ids = rows
    BY <1>2, <2>1 DEF Shape, Fields
  <2>4. QED
    BY <1>1, <2>1, <2>2, <2>3 DEF TypeInv, ShownOK
<1>7. ASSUME UNCHANGED <<gui, hw>>, hidden' \subseteq Tiles PROVE TypeInv'
  BY <1>1, <1>7 DEF TypeInv
<1>8. CASE DismissMenu
  BY <1>7, <1>8 DEF DismissMenu, TypeInv
<1>9. ASSUME NEW i \in DOMAIN popup, PickTile(i) PROVE TypeInv'
  <2>1. UNCHANGED <<gui, hw>> /\ hidden' = Picked(i)
    BY <1>9 DEF PickTile
  <2>2. hidden \subseteq Tiles /\ \A j \in DOMAIN gui.ids : gui.ids[j] \in Tiles
    BY DEF TypeInv, ToSet
  <2>3. Picked(i) \subseteq Tiles
    BY <2>2 DEF Picked, Toggled
  <2>4. QED
    BY <1>7, <2>1, <2>3
<1>10. CASE UNCHANGED vars
  BY <1>7, <1>10 DEF vars, TypeInv
<1>11. QED
  BY <1>3, <1>4, <1>5, <1>6, <1>8, <1>9, <1>10 DEF Next

(* The window, the menu and the cards keep their types: a graph holds no    *)
(* more than HistLen values, and the menu lists tiles.                      *)
THEOREM DashTypes == Spec => []TypeOK
  BY TypesInit, TypesStep, InvTypes, PTL DEF Spec
===============================================================================
