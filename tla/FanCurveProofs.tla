---------------------------- MODULE FanCurveProofs ----------------------------
(***************************************************************************)
(* Proofs about FanCurve: the types, for any scripts, lists and failures;   *)
(* and for one script at a time whose writes succeed, that the fan follows  *)
(* the list of the last `set`, and that a stock-read prints the card's      *)
(* stock table and leaves everything as it was, for any number of points,   *)
(* any rising stock table, any minimum speed and any lists in range.        *)
(***************************************************************************)
EXTENDS FanCurve, NaturalsInduction, WellFoundedInduction, TLAPS

LEMMA DriverFacts ==
  /\ N \in Nat /\ N >= 1 /\ N <= 10 /\ N # 0
  /\ Slots = 1..N /\ 1 \in Slots /\ N \in Slots
  /\ Stock \in Table
  /\ MinPwm \in Nat /\ MinPwm <= 100
  /\ AllWrites = N + 1
  /\ U8 = 0..255
BY DriverAssumption DEF Slots, AllWrites, U8

LEMMA SlotBefore ==
  ASSUME NEW p \in Slots, p # 1
  PROVE  p - 1 \in Slots /\ p \in Slots \ {1} /\ p \in Nat /\ p > 1 /\ p <= N
BY DriverFacts

LEMMA Ranges ==
  /\ \A x \in 0..255 : x \in Nat /\ x <= 255
  /\ \A x \in 1..255 : x \in 0..255 /\ x \in Nat /\ x # 0
  /\ \A x \in 0..100 : x \in Nat /\ x \in 0..255
  /\ \A x \in MinPwm..100 : x \in 0..255 /\ x \in Nat /\ x \in 0..100 /\ x >= MinPwm
  /\ \A x \in Nat : x <= 100 => x \in 0..100
BY DriverFacts

(* pwm and percent: what is read of a speed is what writes it back          *)
LEMMA RoundTrip ==
  ASSUME NEW s \in 0..100
  PROVE  Percent(PwmShown(s)) = s /\ PwmShown(s) \in 0..255
BY SMTT(60) DEF Percent, PwmShown

LEMMA Rises ==
  ASSUME NEW s \in Nat, NEW t \in Nat, s <= t
  PROVE  /\ Percent(s) \in Nat /\ Percent(s) <= Percent(t)
         /\ PwmShown(s) <= PwmShown(t)
         /\ s <= 255 => Percent(s) <= 100
BY SMTT(60) DEF Percent, PwmShown
-----------------------------------------------------------------------------
(* Smallest and largest elements *)
LEMMA LeastIsThere ==
  ASSUME NEW S, S \subseteq Nat, S # {}
  PROVE  \E x \in S : \A y \in S : x <= y
<1>1. PICK x \in S : \A y \in S : ~(<<y, x>> \in OpToRel(<, Nat))
  BY NatLessThanWellFounded, WFMin
<1>2. \A y \in S : x <= y
  <2> SUFFICES ASSUME NEW y \in S, ~(x <= y) PROVE FALSE
    OBVIOUS
  <2>1. y \in Nat /\ x \in Nat /\ y < x
    OBVIOUS
  <2>2. <<y, x>> \in OpToRel(<, Nat)
    BY <2>1 DEF OpToRel
  <2>3. QED
    BY <1>1, <2>2
<1>3. QED
  BY <1>2

(* The largest element *)
Top(S) == CHOOSE x \in S : \A y \in S : x >= y

LEMMA TopIsThere ==
  ASSUME NEW S, NEW b \in Nat, S \subseteq 0..b, S # {}
  PROVE  Top(S) \in S /\ Top(S) \in Nat /\ \A y \in S : y <= Top(S)
<1> DEFINE T == {n \in 0..b : b - n \in S}
<1>1. PICK y \in S : TRUE
  OBVIOUS
<1>2. T \subseteq Nat /\ b - y \in T
  BY <1>1
<1>3. PICK m \in T : \A n \in T : m <= n
  BY <1>2, LeastIsThere
<1>4. m \in 0..b /\ b - m \in S /\ \A n \in 0..b : b - n \in S => m <= n
  BY <1>3
<1>5. ASSUME NEW z \in S PROVE z <= b - m
  <2>1. b - z \in 0..b /\ b - (b - z) = z
    BY <1>5
  <2>2. m <= b - z
    BY <1>4, <2>1
  <2>3. QED
    BY <1>4, <2>2
<1>6. \E x \in S : \A z \in S : x >= z
  <2>1. \A z \in S : b - m >= z
    BY <1>4, <1>5
  <2>2. QED
    BY <1>4, <2>1
<1>7. Top(S) \in S /\ \A z \in S : Top(S) >= z
  BY <1>6 DEF Top
<1> DEFINE x == Top(S)
<1> HIDE DEF x
<1>8. x \in S /\ \A z \in S : x >= z
  BY <1>7 DEF x
<1>9. x \in Nat /\ \A z \in S : z \in Nat
  BY <1>8
<1>10. \A z \in S : z <= x
  BY <1>8, <1>9
<1>11. QED
  BY <1>8, <1>9, <1>10 DEF x
-----------------------------------------------------------------------------
(* The slots that `set` fills *)

(* One step of the recursion of Filled, from the slots h                    *)
Body(c, h, p) ==
  LET given  == c[IF p <= Len(c) THEN p ELSE Len(c)]
      before == h[p - 1]
  IN IF p = 1 THEN given
     ELSE << IF p <= Len(c) /\ given[1] > before[1] THEN given[1] ELSE before[1] + 1,
             IF given[2] >= before[2] THEN given[2] ELSE before[2] >>

Fill(c) == CHOOSE h : h = [p \in Slots |-> Body(c, h, p)]

LEMMA FilledIs == ASSUME NEW c PROVE Filled(c) = [p \in Slots |-> Fill(c)[p]]
BY DEF Filled, Fill, Body

(* A list with temperatures up to b *)
Listed(c, b) ==
  /\ Len(c) \in Nat \ {0}
  /\ \A i \in 1..Len(c) : /\ c[i] = <<c[i][1], c[i][2]>>
                         /\ c[i][1] \in 1..b /\ c[i][2] \in 0..255

(* The slots in closed form: the highest that a point up to p asks for      *)
Upto(c, p)   == IF p <= Len(c) THEN p ELSE Len(c)
Temps(c, p)  == {c[j][1] + (p - j) : j \in 1..Upto(c, p)}
Speeds(c, p) == {c[j][2] : j \in 1..Upto(c, p)}
Closed(c)    == [p \in Slots |-> <<Top(Temps(c, p)), Top(Speeds(c, p))>>]

LEMMA ClosedFacts ==
  ASSUME NEW c, NEW b \in Nat, Listed(c, b), NEW p \in Slots
  PROVE  /\ Top(Temps(c, p)) \in Temps(c, p) /\ Top(Temps(c, p)) \in Nat
         /\ \A y \in Temps(c, p) : y <= Top(Temps(c, p))
         /\ Top(Speeds(c, p)) \in Speeds(c, p) /\ Top(Speeds(c, p)) \in Nat
         /\ \A y \in Speeds(c, p) : y <= Top(Speeds(c, p))
<1>1. Upto(c, p) \in 1..Len(c) /\ Upto(c, p) <= p /\ p \in 1..N
  BY DriverFacts DEF Upto, Listed
<1>2. \A j \in 1..Upto(c, p) : c[j][1] \in 1..b /\ c[j][2] \in 0..255 /\ j <= p /\ j \in Nat
  BY <1>1 DEF Listed
<1>3. 1 \in 1..Upto(c, p)
  BY <1>1
<1>4. Temps(c, p) \subseteq 0..(b + N) /\ Temps(c, p) # {} /\ b + N \in Nat
  <2>1. \A j \in 1..Upto(c, p) : c[j][1] + (p - j) \in 0..(b + N)
    BY <1>1, <1>2, DriverFacts, SMTT(40)
  <2>2. QED
    BY <1>3, <2>1, DriverFacts DEF Temps
<1>5. Speeds(c, p) \subseteq 0..255 /\ Speeds(c, p) # {} /\ 255 \in Nat
  BY <1>2, <1>3 DEF Speeds
<1>6. Top(Temps(c, p)) \in Temps(c, p) /\ Top(Temps(c, p)) \in Nat
      /\ \A y \in Temps(c, p) : y <= Top(Temps(c, p))
  BY <1>4, TopIsThere
<1>7. Top(Speeds(c, p)) \in Speeds(c, p) /\ Top(Speeds(c, p)) \in Nat
      /\ \A y \in Speeds(c, p) : y <= Top(Speeds(c, p))
  BY <1>5, TopIsThere
<1>8. QED
  BY <1>6, <1>7

LEMMA ClosedStep ==
  ASSUME NEW c, NEW b \in Nat, Listed(c, b), NEW p \in Slots
  PROVE  Closed(c)[p] = Body(c, Closed(c), p)
<1>1. Closed(c)[p] = <<Top(Temps(c, p)), Top(Speeds(c, p))>>
  BY DEF Closed
<1>2. Len(c) \in Nat \ {0} /\ \A i \in 1..Len(c) : c[i] = <<c[i][1], c[i][2]>>
                           /\ c[i][1] \in Nat /\ c[i][2] \in Nat
  <2>1. Len(c) \in Nat \ {0}
    BY DEF Listed
  <2>2. ASSUME NEW i \in 1..Len(c)
        PROVE  c[i] = <<c[i][1], c[i][2]>> /\ c[i][1] \in 1..b /\ c[i][2] \in 0..255
    BY DEF Listed
  <2>3. ASSUME NEW i \in 1..Len(c)
        PROVE  c[i] = <<c[i][1], c[i][2]>> /\ c[i][1] \in Nat /\ c[i][2] \in Nat
    <3>1. \A x \in 1..b : x \in Nat
      OBVIOUS
    <3>2. \A x \in 0..255 : x \in Nat
      OBVIOUS
    <3>3. QED
      BY <2>2, <3>1, <3>2
  <2>4. QED
    BY <2>1, <2>3
<1>3. CASE p = 1
  <2>1. Upto(c, p) = 1 /\ 1 \in 1..Len(c)
    BY <1>2, <1>3 DEF Upto
  <2>2. Temps(c, p) = {c[1][1]} /\ Speeds(c, p) = {c[1][2]}
    BY <1>2, <1>3, <2>1 DEF Temps, Speeds
  <2>3. Top(Temps(c, p)) = c[1][1] /\ Top(Speeds(c, p)) = c[1][2]
    BY <2>2, ClosedFacts
  <2>4. Body(c, Closed(c), p) = c[1]
    BY <1>3, <2>1 DEF Body
  <2>5. QED
    BY <1>1, <1>2, <2>1, <2>3, <2>4
<1>4. CASE p # 1
  <2> DEFINE q == p - 1
             m == Top(Temps(c, p))
             n == Top(Temps(c, q))
             v == Top(Speeds(c, p))
             w == Top(Speeds(c, q))
             u == Upto(c, p)
             g == c[u]
  <2>1. q \in Slots /\ p \in Nat /\ p > 1 /\ q = p - 1
    BY <1>4, SlotBefore
  <2>2. Closed(c)[q] = <<n, w>>
    BY <2>1 DEF Closed
  <2>3. m \in Temps(c, p) /\ m \in Nat /\ \A y \in Temps(c, p) : y <= m
    BY ClosedFacts
  <2>4. v \in Speeds(c, p) /\ v \in Nat /\ \A y \in Speeds(c, p) : y <= v
    BY ClosedFacts
  <2>5. n \in Temps(c, q) /\ n \in Nat /\ \A y \in Temps(c, q) : y <= n
    BY <2>1, ClosedFacts
  <2>6. w \in Speeds(c, q) /\ w \in Nat /\ \A y \in Speeds(c, q) : y <= w
    BY <2>1, ClosedFacts
  <2>7. Body(c, Closed(c), p) =
          << IF p <= Len(c) /\ g[1] > n THEN g[1] ELSE n + 1, IF g[2] >= w THEN g[2] ELSE w >>
    BY <1>4, <2>2 DEF Body, Upto
  <2>8. u \in 1..Len(c) /\ g[1] \in Nat /\ g[2] \in Nat
    BY <1>2, <2>1 DEF Upto
  <2>9. \A j \in 1..u : j \in 1..Upto(c, q) \/ (j = u /\ j = p /\ p <= Len(c))
    BY <1>2, <2>1 DEF Upto
  <2>10. \A j \in 1..Upto(c, q) : j \in 1..u /\ j \in 1..Len(c)
    BY <1>2, <2>1 DEF Upto
  <2> HIDE DEF u, m, n, v, w, q
  <2>11. m <= (IF p <= Len(c) /\ g[1] > n THEN g[1] ELSE n + 1)
    <3>1. PICK j \in 1..u : m = c[j][1] + (p - j)
      BY <2>3 DEF Temps, u
    <3>2. CASE j \in 1..Upto(c, q)
      <4>1. c[j][1] + (q - j) <= n
        BY <2>5, <3>2 DEF Temps
      <4>2. c[j][1] \in Nat
        BY <1>2, <2>10, <3>2
      <4>3. m <= n + 1
        BY <2>1, <2>5, <3>1, <4>1, <4>2
      <4>4. QED
        BY <2>3, <2>5, <2>8, <4>3
    <3>3. CASE j = u /\ j = p /\ p <= Len(c)
      <4>1. m = g[1]
        BY <2>1, <2>8, <3>1, <3>3
      <4>2. QED
        <5>1. CASE g[1] > n
          BY <3>3, <4>1, <5>1, <2>3
        <5>2. CASE ~(g[1] > n)
          BY <2>5, <2>8, <4>1, <5>2
        <5>3. QED
          BY <5>1, <5>2
    <3>4. QED
      BY <2>9, <3>2, <3>3
  <2>12. n + 1 <= m
    <3>1. PICK j \in 1..Upto(c, q) : n = c[j][1] + (q - j)
      BY <2>5 DEF Temps
    <3>2. c[j][1] + (p - j) <= m
      BY <2>3, <2>10 DEF Temps, u
    <3>3. c[j][1] \in Nat
      BY <1>2, <2>10
    <3>4. QED
      BY <2>1, <2>3, <3>1, <3>2, <3>3
  <2>13. p <= Len(c) => g[1] <= m
    <3> SUFFICES ASSUME p <= Len(c) PROVE g[1] <= m
      OBVIOUS
    <3>1. u = p
      BY DEF u, Upto
    <3>2. p \in 1..u /\ c[p][1] + (p - p) \in Temps(c, p)
      BY <2>1, <3>1 DEF Temps, u
    <3>3. c[p][1] + (p - p) <= m
      BY <2>3, <3>2
    <3>4. QED
      BY <2>1, <2>3, <2>8, <3>1, <3>3
  <2>14. m = (IF p <= Len(c) /\ g[1] > n THEN g[1] ELSE n + 1)
    BY <2>3, <2>5, <2>8, <2>11, <2>12, <2>13
  <2>15. v <= (IF g[2] >= w THEN g[2] ELSE w)
    <3>1. PICK j \in 1..u : v = c[j][2]
      BY <2>4 DEF Speeds, u
    <3>2. CASE j \in 1..Upto(c, q)
      <4>1. v <= w
        BY <2>6, <3>1, <3>2 DEF Speeds
      <4>2. QED
        BY <2>4, <2>6, <2>8, <4>1
    <3>3. CASE j = u
      BY <2>4, <2>6, <2>8, <3>1, <3>3
    <3>4. QED
      BY <2>9, <3>2, <3>3
  <2>16. w <= v
    <3>1. PICK j \in 1..Upto(c, q) : w = c[j][2]
      BY <2>6 DEF Speeds
    <3>2. QED
      BY <2>4, <2>10, <3>1 DEF Speeds, u
  <2>17. g[2] <= v
    <3>1. u \in 1..u
      BY <2>8
    <3>2. QED
      BY <2>4, <3>1 DEF Speeds, u
  <2>18. v = (IF g[2] >= w THEN g[2] ELSE w)
    BY <2>4, <2>6, <2>8, <2>15, <2>16, <2>17
  <2>19. QED
    BY <1>1, <2>7, <2>14, <2>18 DEF m, v
<1>5. QED
  BY <1>3, <1>4

LEMMA FillStep ==
  ASSUME NEW c, NEW b \in Nat, Listed(c, b)
  PROVE  \A p \in Slots : Fill(c)[p] = Body(c, Fill(c), p)
<1> DEFINE g == Closed(c)
<1>1. g = [p \in Slots |-> Body(c, g, p)]
  <2>1. g = [p \in Slots |-> g[p]]
    BY DEF Closed
  <2>2. \A p \in Slots : g[p] = Body(c, g, p)
    BY ClosedStep
  <2> HIDE DEF g
  <2>3. QED
    BY <2>1, <2>2
<1>2. \E h : h = [p \in Slots |-> Body(c, h, p)]
  BY <1>1
<1>3. Fill(c) = [p \in Slots |-> Body(c, Fill(c), p)]
  BY <1>2 DEF Fill
<1>4. QED
  BY <1>3

(* What the slot before leaves for a slot: a temperature above it and a     *)
(* speed not below it                                                       *)
Continues(c, b, p) ==
  LET f == Fill(c) IN
  /\ f[p] = <<f[p][1], f[p][2]>>
  /\ f[p][1] \in Nat /\ f[p][2] \in 0..255
  /\ f[p - 1][1] < f[p][1]
  /\ f[p - 1][2] <= f[p][2]
  /\ f[p][1] <= b \/ f[p][1] = f[p - 1][1] + 1

(* The first slot holds the first point, every other one continues the one  *)
(* before.                                                                  *)
LEMMA FillNext ==
  ASSUME NEW c, NEW b \in Nat, Listed(c, b), NEW p \in Slots
  PROVE  /\ p = 1 => Fill(c)[p] = c[1]
         /\ p # 1 /\ Fill(c)[p - 1][1] \in Nat /\ Fill(c)[p - 1][2] \in 0..255
              => Continues(c, b, p)
<1> DEFINE h == Fill(c)
           u == Upto(c, p)
           g == c[u]
           before == h[p - 1]
<1>1. h[p] = Body(c, h, p)
  BY FillStep
<1>2. Len(c) \in Nat \ {0} /\ u \in 1..Len(c) /\ (p = 1 => u = 1)
  BY DriverFacts DEF Listed, Upto
<1>3. g[1] \in Nat /\ g[1] <= b /\ g[2] \in 0..255
  <2>1. g[1] \in 1..b /\ g[2] \in 0..255
    BY <1>2 DEF Listed
  <2>2. QED
    BY <2>1
<1>4. ASSUME p = 1 PROVE h[p] = c[1]
  BY <1>1, <1>2, <1>4 DEF Body, Upto
<1>5. ASSUME p # 1, before[1] \in Nat, before[2] \in 0..255
      PROVE  /\ h[p] = <<h[p][1], h[p][2]>>
             /\ h[p][1] \in Nat /\ h[p][2] \in 0..255
             /\ before[1] < h[p][1] /\ before[2] <= h[p][2]
             /\ h[p][1] <= b \/ h[p][1] = before[1] + 1
  <2> DEFINE t == IF p <= Len(c) /\ g[1] > before[1] THEN g[1] ELSE before[1] + 1
             v == IF g[2] >= before[2] THEN g[2] ELSE before[2]
  <2>1. h[p] = <<t, v>>
    BY <1>1, <1>5 DEF Body, Upto
  <2>2. t \in Nat /\ before[1] < t /\ (t <= b \/ t = before[1] + 1)
    BY <1>3, <1>5
  <2>3. v \in 0..255 /\ before[2] <= v
    BY <1>3, <1>5
  <2> HIDE DEF t, v, h, before
  <2>4. QED
    BY <2>1, <2>2, <2>3
<1>6. QED
  BY <1>4, <1>5 DEF Continues

LEMMA FillType ==
  ASSUME NEW c, NEW b \in Nat, Listed(c, b), NEW p \in Slots
  PROVE  /\ Fill(c)[p] = <<Fill(c)[p][1], Fill(c)[p][2]>>
         /\ Fill(c)[p][1] \in 1..(b + p - 1) /\ Fill(c)[p][2] \in 0..255
<1> DEFINE Good(q) == /\ Fill(c)[q] = <<Fill(c)[q][1], Fill(c)[q][2]>>
                      /\ Fill(c)[q][1] \in 1..(b + q - 1) /\ Fill(c)[q][2] \in 0..255
           bad == {q \in Slots : ~Good(q)}
<1> SUFFICES ASSUME bad # {} PROVE FALSE
  OBVIOUS
<1>1. bad \subseteq Nat
  BY DriverFacts
<1>2. PICK q \in bad : \A y \in bad : q <= y
  BY <1>1, LeastIsThere
<1>3. CASE q = 1
  <2>1. Fill(c)[q] = c[1] /\ 1 \in 1..Len(c)
    <3>1. q \in Slots /\ Fill(c)[q] = c[1]
      BY <1>2, <1>3, FillNext
    <3>2. Len(c) \in Nat \ {0}
      BY DriverFacts DEF Listed
    <3>3. QED
      BY <3>1, <3>2
  <2>2. c[1] = <<c[1][1], c[1][2]>> /\ c[1][1] \in 1..b /\ c[1][2] \in 0..255
    BY <2>1 DEF Listed
  <2>3. Good(q)
    BY <1>3, <2>1, <2>2
  <2>4. QED
    BY <1>2, <2>3
<1>4. CASE q # 1
  <2>1. q \in Slots /\ q \in Nat /\ q - 1 \in Slots /\ q > 1
    BY <1>2, <1>4, SlotBefore
  <2>2. Good(q - 1)
    BY <1>2, <2>1
  <2>3. Fill(c)[q - 1][1] \in Nat /\ Fill(c)[q - 1][1] <= b + q - 2 /\ Fill(c)[q - 1][2] \in 0..255
    BY <2>1, <2>2
  <2>4. /\ Fill(c)[q] = <<Fill(c)[q][1], Fill(c)[q][2]>>
        /\ Fill(c)[q][1] \in Nat /\ Fill(c)[q][2] \in 0..255
        /\ Fill(c)[q - 1][1] < Fill(c)[q][1]
        /\ Fill(c)[q][1] <= b \/ Fill(c)[q][1] = Fill(c)[q - 1][1] + 1
    <3>1. Continues(c, b, q)
      BY <1>4, <2>1, <2>3, FillNext
    <3>2. QED
      BY <3>1 DEF Continues
  <2>5. Fill(c)[q][1] \in 1..(b + q - 1)
    BY <2>1, <2>3, <2>4
  <2>6. Good(q)
    BY <2>4, <2>5
  <2>7. QED
    BY <1>2, <2>6
<1>5. QED
  BY <1>3, <1>4

(* What the driver is sent for a list                                       *)
Floor(speed) == IF speed < MinPwm THEN MinPwm ELSE speed
Want(c) == [p \in Slots |-> [temp |-> Filled(c)[p][1], speed |-> Floor(Percent(Filled(c)[p][2]))]]

Fit(c) ==
  /\ Len(c) \in Nat \ {0}
  /\ \A p \in Slots : Filled(c)[p][1] \in 1..255 /\ Filled(c)[p][2] \in 0..255
  /\ \A p \in Slots : p # 1 => /\ Filled(c)[p - 1][1] < Filled(c)[p][1]
                               /\ Filled(c)[p - 1][2] <= Filled(c)[p][2]

(* Tables that the script leaves in the driver                              *)
Nice(t) ==
  /\ t \in Table
  /\ \A p \in Slots : t[p].temp \in 1..255 /\ t[p].speed \in MinPwm..100
  /\ \A p \in Slots : p # 1 => t[p - 1].temp < t[p].temp /\ t[p - 1].speed <= t[p].speed

LEMMA FitCurve ==
  ASSUME InRange, NEW c \in Curves
  PROVE  Fit(c)
<1> DEFINE b == 255 - N
<1>1. b \in Nat /\ b + N = 255
  BY DriverFacts
<1>2. Listed(c, b)
  <2>1. c \in Seq((1..b) \X (0..255)) /\ c # <<>>
    BY CurvesAssumption, DriverFacts DEF InRange
  <2>2. Len(c) \in Nat \ {0}
    BY <2>1
  <2>3. \A i \in 1..Len(c) : c[i] \in (1..b) \X (0..255)
    BY <2>1
  <2>4. \A x \in (1..b) \X (0..255) : x = <<x[1], x[2]>> /\ x[1] \in 1..b /\ x[2] \in 0..255
    OBVIOUS
  <2>5. QED
    BY <2>2, <2>3, <2>4 DEF Listed
<1> HIDE DEF b
<1>3. \A p \in Slots : /\ Filled(c)[p] = Fill(c)[p]
                       /\ Fill(c)[p][1] \in 1..(b + p - 1) /\ Fill(c)[p][2] \in 0..255
  BY <1>1, <1>2, FilledIs, FillType
<1>4. ASSUME NEW p \in Slots PROVE Filled(c)[p][1] \in 1..255 /\ Filled(c)[p][2] \in 0..255
  <2> DEFINE x == Fill(c)[p][1]
  <2>1. x \in 1..(b + p - 1) /\ Fill(c)[p][2] \in 0..255 /\ Filled(c)[p] = Fill(c)[p]
    BY <1>3
  <2> HIDE DEF x
  <2>2. p \in Nat /\ p >= 1 /\ p <= N /\ N \in Nat
    BY DriverFacts
  <2>3. x \in 1..255
    BY <1>1, <2>1, <2>2
  <2>4. QED
    BY <2>1, <2>3 DEF x
<1>5. ASSUME NEW p \in Slots, p # 1
      PROVE  Filled(c)[p - 1][1] < Filled(c)[p][1] /\ Filled(c)[p - 1][2] <= Filled(c)[p][2]
  <2>1. p - 1 \in Slots
    BY <1>5, SlotBefore
  <2>2. Fill(c)[p - 1][1] \in Nat /\ Fill(c)[p - 1][2] \in 0..255
    BY <1>3, <1>4, <2>1
  <2>3. Fill(c)[p - 1][1] < Fill(c)[p][1] /\ Fill(c)[p - 1][2] <= Fill(c)[p][2]
    <3>1. Continues(c, b, p)
      BY <1>1, <1>2, <1>5, <2>2, FillNext
    <3>2. QED
      BY <3>1 DEF Continues
  <2>4. QED
    BY <1>3, <2>1, <2>3
<1>6. QED
  BY <1>2, <1>4, <1>5 DEF Fit, Listed

LEMMA FloorFacts ==
  ASSUME NEW s \in 0..100
  PROVE  /\ Floor(s) \in MinPwm..100 /\ Floor(s) \in 0..100
         /\ s >= MinPwm => Floor(s) = s
         /\ \A t \in 0..100 : s <= t => Floor(s) <= Floor(t)
BY DriverFacts DEF Floor

LEMMA WantNice ==
  ASSUME NEW c, Fit(c)
  PROVE  Nice(Want(c)) /\ \A p \in Slots : Percent(Filled(c)[p][2]) \in 0..100
<1>1. ASSUME NEW p \in Slots PROVE Percent(Filled(c)[p][2]) \in 0..100
  <2> DEFINE x == Filled(c)[p][2]
  <2>1. x \in 0..255
    BY DEF Fit
  <2> HIDE DEF x
  <2>2. x \in Nat /\ x <= 255 /\ x <= x
    BY <2>1
  <2>3. Percent(x) \in Nat /\ Percent(x) <= 100
    BY <2>2, Rises
  <2>4. Percent(x) \in 0..100
    BY <2>3, Ranges
  <2>5. QED
    BY <2>4 DEF x
<1>2. ASSUME NEW p \in Slots
      PROVE  /\ Want(c)[p].temp \in 1..255 /\ Want(c)[p].speed \in MinPwm..100
             /\ Want(c)[p] \in Point
  <2>1. Filled(c)[p][1] \in 1..255 /\ Floor(Percent(Filled(c)[p][2])) \in MinPwm..100
    BY <1>1, FloorFacts DEF Fit
  <2>2. Want(c)[p] = [temp |-> Filled(c)[p][1], speed |-> Floor(Percent(Filled(c)[p][2]))]
    BY DEF Want
  <2> DEFINE x == Filled(c)[p][1]
             y == Floor(Percent(Filled(c)[p][2]))
  <2>3. x \in U8 /\ y \in U8
    <3>1. x \in 1..255 /\ y \in MinPwm..100
      BY <2>1
    <3> HIDE DEF x, y
    <3>2. x \in 0..255 /\ y \in 0..255
      BY <3>1, DriverFacts
    <3>3. QED
      BY <3>2 DEF U8
  <2>4. Want(c)[p].temp = x /\ Want(c)[p].speed = y
    BY <2>2
  <2>5. [temp |-> x, speed |-> y] \in Point
    BY <2>3 DEF Point
  <2>6. QED
    BY <2>1, <2>2, <2>4, <2>5
<1>3. Want(c) \in Table
  BY <1>2 DEF Want, Table
<1>4. ASSUME NEW p \in Slots, p # 1
      PROVE  Want(c)[p - 1].temp < Want(c)[p].temp /\ Want(c)[p - 1].speed <= Want(c)[p].speed
  <2>1. p - 1 \in Slots
    BY <1>4, SlotBefore
  <2>2. Filled(c)[p - 1][1] < Filled(c)[p][1] /\ Filled(c)[p - 1][2] <= Filled(c)[p][2]
    BY <1>4 DEF Fit
  <2>3. Filled(c)[p - 1][2] \in Nat /\ Filled(c)[p][2] \in Nat
    <3>1. Filled(c)[p - 1][2] \in 0..255 /\ Filled(c)[p][2] \in 0..255
      BY <2>1 DEF Fit
    <3>2. QED
      BY <3>1, Ranges
  <2>4. Percent(Filled(c)[p - 1][2]) <= Percent(Filled(c)[p][2])
    BY <2>2, <2>3, Rises
  <2>5. Floor(Percent(Filled(c)[p - 1][2])) <= Floor(Percent(Filled(c)[p][2]))
    BY <1>1, <2>1, <2>4, FloorFacts
  <2>6. /\ Want(c)[p].temp = Filled(c)[p][1]
        /\ Want(c)[p].speed = Floor(Percent(Filled(c)[p][2]))
        /\ Want(c)[p - 1].temp = Filled(c)[p - 1][1]
        /\ Want(c)[p - 1].speed = Floor(Percent(Filled(c)[p - 1][2]))
    BY <2>1 DEF Want
  <2>7. QED
    BY <2>2, <2>5, <2>6
<1>5. Nice(Want(c))
  <2>1. ASSUME NEW p \in Slots PROVE Want(c)[p].temp \in 1..255 /\ Want(c)[p].speed \in MinPwm..100
    BY <1>2
  <2> DEFINE w == Want(c)
  <2> HIDE DEF w
  <2>2. QED
    BY <1>3, <1>4, <2>1 DEF Nice, w
<1>6. QED
  BY <1>1, <1>5

(* A table that was read and is written back comes back                     *)
LEMMA ShownFit ==
  ASSUME NEW t, Nice(t)
  PROVE  /\ Fit(Shown(t)) /\ Want(Shown(t)) = t /\ Shown(t) # <<>>
         /\ Len(Shown(t)) = N
<1> DEFINE c == Shown(t)
<1>1. /\ c = [p \in 1..N |-> <<t[p].temp, PwmShown(t[p].speed)>>]
      /\ N \in Nat
  BY DriverFacts DEF Shown
<1>2. ASSUME NEW p \in Slots
      PROVE  /\ t[p].temp \in 1..255 /\ t[p].speed \in 0..100 /\ t[p].speed >= MinPwm
             /\ t[p] = [temp |-> t[p].temp, speed |-> t[p].speed]
  <2>1. t[p].temp \in 1..255 /\ t[p].speed \in MinPwm..100 /\ t[p] \in Point
    BY DEF Nice, Table
  <2>2. t[p] = [temp |-> t[p].temp, speed |-> t[p].speed]
    BY <2>1 DEF Point
  <2>3. t[p].speed \in 0..100 /\ t[p].speed >= MinPwm
    BY <2>1, Ranges
  <2>4. QED
    BY <2>1, <2>2, <2>3
<1>3. ASSUME NEW p \in Slots
      PROVE  /\ c[p] = <<c[p][1], c[p][2]>>
             /\ c[p][1] = t[p].temp /\ c[p][2] = PwmShown(t[p].speed)
             /\ c[p][1] \in 1..255 /\ c[p][2] \in 0..255
             /\ Percent(c[p][2]) = t[p].speed
  <2>1. c[p] = <<t[p].temp, PwmShown(t[p].speed)>>
    BY <1>1, DriverFacts
  <2>2. PwmShown(t[p].speed) \in 0..255 /\ Percent(PwmShown(t[p].speed)) = t[p].speed
    BY <1>2, RoundTrip, ZenonT(40)
  <2> DEFINE x == PwmShown(t[p].speed)
             y == t[p].temp
  <2>3. y \in 1..255 /\ c[p] = <<y, x>> /\ x \in 0..255 /\ Percent(x) = t[p].speed
    BY <1>2, <2>1, <2>2, ZenonT(40)
  <2> HIDE DEF c, x, y
  <2>4. c[p][1] = y /\ c[p][2] = x /\ c[p] = <<c[p][1], c[p][2]>>
    BY <2>3
  <2>5. QED
    BY <2>3, <2>4 DEF x, y
<1>4. ASSUME NEW p \in Slots, p # 1
      PROVE  c[p - 1][1] < c[p][1] /\ c[p - 1][2] <= c[p][2]
  <2>1. p - 1 \in Slots
    BY <1>4, SlotBefore
  <2>2. t[p - 1].temp < t[p].temp /\ t[p - 1].speed <= t[p].speed
    BY <1>4 DEF Nice
  <2>3. t[p - 1].speed \in Nat /\ t[p].speed \in Nat
    <3>1. \A i \in Slots : t[i].speed \in 0..100
      BY <1>2, ZenonT(40)
    <3>2. \A i \in Slots : t[i].speed \in Nat
      BY <3>1
    <3>3. QED
      BY <2>1, <3>2
  <2>4. PwmShown(t[p - 1].speed) <= PwmShown(t[p].speed)
    BY <2>2, <2>3, Rises
  <2>5. QED
    BY <1>3, <2>1, <2>2, <2>4
<1>5. Len(c) = N /\ c # <<>>
  <2>1. Len(c) = N
    BY <1>1
  <2>2. QED
    BY <2>1, DriverFacts
<1> HIDE DEF c
<1>6. Listed(c, 255)
  BY <1>3, <1>5, DriverFacts DEF Listed
<1>7. \A p \in Slots : Fill(c)[p] = c[p]
  <2> DEFINE bad == {q \in Slots : Fill(c)[q] # c[q]}
  <2> SUFFICES ASSUME bad # {} PROVE FALSE
    OBVIOUS
  <2>1. bad \subseteq Nat
    BY DriverFacts
  <2>2. PICK q \in bad : \A y \in bad : q <= y
    BY <2>1, LeastIsThere
  <2>3. CASE q = 1
    <3>1. Fill(c)[q] = c[1]
      BY <1>6, <2>2, <2>3, FillNext
    <3>2. QED
      BY <2>2, <2>3, <3>1
  <2>4. CASE q # 1
    <3>1. q \in Slots /\ q \in Nat /\ q - 1 \in Slots /\ q > 1 /\ q <= N
      BY <2>2, <2>4, SlotBefore
    <3>2. Fill(c)[q - 1] = c[q - 1]
      BY <2>2, <3>1
    <3>3. Fill(c)[q] = Body(c, Fill(c), q)
      BY <1>6, <3>1, FillStep
    <3>4. c[q - 1][1] < c[q][1] /\ c[q - 1][2] <= c[q][2]
      BY <1>4, <2>4, <3>1
    <3>5. c[q][1] \in Nat /\ c[q - 1][1] \in Nat /\ c[q][2] \in Nat /\ c[q - 1][2] \in Nat
      <4>1. c[q][1] \in 1..255 /\ c[q - 1][1] \in 1..255 /\ c[q][2] \in 0..255 /\ c[q - 1][2] \in 0..255
        BY <1>3, <3>1
      <4> DEFINE x == c[q][1]
                 y == c[q - 1][1]
                 v == c[q][2]
                 w == c[q - 1][2]
      <4>2. x \in 1..255 /\ y \in 1..255 /\ v \in 0..255 /\ w \in 0..255
        BY <4>1
      <4> HIDE DEF x, y, v, w
      <4>3. x \in Nat /\ y \in Nat /\ v \in Nat /\ w \in Nat
        BY <4>2
      <4>4. QED
        BY <4>3 DEF x, y, v, w
    <3>6. Body(c, Fill(c), q) = <<c[q][1], c[q][2]>>
      BY <1>5, <2>4, <3>1, <3>2, <3>4, <3>5 DEF Body
    <3>7. QED
      BY <1>3, <2>2, <3>1, <3>3, <3>6
  <2>5. QED
    BY <2>3, <2>4
<1>8. \A p \in Slots : Filled(c)[p] = c[p]
  BY <1>7, FilledIs
<1>9. Fit(c)
  <2>1. \A p \in Slots : p # 1 => Filled(c)[p - 1] = c[p - 1]
    BY <1>8, SlotBefore
  <2>2. QED
    BY <1>3, <1>4, <1>5, <1>8, <2>1, DriverFacts, ZenonT(40) DEF Fit
<1>10. Want(c) = t
  <2>1. \A p \in Slots : Want(c)[p] = t[p]
    <3>1. TAKE p \in Slots
    <3>2. Want(c)[p] = [temp |-> t[p].temp, speed |-> Floor(t[p].speed)]
      BY <1>3, <1>8 DEF Want
    <3>3. Floor(t[p].speed) = t[p].speed
      BY <1>2, FloorFacts
    <3>4. QED
      BY <1>2, <3>2, <3>3
  <2>2. Want(c) = [p \in Slots |-> Want(c)[p]] /\ t = [p \in Slots |-> t[p]]
    BY DEF Want, Nice, Table
  <2>3. QED
    BY <2>1, <2>2
<1>11. QED
  BY <1>5, <1>9, <1>10 DEF c
-----------------------------------------------------------------------------
(* The driver while the script's writes succeed: it has read the stock      *)
(* table and the minimum, and has a user table u.                           *)
Fan(i, mode, u) ==
  /\ i \in FanInfo
  /\ i.mode = mode /\ i.count = N /\ i.user = u /\ ~i.speedValid
  /\ i.min = MinPwm /\ i.stock = Stock /\ i.stockCount = N

Raised    == [p \in Slots |-> [temp |-> Stock[p].temp, speed |-> Floor(Stock[p].speed)]]
AtFull(t) == [p \in Slots |-> [temp |-> t[p].temp, speed |-> 100]]

(* What the firmware runs in a mode *)
Runs(mode, u) ==
  IF mode = AUTO THEN RunStock ELSE IF mode = FULL THEN Run(AtFull(u)) ELSE Run(u)

LEMMA NicePoint ==
  ASSUME NEW t, Nice(t), NEW p \in Slots
  PROVE  /\ t[p] = [temp |-> t[p].temp, speed |-> t[p].speed]
         /\ Floor(t[p].speed) = t[p].speed
<1>1. t[p].speed \in MinPwm..100 /\ t[p] \in Point
  BY DEF Nice, Table
<1>2. t[p].speed \in 0..100 /\ t[p].speed >= MinPwm
  BY <1>1, Ranges
<1>3. Floor(t[p].speed) = t[p].speed
  BY <1>2, FloorFacts
<1>4. QED
  BY <1>1, <1>3 DEF Point

LEMMA NiceTables ==
  ASSUME InRange
  PROVE  /\ Nice(Raised) /\ Nice(AtFull(Stock))
         /\ AtFull(AtFull(Stock)) = AtFull(Stock)
<1>1. ASSUME NEW p \in Slots
      PROVE  Stock[p].temp \in 1..255 /\ Stock[p].speed \in 0..100
  <2>1. Stock[p] \in Point /\ Stock[p].temp >= 1 /\ Stock[p].speed <= 100
    BY DriverFacts DEF InRange, Table
  <2>2. Stock[p].temp \in 0..255 /\ Stock[p].speed \in 0..255
    BY <2>1, DriverFacts DEF Point
  <2> DEFINE x == Stock[p].temp
             y == Stock[p].speed
  <2>3. x \in 0..255 /\ y \in 0..255 /\ x >= 1 /\ y <= 100
    BY <2>1, <2>2
  <2> HIDE DEF x, y
  <2>4. x \in 1..255 /\ y \in 0..100
    BY <2>3
  <2>5. QED
    BY <2>4 DEF x, y
<1>2. ASSUME NEW p \in Slots, p # 1
      PROVE  Stock[p - 1].temp < Stock[p].temp /\ Stock[p - 1].speed <= Stock[p].speed
  BY <1>2, SlotBefore DEF InRange
<1>3. ASSUME NEW x \in 1..255, NEW y \in MinPwm..100
      PROVE  [temp |-> x, speed |-> y] \in Point
  BY Ranges, DriverFacts DEF Point
<1>4. Nice(Raised)
  <2>1. ASSUME NEW p \in Slots
        PROVE  /\ Raised[p] = [temp |-> Stock[p].temp, speed |-> Floor(Stock[p].speed)]
               /\ Floor(Stock[p].speed) \in MinPwm..100
    BY <1>1, FloorFacts, ZenonT(40) DEF Raised
  <2>2. Raised \in Table
    <3>1. \A p \in Slots : [temp |-> Stock[p].temp, speed |-> Floor(Stock[p].speed)] \in Point
      BY <1>1, <1>3, <2>1, ZenonT(40)
    <3>2. QED
      BY <3>1 DEF Raised, Table
  <2>3. ASSUME NEW p \in Slots PROVE Raised[p].temp \in 1..255 /\ Raised[p].speed \in MinPwm..100
    <3>1. Raised[p].temp = Stock[p].temp /\ Raised[p].speed = Floor(Stock[p].speed)
      BY DEF Raised
    <3>2. Stock[p].temp \in 1..255 /\ Stock[p].speed \in 0..100
      BY <1>1
    <3>3. Floor(Stock[p].speed) \in MinPwm..100
      BY <3>2, FloorFacts
    <3>4. Raised[p].temp \in 1..255
      BY <3>1, <3>2
    <3>5. Raised[p].speed \in MinPwm..100
      BY <3>1, <3>3
    <3>6. QED
      BY <3>4, <3>5
  <2>4. ASSUME NEW p \in Slots, p # 1
        PROVE  Raised[p - 1].temp < Raised[p].temp /\ Raised[p - 1].speed <= Raised[p].speed
    <3>1. p - 1 \in Slots
      BY <2>4, SlotBefore
    <3>2. /\ Raised[p].temp = Stock[p].temp /\ Raised[p].speed = Floor(Stock[p].speed)
          /\ Raised[p - 1].temp = Stock[p - 1].temp
          /\ Raised[p - 1].speed = Floor(Stock[p - 1].speed)
      BY <3>1 DEF Raised
    <3>3. Stock[p - 1].temp < Stock[p].temp /\ Stock[p - 1].speed <= Stock[p].speed
      BY <1>2, <2>4
    <3>4. Stock[p].speed \in 0..100 /\ Stock[p - 1].speed \in 0..100
      BY <1>1, <3>1
    <3>5. Floor(Stock[p - 1].speed) <= Floor(Stock[p].speed)
      BY <3>3, <3>4, FloorFacts
    <3>6. QED
      BY <3>2, <3>3, <3>5
  <2> DEFINE r == Raised
  <2> HIDE DEF r
  <2>5. QED
    BY <2>2, <2>3, <2>4 DEF Nice
<1>5. Nice(AtFull(Stock))
  <2> DEFINE t == AtFull(Stock)
  <2>2. t \in Table
    <3>1. ASSUME NEW p \in Slots PROVE [temp |-> Stock[p].temp, speed |-> 100] \in Point
      <4>1. 100 \in MinPwm..100 /\ Stock[p].temp \in 1..255
        BY <1>1, DriverFacts
      <4>2. QED
        BY <1>3, <4>1
    <3>2. QED
      BY <3>1 DEF AtFull, Table
  <2>3. ASSUME NEW p \in Slots PROVE t[p].temp \in 1..255 /\ t[p].speed \in MinPwm..100
    <3>1. t[p].temp = Stock[p].temp /\ t[p].speed = 100 /\ 100 \in MinPwm..100
      BY DriverFacts DEF AtFull
    <3>2. QED
      BY <1>1, <3>1
  <2>4. ASSUME NEW p \in Slots, p # 1
        PROVE  t[p - 1].temp < t[p].temp /\ t[p - 1].speed <= t[p].speed
    <3>1. p - 1 \in Slots
      BY <2>4, SlotBefore
    <3>2. t[p].temp = Stock[p].temp /\ t[p].speed = 100
          /\ t[p - 1].temp = Stock[p - 1].temp /\ t[p - 1].speed = 100
      BY <3>1 DEF AtFull
    <3>3. QED
      BY <1>2, <2>4, <3>2
  <2> HIDE DEF t
  <2>5. QED
    BY <2>2, <2>3, <2>4 DEF Nice, t
<1>6. AtFull(AtFull(Stock)) = AtFull(Stock)
  BY DEF AtFull
<1>7. QED
  BY <1>4, <1>5, <1>6

(* The tables of an activation *)
LEMMA ActivatedFan ==
  ASSUME NEW i, NEW m \in Modes, NEW u, Fan(i, m, u), Nice(u)
  PROVE  /\ ActiveCount(i) = N /\ FromStock(i) = (m = AUTO)
         /\ Activated(i, FALSE) = IF m = AUTO THEN Raised ELSE u
         /\ Activated(i, TRUE) = IF m = AUTO THEN AtFull(Stock) ELSE AtFull(u)
         /\ CopiedUser(i, FALSE, AllWrites) = IF m = AUTO THEN Raised ELSE u
         /\ CopiedUser(i, TRUE, AllWrites) = IF m = AUTO THEN AtFull(Stock) ELSE u
<1>1. i.mode = m /\ i.count = N /\ i.stockCount = N /\ i.user = u /\ i.stock = Stock /\ i.min = MinPwm
  BY DEF Fan
<1>2. \A x : AtLeastMin(x, i) = Floor(x)
  BY <1>1 DEF AtLeastMin, Floor
<1>3. ActiveCount(i) = N /\ FromStock(i) = (m = AUTO) /\ ActiveTable(i) = IF m = AUTO THEN Stock ELSE u
  BY <1>1 DEF ActiveCount, FromStock, ActiveTable
<1>4. u = [p \in Slots |-> u[p]] /\ \A p \in Slots : p <= AllWrites
  BY DriverFacts DEF Nice, Table
<1>5. CASE m = AUTO
  <2>1. Activated(i, FALSE) = Raised
    BY <1>2, <1>3, <1>5 DEF Activated, Raised
  <2>2. Activated(i, TRUE) = AtFull(Stock)
    BY <1>3, <1>5 DEF Activated, AtFull
  <2>3. /\ Raised = [p \in Slots |-> Raised[p]]
        /\ AtFull(Stock) = [p \in Slots |-> AtFull(Stock)[p]]
    BY DEF Raised, AtFull
  <2>4. CopiedUser(i, FALSE, AllWrites) = Raised
    BY <1>3, <1>4, <1>5, <2>1, <2>3 DEF CopiedUser
  <2>5. CopiedUser(i, TRUE, AllWrites) = AtFull(Stock)
    BY <1>3, <1>4, <1>5, <2>2, <2>3 DEF CopiedUser
  <2>6. QED
    BY <1>3, <1>5, <2>1, <2>2, <2>4, <2>5
<1>6. CASE m # AUTO
  <2>1. Activated(i, FALSE) = u
    <3>1. Activated(i, FALSE) = [p \in Slots |-> [temp |-> u[p].temp, speed |-> Floor(u[p].speed)]]
      BY <1>2, <1>3, <1>6 DEF Activated
    <3>2. \A p \in Slots : [temp |-> u[p].temp, speed |-> Floor(u[p].speed)] = u[p]
      <4> TAKE p \in Slots
      <4>1. u[p] = [temp |-> u[p].temp, speed |-> u[p].speed] /\ Floor(u[p].speed) = u[p].speed
        BY NicePoint
      <4>2. QED
        BY <4>1
    <3>3. QED
      BY <1>4, <3>1, <3>2
  <2>2. Activated(i, TRUE) = AtFull(u)
    BY <1>3, <1>6 DEF Activated, AtFull
  <2>3. CopiedUser(i, FALSE, AllWrites) = u
    BY <1>1, <1>3, <1>4, <1>6 DEF CopiedUser
  <2>4. CopiedUser(i, TRUE, AllWrites) = u
    BY <1>1, <1>3, <1>4, <1>6 DEF CopiedUser
  <2>5. QED
    BY <1>3, <1>6, <2>1, <2>2, <2>3, <2>4
<1>7. QED
  BY <1>5, <1>6

LEMMA FanOtherwise ==
  ASSUME NEW i, NEW m, NEW u, Fan(i, m, u), NEW y \in Modes, NEW z \in BOOLEAN, NEW t \in Table
  PROVE  LET j == [i EXCEPT !.user = t, !.count = N, !.mode = y, !.full = z]
         IN Fan(j, y, t) /\ (j.full <=> z) /\ (j.tempValid <=> i.tempValid)
BY DriverFacts DEF Fan, FanInfo

(* Activation copies the stock table, raised, out of automatic mode, and    *)
(* runs the user table as it is otherwise.                                  *)
LEMMA ActivatePlain ==
  ASSUME InRange, NEW i, NEW m \in Modes, NEW u, Fan(i, m, u), Nice(u), NEW w
  PROVE  LET t == IF m = AUTO THEN Raised ELSE u
             r == Activate([fi |-> i, fw |-> w], FALSE, AllWrites)
         IN /\ r.ok /\ Fan(r.fi, MANUAL, t) /\ ~r.fi.full /\ (r.fi.tempValid <=> i.tempValid)
            /\ r.fw = Run(t) /\ Nice(t)
<1> DEFINE t == IF m = AUTO THEN Raised ELSE u
           s == [fi |-> i, fw |-> w]
           r == Activate(s, FALSE, AllWrites)
<1>1. ActiveCount(i) = N /\ Activated(i, FALSE) = t /\ CopiedUser(i, FALSE, AllWrites) = t
  BY ActivatedFan
<1>2. Nice(t) /\ t \in Table
  BY NiceTables DEF Nice
<1> HIDE DEF t
<1>3. s.fi = i /\ s.fw = w
  OBVIOUS
<1> HIDE DEF s
<1>4. r = Succeeded([i EXCEPT !.user = t, !.count = N, !.mode = MANUAL, !.full = FALSE], Run(t))
  <2>1. N # 0 /\ ~(AllWrites < AllWrites)
    BY DriverFacts
  <2>2. QED
    BY <1>1, <1>3, <2>1 DEF Activate
<1> DEFINE j == [i EXCEPT !.user = t, !.count = N, !.mode = MANUAL, !.full = FALSE]
<1>5. Fan(j, MANUAL, t) /\ ~j.full /\ (j.tempValid <=> i.tempValid)
  <2>1. MANUAL \in Modes /\ FALSE \in BOOLEAN
    BY DEF Modes
  <2>2. QED
    BY <1>2, <2>1, FanOtherwise
<1> HIDE DEF j, r
<1>6. r.ok /\ r.fi = j /\ r.fw = Run(t)
  BY <1>4 DEF Succeeded, j
<1>7. QED
  BY <1>2, <1>5, <1>6 DEF r, s, t

LEMMA ActivateFull ==
  ASSUME InRange, NEW i, NEW m \in Modes, NEW u, Fan(i, m, u), Nice(u), NEW w
  PROVE  LET t == IF m = AUTO THEN AtFull(Stock) ELSE u
             r == Activate([fi |-> i, fw |-> w], TRUE, AllWrites)
         IN /\ r.ok /\ Fan(r.fi, MANUAL, t) /\ r.fi.full /\ (r.fi.tempValid <=> i.tempValid)
            /\ r.fw = Run(AtFull(t)) /\ Nice(t)
            /\ r = [fi |-> r.fi, fw |-> r.fw, ok |-> TRUE]
<1> DEFINE t == IF m = AUTO THEN AtFull(Stock) ELSE u
           s == [fi |-> i, fw |-> w]
           r == Activate(s, TRUE, AllWrites)
<1>1. ActiveCount(i) = N /\ Activated(i, TRUE) = AtFull(t) /\ CopiedUser(i, TRUE, AllWrites) = t
  BY ActivatedFan, NiceTables
<1>2. Nice(t) /\ t \in Table
  BY NiceTables DEF Nice
<1> HIDE DEF t
<1>3. s.fi = i /\ s.fw = w
  OBVIOUS
<1> HIDE DEF s
<1>4. r = Succeeded([i EXCEPT !.user = t, !.count = N, !.mode = MANUAL, !.full = TRUE], Run(AtFull(t)))
  <2>1. N # 0 /\ ~(AllWrites < AllWrites)
    BY DriverFacts
  <2>2. QED
    BY <1>1, <1>3, <2>1 DEF Activate
<1> DEFINE j == [i EXCEPT !.user = t, !.count = N, !.mode = MANUAL, !.full = TRUE]
<1>5. Fan(j, MANUAL, t) /\ j.full /\ (j.tempValid <=> i.tempValid)
  <2>1. MANUAL \in Modes /\ TRUE \in BOOLEAN
    BY DEF Modes
  <2>2. QED
    BY <1>2, <2>1, FanOtherwise
<1> HIDE DEF j, r
<1>6. r.ok /\ r.fi = j /\ r.fw = Run(AtFull(t)) /\ r = [fi |-> r.fi, fw |-> r.fw, ok |-> TRUE]
  BY <1>4 DEF Succeeded, j
<1>7. QED
  BY <1>2, <1>5, <1>6 DEF r, s, t

LEMMA EnableStockFan ==
  ASSUME NEW i, NEW m, NEW u, Fan(i, m, u), NEW w
  PROVE  LET r == EnableStock([fi |-> i, fw |-> w], AllWrites)
         IN /\ r.ok /\ Fan(r.fi, AUTO, u) /\ ~r.fi.full /\ (r.fi.tempValid <=> i.tempValid)
            /\ r.fw = RunStock
<1> DEFINE j == [i EXCEPT !.mode = AUTO, !.full = FALSE]
           s == [fi |-> i, fw |-> w]
           r == EnableStock(s, AllWrites)
<1>1. AllWrites # 0
  BY DriverFacts
<1>2. s.fi = i
  OBVIOUS
<1>3. r = Succeeded(j, RunStock)
  BY <1>1, <1>2 DEF EnableStock
<1>4. Fan(j, AUTO, u) /\ ~j.full /\ (j.tempValid <=> i.tempValid)
  BY DriverFacts DEF Fan, FanInfo, Modes
<1> HIDE DEF j, r
<1>5. r.ok /\ r.fi = j /\ r.fw = RunStock
  BY <1>3 DEF Succeeded
<1>6. QED
  BY <1>4, <1>5 DEF r

(* A fan at rest: nothing of a point is waiting for its other half          *)
Rests(i, w, mode, u) ==
  /\ Fan(i, mode, u) /\ Nice(u) /\ ~i.tempValid
  /\ i.full <=> mode = FULL
  /\ w = Runs(mode, u)

(* pwm1_enable: the fan runs in the mode that was written                   *)
LEMMA WriteEnableFan ==
  ASSUME InRange, NEW m \in Modes, NEW u, Fan(fi, m, u), Nice(u), ~fi.tempValid, NEW v \in Modes
  PROVE  \E t : /\ (m # AUTO \/ v = AUTO => t = u)
                /\ WriteEnable(v, AllWrites).ok
                /\ Rests(WriteEnable(v, AllWrites).fi, WriteEnable(v, AllWrites).fw, v, t)
<1> DEFINE r == WriteEnable(v, AllWrites)
<1>1. Current = [fi |-> fi, fw |-> fw]
  BY DEF Current
<1>2. FULL # MANUAL /\ FULL # AUTO /\ MANUAL # AUTO /\ (v = FULL \/ v = MANUAL \/ v = AUTO)
  BY DEF FULL, MANUAL, AUTO, Modes
<1>3. CASE v = AUTO
  <2>1. r = EnableStock([fi |-> fi, fw |-> fw], AllWrites)
    BY <1>1, <1>2, <1>3 DEF WriteEnable
  <2>2. /\ r.ok /\ Fan(r.fi, AUTO, u) /\ ~r.fi.full /\ (r.fi.tempValid <=> fi.tempValid)
        /\ r.fw = RunStock
    BY <2>1, EnableStockFan
  <2> HIDE DEF r
  <2>3. Rests(r.fi, r.fw, v, u)
    BY <1>2, <1>3, <2>2 DEF Rests, Runs
  <2>4. QED
    BY <2>2, <2>3 DEF r
<1>4. CASE v = MANUAL
  <2> DEFINE t == IF m = AUTO THEN Raised ELSE u
             a == Activate([fi |-> fi, fw |-> fw], FALSE, AllWrites)
  <2>1. r = a
    BY <1>1, <1>2, <1>4 DEF WriteEnable
  <2>2. /\ a.ok /\ Fan(a.fi, MANUAL, t) /\ ~a.fi.full /\ (a.fi.tempValid <=> fi.tempValid)
        /\ a.fw = Run(t) /\ Nice(t)
    BY ActivatePlain
  <2>3. m # AUTO \/ v = AUTO => t = u
    BY <1>2, <1>4
  <2> HIDE DEF r, t, a
  <2>4. Rests(r.fi, r.fw, v, t) /\ r.ok
    BY <1>2, <1>4, <2>1, <2>2 DEF Rests, Runs
  <2>5. QED
    BY <2>3, <2>4 DEF r
<1>5. CASE v = FULL
  <2> DEFINE t == IF m = AUTO THEN AtFull(Stock) ELSE u
             a == Activate([fi |-> fi, fw |-> fw], TRUE, AllWrites)
             j == [a.fi EXCEPT !.mode = FULL]
  <2>1. /\ a.ok /\ Fan(a.fi, MANUAL, t) /\ a.fi.full /\ (a.fi.tempValid <=> fi.tempValid)
        /\ a.fw = Run(AtFull(t)) /\ Nice(t)
        /\ a = [fi |-> a.fi, fw |-> a.fw, ok |-> TRUE]
    BY ActivateFull
  <2>2. r = [a EXCEPT !.fi.mode = FULL]
    BY <1>1, <1>5, <2>1 DEF WriteEnable, Full
  <2>3. m # AUTO \/ v = AUTO => t = u
    BY <1>2, <1>5
  <2> HIDE DEF r, t, a
  <2>4. r.fi = j /\ r.fw = a.fw /\ r.ok
    BY <2>1, <2>2
  <2>5. Fan(j, FULL, t) /\ j.full /\ ~j.tempValid
    BY <2>1 DEF Fan, FanInfo, Modes
  <2> HIDE DEF j
  <2>6. Rests(r.fi, r.fw, v, t)
    BY <1>2, <1>5, <2>1, <2>4, <2>5 DEF Rests, Runs
  <2>7. QED
    BY <2>3, <2>4, <2>6 DEF r
<1>6. QED
  BY <1>2, <1>3, <1>4, <1>5

LEMMA UserCountFan ==
  ASSUME NEW i, NEW m, NEW u, Fan(i, m, u), NEW w
  PROVE  LET r == UserCount([fi |-> i, fw |-> w], AllWrites)
         IN r.ok /\ r.fi = i /\ r.fw = w
<1>1. i.count # 0
  BY DriverFacts DEF Fan
<1>2. QED
  BY <1>1 DEF UserCount, Succeeded

(* The two halves of a point: the last speed puts the table in force        *)
Heated(t, p, temp) == [t EXCEPT ![p].temp = temp]
Sped(t, p, speed)  == [t EXCEPT ![p].speed = speed]

LEMMA StoreTempFan ==
  ASSUME NEW s, NEW u, Fan(s.fi, MANUAL, u), ~s.fi.full, ~s.fi.tempValid,
         NEW p \in Slots, NEW temp \in 1..255
  PROVE  LET r == StoreTemp(s, p, temp, AllWrites)
         IN /\ r.ok /\ Fan(r.fi, MANUAL, Heated(u, p, temp)) /\ r.fw = s.fw
            /\ ~r.fi.full /\ (r.fi.tempValid <=> p = N)
<1> DEFINE i == s.fi
           w == s.fw
           r == StoreTemp(s, p, temp, AllWrites)
           j == [i EXCEPT !.user[p].temp = temp, !.tempValid = @ \/ p = N]
           x == [u EXCEPT ![p].temp = temp]
<1>0. x = Heated(u, p, temp)
  BY DEF Heated
<1>1. UserCount(s, AllWrites).ok /\ UserCount(s, AllWrites).fi = i /\ UserCount(s, AllWrites).fw = w
  BY DriverFacts DEF Fan, UserCount, Succeeded
<1>2. i.count = N /\ i.user = u /\ ~i.speedValid /\ i \in FanInfo /\ ~(p > N) /\ temp \in U8
  BY Ranges, DriverFacts DEF Fan
<1>3. /\ j.mode = i.mode /\ j.full = i.full /\ j.count = i.count /\ j.user = x
      /\ j.min = i.min /\ j.stock = i.stock /\ j.stockCount = i.stockCount
      /\ j.speedValid = i.speedValid /\ (j.tempValid <=> i.tempValid \/ p = N)
      /\ j.tempValid \in BOOLEAN
      /\ j = [mode |-> j.mode, full |-> j.full, count |-> j.count, user |-> j.user,
              tempValid |-> j.tempValid, speedValid |-> j.speedValid, min |-> j.min,
              stock |-> j.stock, stockCount |-> j.stockCount]
  <2> DEFINE b == i.tempValid \/ p = N
  <2>1. j = [[i EXCEPT !.user = x] EXCEPT !.tempValid = b]
    BY <1>2 DEF FanInfo
  <2>2. b \in BOOLEAN
    OBVIOUS
  <2> HIDE DEF x, j, b
  <2>3. /\ j.mode = i.mode /\ j.full = i.full /\ j.count = i.count /\ j.user = x
        /\ j.min = i.min /\ j.stock = i.stock /\ j.stockCount = i.stockCount
        /\ j.speedValid = i.speedValid /\ j.tempValid = b
        /\ j = [mode |-> j.mode, full |-> j.full, count |-> j.count, user |-> j.user,
                tempValid |-> j.tempValid, speedValid |-> j.speedValid, min |-> j.min,
                stock |-> j.stock, stockCount |-> j.stockCount]
    BY <1>2, <2>1 DEF FanInfo
  <2>4. (j.tempValid <=> i.tempValid \/ p = N) /\ j.tempValid \in BOOLEAN
    BY <2>2, <2>3 DEF b
  <2>5. QED
    BY <2>3, <2>4
<1>4. x \in Table
  BY <1>2 DEF FanInfo, Table, Point
<1>5. PointStored(i, p, temp, 0) = j
  BY Ranges DEF PointStored, WithTemp
<1> HIDE DEF j, x
<1>6. j \in FanInfo
  BY <1>2, <1>3, <1>4 DEF FanInfo
<1>7. Fan(j, MANUAL, x)
  BY <1>3, <1>6 DEF Fan
<1>8. UpdatePoint([fi |-> i, fw |-> w], p, temp, 0, AllWrites) = Succeeded(j, w)
  BY <1>2, <1>3, <1>5 DEF UpdatePoint
<1>9. r = Succeeded(j, w)
  BY <1>1, <1>2, <1>8 DEF StoreTemp, StorePoint
<1> HIDE DEF r
<1>10. r.ok /\ r.fi = j /\ r.fw = w
  BY <1>9 DEF Succeeded
<1>11. QED
  BY <1>0, <1>3, <1>7, <1>10 DEF r

LEMMA StoreSpeedFan ==
  ASSUME NEW s, NEW u, Fan(s.fi, MANUAL, u), ~s.fi.full,
         NEW p \in Slots, s.fi.tempValid <=> p = N, NEW v \in 0..100,
         p = N => Ordered(Sped(u, p, Floor(v)))
  PROVE  LET x == Sped(u, p, Floor(v))
             r == StoreSpeed(s, p, v, AllWrites)
         IN /\ r.ok /\ Fan(r.fi, MANUAL, x) /\ ~r.fi.full /\ ~r.fi.tempValid
            /\ (p = N => r.fw = Run(x)) /\ (p # N => r.fw = s.fw)
<1> DEFINE i == s.fi
           w == s.fw
           f == Floor(v)
           x == [u EXCEPT ![p].speed = f]
           r == StoreSpeed(s, p, v, AllWrites)
           j == [i EXCEPT !.user[p].speed = f, !.speedValid = @ \/ p = N]
           d == [j EXCEPT !.tempValid = FALSE, !.speedValid = FALSE]
<1>0. x = Sped(u, p, f)
  BY DEF Sped
<1>1. UserCount(s, AllWrites).ok /\ UserCount(s, AllWrites).fi = i /\ UserCount(s, AllWrites).fw = w
  BY DriverFacts DEF Fan, UserCount, Succeeded
<1>2. i.count = N /\ i.user = u /\ ~i.speedValid /\ i.mode = MANUAL /\ i \in FanInfo /\ ~(p > N)
  BY DriverFacts DEF Fan
<1>3. AtLeastMin(v, i) = f
  BY DEF AtLeastMin, Floor, Fan
<1>4. f \in U8
  <2>1. f \in 0..100
    BY FloorFacts
  <2> HIDE DEF f
  <2>2. QED
    BY <2>1, Ranges, DriverFacts
<1> HIDE DEF f
<1>5. /\ j.mode = i.mode /\ j.full = i.full /\ j.count = i.count /\ j.user = x
      /\ j.min = i.min /\ j.stock = i.stock /\ j.stockCount = i.stockCount
      /\ j.tempValid = i.tempValid /\ (j.speedValid <=> p = N)
      /\ j.speedValid \in BOOLEAN
      /\ j = [mode |-> j.mode, full |-> j.full, count |-> j.count, user |-> j.user,
              tempValid |-> j.tempValid, speedValid |-> j.speedValid, min |-> j.min,
              stock |-> j.stock, stockCount |-> j.stockCount]
  <2> DEFINE b == i.speedValid \/ p = N
  <2>1. j = [[i EXCEPT !.user = x] EXCEPT !.speedValid = b]
    BY <1>2 DEF FanInfo
  <2>2. b \in BOOLEAN
    OBVIOUS
  <2> HIDE DEF x, j, b
  <2>3. /\ j.mode = i.mode /\ j.full = i.full /\ j.count = i.count /\ j.user = x
        /\ j.min = i.min /\ j.stock = i.stock /\ j.stockCount = i.stockCount
        /\ j.tempValid = i.tempValid /\ j.speedValid = b
        /\ j = [mode |-> j.mode, full |-> j.full, count |-> j.count, user |-> j.user,
                tempValid |-> j.tempValid, speedValid |-> j.speedValid, min |-> j.min,
                stock |-> j.stock, stockCount |-> j.stockCount]
    BY <1>2, <2>1 DEF FanInfo
  <2>4. (j.speedValid <=> p = N) /\ j.speedValid \in BOOLEAN
    BY <1>2, <2>2, <2>3 DEF b
  <2>5. QED
    BY <2>3, <2>4
<1>6. x \in Table
  BY <1>2, <1>4 DEF FanInfo, Table, Point
<1>7. PointStored(i, p, 0, f) = j
  BY DEF PointStored, WithSpeed
<1> HIDE DEF j, x
<1>8. j \in FanInfo
  BY <1>2, <1>5, <1>6 DEF FanInfo
<1>9. /\ d \in FanInfo /\ d.mode = j.mode /\ d.full = j.full /\ d.count = j.count /\ d.user = j.user
      /\ d.min = j.min /\ d.stock = j.stock /\ d.stockCount = j.stockCount
      /\ ~d.tempValid /\ ~d.speedValid
  BY <1>8 DEF FanInfo
<1> HIDE DEF d
<1>10. Fan(d, MANUAL, x) /\ ~d.full
  BY <1>5, <1>9 DEF Fan
<1>11. CASE p # N
  <2>1. ~j.tempValid /\ ~j.speedValid /\ ~j.full
    BY <1>5, <1>11
  <2>2. Fan(j, MANUAL, x)
    BY <1>5, <1>8, <1>11 DEF Fan
  <2>3. UpdatePoint([fi |-> i, fw |-> w], p, 0, f, AllWrites) = Succeeded(j, w)
    BY <1>7, <1>11 DEF UpdatePoint
  <2>4. r = Succeeded(j, w)
    <3>1. AtLeastMin(v, s.fi) = f
      BY <1>3
    <3>2. QED
      BY <1>1, <1>2, <2>3, <3>1 DEF StoreSpeed, StorePoint
  <2> HIDE DEF r
  <2>5. r.ok /\ r.fi = j /\ r.fw = w
    BY <2>4 DEF Succeeded
  <2>6. QED
    BY <1>0, <1>11, <2>1, <2>2, <2>5 DEF r, f
<1>12. CASE p = N
  <2> DEFINE q == Commit([fi |-> j, fw |-> w], AllWrites)
  <2>1. q = Succeeded([j EXCEPT !.mode = MANUAL, !.full = FALSE], Run(x))
    <3>1. Ordered(x) /\ N # 0 /\ ~(AllWrites < AllWrites)
      BY <1>0, <1>12, DriverFacts DEF f
    <3>2. QED
      BY <1>2, <1>5, <3>1 DEF Commit
  <2>2. [j EXCEPT !.mode = MANUAL, !.full = FALSE] = j
    <3>1. j.mode = MANUAL /\ j.full = FALSE
      BY <1>2, <1>5, <1>8 DEF FanInfo
    <3>2. QED
      BY <1>8, <3>1 DEF FanInfo
  <2> HIDE DEF q
  <2>3. q.ok /\ q.fi = j /\ q.fw = Run(x)
    BY <2>1, <2>2 DEF Succeeded
  <2>4. j.tempValid /\ j.speedValid
    BY <1>5, <1>12
  <2>5. UpdatePoint([fi |-> i, fw |-> w], p, 0, f, AllWrites) = Succeeded(d, Run(x))
    BY <1>7, <1>12, <2>3, <2>4 DEF UpdatePoint, q, d
  <2>6. r = Succeeded(d, Run(x))
    <3>1. AtLeastMin(v, s.fi) = f
      BY <1>3
    <3>2. QED
      BY <1>1, <1>2, <2>5, <3>1 DEF StoreSpeed, StorePoint
  <2> HIDE DEF r
  <2>7. r.ok /\ r.fi = d /\ r.fw = Run(x)
    BY <2>6 DEF Succeeded
  <2>8. QED
    BY <1>0, <1>9, <1>10, <1>12, <2>7 DEF r, f
<1>13. QED
  BY <1>11, <1>12
-----------------------------------------------------------------------------
(* Types, for any number of scripts and whatever fails *)
Typed(s) == s.fi \in FanInfo /\ s.fw \in Firmware

LEMMA PointTyped ==
  ASSUME NEW i \in FanInfo, NEW speed \in U8
  PROVE  AtLeastMin(speed, i) \in U8
BY DriverAssumption DEF AtLeastMin, FanInfo, U8

LEMMA ActivateTyped ==
  ASSUME NEW s, Typed(s), NEW full \in BOOLEAN, NEW k \in Writes
  PROVE  Typed(Activate(s, full, k))
<1> DEFINE out == Activated(s.fi, full)
           copied == CopiedUser(s.fi, full, k)
           n == ActiveCount(s.fi)
           a == [s.fi EXCEPT !.user = copied]
           b == [s.fi EXCEPT !.user = copied, !.count = n, !.mode = MANUAL, !.full = full]
<1>1. s.fi \in FanInfo /\ s.fw \in Firmware
  BY DEF Typed
<1>2. n \in {0, N}
  BY <1>1 DEF ActiveCount, FanInfo
<1>3. out \in Table
  <2>1. ASSUME NEW p \in Slots
        PROVE  [temp  |-> ActiveTable(s.fi)[p].temp,
                speed |-> IF full THEN 100 ELSE AtLeastMin(ActiveTable(s.fi)[p].speed, s.fi)] \in Point
    <3>1. ActiveTable(s.fi)[p] \in Point
      BY <1>1 DEF ActiveTable, FanInfo, Table
    <3>2. ActiveTable(s.fi)[p].speed \in U8
      BY <3>1 DEF Point
    <3>3. AtLeastMin(ActiveTable(s.fi)[p].speed, s.fi) \in U8
      BY <1>1, <3>2, PointTyped
    <3>4. 100 \in U8
      BY DEF U8
    <3>5. QED
      BY <3>1, <3>3, <3>4 DEF Point
  <2>2. QED
    BY <2>1 DEF Activated, Table
<1>4. copied \in Table
  BY <1>1, <1>3 DEF CopiedUser, Table, FanInfo
<1>5. \/ Activate(s, full, k) = Failed(s.fi, s.fw)
      \/ Activate(s, full, k) = Failed(a, s.fw)
      \/ Activate(s, full, k) = Succeeded(b, Run(out))
  BY DEF Activate
<1> HIDE DEF out, copied, n
<1>6. a \in FanInfo /\ b \in FanInfo
  BY <1>1, <1>2, <1>4 DEF FanInfo, Modes
<1>7. Run(out) \in Firmware
  BY <1>3 DEF Run, Firmware
<1> HIDE DEF a, b
<1>8. QED
  BY <1>1, <1>5, <1>6, <1>7 DEF Typed, Failed, Succeeded

LEMMA UserCountTyped ==
  ASSUME NEW s, Typed(s), NEW k \in Writes
  PROVE  Typed(UserCount(s, k))
<1>1. Typed(Activate(s, FALSE, k)) /\ Typed(Succeeded(s.fi, s.fw))
  BY ActivateTyped DEF Typed, Succeeded
<1>2. QED
  BY <1>1 DEF UserCount

LEMMA CommitTyped ==
  ASSUME NEW s, Typed(s), NEW k
  PROVE  Typed(Commit(s, k))
<1>1. s.fi \in FanInfo /\ s.fw \in Firmware /\ s.fi.user \in Table
  BY DEF Typed, FanInfo
<1>2. [s.fi EXCEPT !.mode = MANUAL, !.full = FALSE] \in FanInfo
  BY <1>1 DEF FanInfo, Modes
<1>3. Run(s.fi.user) \in Firmware
  BY <1>1 DEF Run, Firmware
<1>4. QED
  BY <1>1, <1>2, <1>3 DEF Commit, Typed, Failed, Succeeded

LEMMA PointStoredTyped ==
  ASSUME NEW i \in FanInfo, NEW p \in Slots, NEW temp \in U8, NEW pwm \in U8
  PROVE  PointStored(i, p, temp, pwm) \in FanInfo
<1>1. [i.user EXCEPT ![p].temp = temp] \in Table /\ [i.user EXCEPT ![p].speed = pwm] \in Table
  BY DEF FanInfo, Table, Point
<1>2. WithTemp(i, p, temp) \in FanInfo
  <2> DEFINE x == [i.user EXCEPT ![p].temp = temp]
             b == i.tempValid \/ p = N
  <2>1. WithTemp(i, p, temp) = [[i EXCEPT !.user = x] EXCEPT !.tempValid = b]
    BY DEF WithTemp, FanInfo
  <2>2. b \in BOOLEAN /\ x \in Table
    BY <1>1
  <2> HIDE DEF x, b
  <2>3. QED
    BY <2>1, <2>2 DEF FanInfo
<1>3. WithSpeed(i, p, pwm) \in FanInfo
  <2> DEFINE x == [i.user EXCEPT ![p].speed = pwm]
             b == i.speedValid \/ p = N
  <2>1. WithSpeed(i, p, pwm) = [[i EXCEPT !.user = x] EXCEPT !.speedValid = b]
    BY DEF WithSpeed, FanInfo
  <2>2. b \in BOOLEAN /\ x \in Table
    BY <1>1
  <2> HIDE DEF x, b
  <2>3. QED
    BY <2>1, <2>2 DEF FanInfo
<1>4. QED
  BY <1>2, <1>3 DEF PointStored

LEMMA StorePointTyped ==
  ASSUME NEW s, Typed(s), NEW p \in Slots, NEW temp \in U8, NEW pwm \in U8, NEW k \in Writes
  PROVE  Typed(StorePoint(s, p, temp, pwm, k))
<1> DEFINE c == UserCount(s, k)
           t == [fi |-> c.fi, fw |-> c.fw]
           stored == PointStored(t.fi, p, temp, pwm)
           m == Commit([fi |-> stored, fw |-> t.fw], k)
           d == [m.fi EXCEPT !.tempValid = FALSE, !.speedValid = FALSE]
<1>1. Typed(c)
  BY UserCountTyped
<1> HIDE DEF c
<1>2. t.fi \in FanInfo /\ t.fw \in Firmware
  BY <1>1 DEF Typed
<1>3. stored \in FanInfo
  BY <1>2, PointStoredTyped
<1>4. UpdatePoint(t, p, temp, pwm, k) \in
        {Succeeded(stored, t.fw), m, Succeeded(d, m.fw)}
  BY DEF UpdatePoint
<1> HIDE DEF t, stored
<1>5. Typed(m)
  BY <1>2, <1>3, CommitTyped DEF Typed
<1> HIDE DEF m
<1>6. d \in FanInfo /\ m.fw \in Firmware
  BY <1>5 DEF Typed, FanInfo
<1> HIDE DEF d
<1>7. Typed(UpdatePoint(t, p, temp, pwm, k))
  BY <1>2, <1>3, <1>4, <1>5, <1>6 DEF Typed, Succeeded
<1>8. \/ StorePoint(s, p, temp, pwm, k) = Failed(c.fi, c.fw)
      \/ StorePoint(s, p, temp, pwm, k) = UpdatePoint(t, p, temp, pwm, k)
  BY DEF StorePoint, c, t
<1>9. QED
  BY <1>1, <1>7, <1>8 DEF Typed, Failed

LEMMA StoresTyped ==
  ASSUME NEW s, Typed(s), NEW p \in Slots, NEW v \in U8, NEW k \in Writes
  PROVE  Typed(StoreTemp(s, p, v, k)) /\ Typed(StoreSpeed(s, p, v, k))
<1>1. 0 \in U8 /\ AtLeastMin(v, s.fi) \in U8
  <2>1. 0 \in U8
    BY DEF U8
  <2>2. QED
    BY <2>1, PointTyped DEF Typed
<1>2. QED
  BY <1>1, StorePointTyped DEF StoreTemp, StoreSpeed

LEMMA EnableStockTyped ==
  ASSUME NEW s, Typed(s), NEW k
  PROVE  Typed(EnableStock(s, k))
<1>1. s.fi \in FanInfo /\ s.fw \in Firmware
  BY DEF Typed
<1>2. [s.fi EXCEPT !.mode = AUTO, !.full = FALSE] \in FanInfo
  BY <1>1 DEF FanInfo, Modes
<1>3. RunStock \in Firmware
  BY DriverFacts DEF RunStock, Firmware
<1>4. QED
  BY <1>1, <1>2, <1>3 DEF EnableStock, Typed, Failed, Succeeded

LEMMA WriteEnableTyped ==
  ASSUME NEW v, fi \in FanInfo, fw \in Firmware, NEW k \in Writes
  PROVE  Typed(WriteEnable(v, k))
<1> DEFINE a == Activate(Current, TRUE, k)
           j == [a.fi EXCEPT !.mode = FULL]
<1>1. Typed(Current)
  BY DEF Current, Typed
<1>2. Typed(a) /\ Typed(Activate(Current, FALSE, k)) /\ Typed(EnableStock(Current, k))
  BY <1>1, ActivateTyped, EnableStockTyped
<1>3. ASSUME a.ok PROVE a = [fi |-> a.fi, fw |-> a.fw, ok |-> TRUE]
  BY <1>3 DEF Activate, Failed, Succeeded
<1>4. Full(Current, k) = a \/ (a.ok /\ Full(Current, k) = [a EXCEPT !.fi.mode = FULL])
  BY DEF Full
<1> HIDE DEF a
<1>5. j \in FanInfo
  BY <1>2 DEF Typed, FanInfo, Modes
<1>6. Typed(Full(Current, k))
  <2>1. CASE Full(Current, k) = a
    BY <1>2, <2>1
  <2>2. CASE a.ok /\ Full(Current, k) = [a EXCEPT !.fi.mode = FULL]
    <3>1. Full(Current, k) = [fi |-> j, fw |-> a.fw, ok |-> TRUE]
      BY <1>3, <2>2
    <3> HIDE DEF j
    <3>2. QED
      BY <1>2, <1>5, <3>1 DEF Typed
  <2>3. QED
    BY <1>4, <2>1, <2>2
<1>7. QED
  BY <1>2, <1>6 DEF WriteEnable

LEMMA ProbeTyped ==
  ASSUME NEW k \in Writes
  PROVE  Typed(Probe(RunStock, {}, TRUE, TRUE, k))
<1> DEFINE i == Probed({}, TRUE, TRUE)
           s == [fi |-> i, fw |-> RunStock]
<1>1. i = [mode |-> AUTO, full |-> FALSE, count |-> 0, user |-> Blank, tempValid |-> FALSE,
           speedValid |-> FALSE, min |-> MinPwm, stock |-> Stock, stockCount |-> N]
  <2>1. Stock = [p \in Slots |-> Stock[p]]
    BY DriverFacts DEF Table
  <2>2. QED
    BY <2>1 DEF Probed
<1>2. Blank \in Table
  BY DEF Blank, Table, Point, U8
<1>3. i \in FanInfo /\ RunStock \in Firmware
  <2> HIDE DEF i
  <2>1. QED
    BY <1>1, <1>2, DriverFacts DEF FanInfo, Modes, RunStock, Firmware
<1> HIDE DEF i
<1>4. Typed(s)
  BY <1>3 DEF Typed
<1>5. Probe(RunStock, {}, TRUE, TRUE, k) = Activate(s, FALSE, k)
  BY DEF Probe, i
<1> HIDE DEF s
<1>6. QED
  BY <1>4, <1>5, ActivateTyped
-----------------------------------------------------------------------------
(* What a script keeps *)
Shape(r) ==
  r \in [pc : {r.pc}, curve : {r.curve}, slot : {r.slot}, applied : {r.applied},
         clean : {r.clean}, reading : {r.reading}, saved : {r.saved}, enable : {r.enable},
         stock : {r.stock}, before : {r.before}]

ScriptOK(r) ==
  /\ Shape(r)
  /\ r.slot \in Slots /\ r.applied \in 0..r.slot
  /\ r.pc \in {"enable", "flipAuto", "flipManual", "readStock"} => r.reading
  /\ r.pc \in {"mode", "temp", "pwm", "report"} => r.reading \/ r.curve \in Curves

TInv ==
  /\ fi \in FanInfo /\ fw \in Firmware
  /\ asked \in Curves \cup {None}
  /\ run = [w \in Scripts |-> run[w]]
  /\ \A w \in Scripts : ScriptOK(run[w])

(* Two records that differ in the program counter, and in `clean`           *)
SameBut(q, r) ==
  /\ q.curve = r.curve /\ q.slot = r.slot /\ q.applied = r.applied /\ q.reading = r.reading
  /\ q.saved = r.saved /\ q.enable = r.enable /\ q.stock = r.stock /\ q.before = r.before

LEMMA IdleOK == ScriptOK(Idle) /\ Idle.pc = "idle"
<1>1. 1 \in Slots /\ 0 \in 0..1
  BY DriverFacts
<1>2. Idle.pc = "idle" /\ Idle.slot = 1 /\ Idle.applied = 0 /\ Shape(Idle)
  BY DEF Idle, Shape
<1>3. QED
  BY <1>1, <1>2 DEF ScriptOK

LEMMA MovedOn ==
  ASSUME NEW r, Shape(r), NEW pc, NEW clean
  PROVE  /\ LET q == [r EXCEPT !.pc = pc] IN Shape(q) /\ q.pc = pc /\ SameBut(q, r)
         /\ LET q == [r EXCEPT !.pc = pc, !.clean = clean]
            IN Shape(q) /\ q.pc = pc /\ SameBut(q, r)
<1> DEFINE q == [r EXCEPT !.pc = pc]
           q2 == [r EXCEPT !.pc = pc, !.clean = clean]
<1>1. Shape(q) /\ Shape(q2)
  BY DEF Shape
<1>2. q.pc = pc /\ SameBut(q, r) /\ q2.pc = pc /\ SameBut(q2, r)
  BY DEF Shape, SameBut
<1>3. QED
  BY <1>1, <1>2

LEMMA SetBegun ==
  ASSUME NEW r, Shape(r), NEW c
  PROVE  LET q == BeginSet(r, c)
         IN /\ Shape(q) /\ q.pc = "mode" /\ q.curve = c /\ q.slot = 1 /\ q.applied = 0
            /\ q.reading = r.reading /\ q.saved = r.saved /\ q.enable = r.enable
            /\ q.stock = r.stock /\ q.before = r.before
BY DEF Shape, BeginSet

LEMMA SlotDone ==
  ASSUME NEW r, Shape(r)
  PROVE  /\ LET q == NextSlot(r)
            IN /\ Shape(q) /\ q.curve = r.curve /\ q.applied = r.slot
               /\ q.slot = (IF r.slot < N THEN r.slot + 1 ELSE r.slot)
               /\ q.pc = (IF r.slot < N THEN "temp" ELSE "report")
               /\ q.reading = r.reading /\ q.saved = r.saved /\ q.enable = r.enable
               /\ q.stock = r.stock /\ q.before = r.before
         /\ LET q == StopAtSlot(r) IN Shape(q) /\ q.pc = "report" /\ SameBut(q, r)
<1> DEFINE q == NextSlot(r)
<1>1. Shape(q)
  BY DEF Shape, NextSlot
<1>2. /\ q.curve = r.curve /\ q.applied = r.slot
      /\ q.slot = (IF r.slot < N THEN r.slot + 1 ELSE r.slot)
      /\ q.pc = (IF r.slot < N THEN "temp" ELSE "report")
      /\ q.reading = r.reading /\ q.saved = r.saved /\ q.enable = r.enable
      /\ q.stock = r.stock /\ q.before = r.before
  BY DEF Shape, NextSlot
<1> DEFINE x == [r EXCEPT !.pc = "report", !.clean = FALSE]
<1>3. Shape(x) /\ x.pc = "report" /\ SameBut(x, r)
  BY MovedOn
<1>4. StopAtSlot(r) = x
  BY DEF StopAtSlot
<1> HIDE DEF q, x
<1>5. QED
  BY <1>1, <1>2, <1>3, <1>4 DEF q

(* The turn of one script: the others stay where they are                   *)
LEMMA Turn ==
  ASSUME NEW w \in Scripts, run = [v \in Scripts |-> run[v]], NEW r, run' = [run EXCEPT ![w] = r]
  PROVE  /\ run' = [v \in Scripts |-> run'[v]] /\ run'[w] = r
         /\ \A v \in Scripts : v # w => run'[v] = run[v]
OBVIOUS

LEMMA AcceptedWrites == Accepted \subseteq Writes
BY DriverFacts DEF Accepted, Writes, AllWrites

LEMMA ScriptMoves ==
  ASSUME NEW r, ScriptOK(r), NEW q, Shape(q), SameBut(q, r),
         q.pc \in {"enable", "flipAuto", "flipManual", "readStock"} => r.reading,
         q.pc \in {"mode", "temp", "pwm", "report"} => r.reading \/ r.curve \in Curves
  PROVE  ScriptOK(q)
BY DEF ScriptOK, SameBut

LEMMA TInvTurn ==
  ASSUME TInv, NEW w \in Scripts, NEW r, ScriptOK(r), run' = [run EXCEPT ![w] = r],
         fi' \in FanInfo, fw' \in Firmware, asked' \in Curves \cup {None}
  PROVE  TInv'
<1>1. /\ run' = [v \in Scripts |-> run'[v]] /\ run'[w] = r
      /\ \A v \in Scripts : v # w => run'[v] = run[v]
  BY Turn DEF TInv
<1>2. \A v \in Scripts : ScriptOK(run'[v])
  BY <1>1 DEF TInv
<1>3. QED
  BY <1>1, <1>2 DEF TInv

LEMMA TInvInit == Init => TInv
<1> SUFFICES ASSUME Init PROVE TInv
  OBVIOUS
<1>1. PICK k \in Accepted : LET r == Probe(RunStock, {}, TRUE, TRUE, k) IN fi = r.fi /\ fw = r.fw
  BY DEF Init
<1>2. Typed(Probe(RunStock, {}, TRUE, TRUE, k))
  BY AcceptedWrites, ProbeTyped
<1>3. fi \in FanInfo /\ fw \in Firmware
  BY <1>1, <1>2 DEF Typed
<1>4. run = [w \in Scripts |-> Idle] /\ asked = None
  BY DEF Init
<1>5. QED
  BY <1>3, <1>4, IdleOK DEF TInv

LEMMA BecomesTyped ==
  ASSUME NEW r, Typed(r), Becomes(r)
  PROVE  fi' \in FanInfo /\ fw' \in Firmware
BY DEF Typed, Becomes

LEMMA CurrentTyped == TInv => Typed(Current)
BY DEF TInv, Typed, Current

(* Steps that leave the driver alone, and steps of its helpers              *)
LEMMA QuietStep ==
  ASSUME TInv, NEW w \in Scripts, NEW r, ScriptOK(r), run' = [run EXCEPT ![w] = r],
         UNCHANGED <<fi, fw>>, asked' \in Curves \cup {None}
  PROVE  TInv'
BY TInvTurn DEF TInv

LEMMA DriverStep ==
  ASSUME TInv, NEW w \in Scripts, NEW o, Typed(o), Becomes(o),
         NEW r, ScriptOK(r), run' = [run EXCEPT ![w] = r], asked' \in Curves \cup {None}
  PROVE  TInv'
BY BecomesTyped, TInvTurn

(* Going on, or giving up *)
LEMMA GoesOn ==
  ASSUME TInv, NEW w \in Scripts, NEW pc,
         pc \in {"enable", "flipAuto", "flipManual", "readStock"} => run[w].reading,
         pc \in {"mode", "temp", "pwm", "report"} => run[w].reading \/ run[w].curve \in Curves
  PROVE  /\ ScriptOK([run[w] EXCEPT !.pc = pc])
         /\ Goes(w, pc) => run' = [run EXCEPT ![w] = [run[w] EXCEPT !.pc = pc]]
         /\ Ends(w) => run' = [run EXCEPT ![w] = Idle]
<1> DEFINE q == [run[w] EXCEPT !.pc = pc]
<1>1. ScriptOK(run[w]) /\ Shape(run[w])
  BY DEF TInv, ScriptOK
<1>2. Shape(q) /\ q.pc = pc /\ SameBut(q, run[w])
  BY <1>1, MovedOn
<1>3. Goes(w, pc) => run' = [run EXCEPT ![w] = q]
  BY DEF Goes
<1>4. Ends(w) => run' = [run EXCEPT ![w] = Idle]
  BY DEF Ends
<1> HIDE DEF q
<1>5. ScriptOK(q)
  BY <1>1, <1>2, ScriptMoves
<1>6. QED
  BY <1>3, <1>4, <1>5 DEF q

LEMMA OnOrOver ==
  ASSUME TInv, NEW w \in Scripts, NEW pc, NEW o, Typed(o), Becomes(o),
         IF o.ok THEN Goes(w, pc) ELSE Ends(w), UNCHANGED asked,
         pc \in {"enable", "flipAuto", "flipManual", "readStock"} => run[w].reading,
         pc \in {"mode", "temp", "pwm", "report"} => run[w].reading \/ run[w].curve \in Curves
  PROVE  TInv'
<1>1. asked' \in Curves \cup {None}
  BY DEF TInv
<1>2. CASE Goes(w, pc)
  <2> DEFINE q == [run[w] EXCEPT !.pc = pc]
  <2>1. ScriptOK(q) /\ run' = [run EXCEPT ![w] = q]
    BY <1>2, GoesOn
  <2> HIDE DEF q
  <2>2. QED
    BY <1>1, <2>1, DriverStep
<1>3. CASE Ends(w)
  <2>1. run' = [run EXCEPT ![w] = Idle]
    BY <1>3 DEF Ends
  <2>2. QED
    BY <1>1, <2>1, IdleOK, DriverStep
<1>4. QED
  BY <1>2, <1>3

LEMMA GoesQuietly ==
  ASSUME TInv, NEW w \in Scripts, NEW pc, Goes(w, pc) \/ Ends(w), UNCHANGED <<fi, fw, asked>>,
         pc \in {"enable", "flipAuto", "flipManual", "readStock"} => run[w].reading,
         pc \in {"mode", "temp", "pwm", "report"} => run[w].reading \/ run[w].curve \in Curves
  PROVE  TInv'
<1>1. asked' \in Curves \cup {None} /\ UNCHANGED <<fi, fw>>
  BY DEF TInv
<1>2. CASE Goes(w, pc)
  <2> DEFINE q == [run[w] EXCEPT !.pc = pc]
  <2>1. ScriptOK(q) /\ run' = [run EXCEPT ![w] = q]
    BY <1>2, GoesOn
  <2> HIDE DEF q
  <2>2. QED
    BY <1>1, <2>1, QuietStep
<1>3. CASE Ends(w)
  <2>1. run' = [run EXCEPT ![w] = Idle]
    BY <1>3 DEF Ends
  <2>2. QED
    BY <1>1, <2>1, IdleOK, QuietStep
<1>4. QED
  BY <1>2, <1>3

(* The steps of `set` *)
LEMMA SetSteps ==
  ASSUME TInv, NEW w \in Scripts
  PROVE  /\ StartSet(w) => TInv'
         /\ SetMode(w) => TInv'
         /\ SetTemp(w) => TInv'
         /\ SetPwm(w) => TInv'
         /\ Report(w) => TInv'
<1> DEFINE r == run[w]
<1>1. ScriptOK(r) /\ Shape(r) /\ asked \in Curves \cup {None} /\ r.slot \in Slots
  BY DEF TInv, ScriptOK
<1>2. 1 \in Slots /\ 0 \in 0..1 /\ Typed(Current)
  BY DriverFacts, CurrentTyped
<1>3. \A k \in Accepted : k \in Writes
  BY AcceptedWrites
<1>4. ASSUME StartSet(w) PROVE TInv'
  <2>1. PICK c \in Curves : run' = [run EXCEPT ![w] = BeginSet(r, c)]
    BY <1>4 DEF StartSet
  <2> DEFINE q == BeginSet(r, c)
  <2>2. Shape(q) /\ q.pc = "mode" /\ q.curve = c /\ q.slot = 1 /\ q.applied = 0
    BY <1>1, SetBegun
  <2>3. UNCHANGED <<fi, fw>> /\ asked' \in Curves \cup {None} /\ run' = [run EXCEPT ![w] = q]
    BY <1>1, <1>4, <2>1 DEF StartSet
  <2> HIDE DEF q
  <2>4. ScriptOK(q)
    BY <1>2, <2>2 DEF ScriptOK
  <2>5. QED
    BY <2>3, <2>4, QuietStep
<1>5. ASSUME SetMode(w) PROVE TInv'
  <2>1. r.pc = "mode" /\ UNCHANGED asked /\ (r.reading \/ r.curve \in Curves)
    BY <1>1, <1>5 DEF SetMode, At, ScriptOK
  <2>2. CASE Enable(fi) = MANUAL
    <3>1. Goes(w, "temp") /\ UNCHANGED <<fi, fw, asked>>
      BY <1>5, <2>2 DEF SetMode, NotDriver
    <3>2. QED
      BY <2>1, <3>1, GoesQuietly
  <2>3. CASE Enable(fi) # MANUAL
    <3>1. PICK k \in Accepted : LET o == Activate(Current, FALSE, k)
                                IN Becomes(o) /\ IF o.ok THEN Goes(w, "temp") ELSE Ends(w)
      BY <1>5, <2>3 DEF SetMode
    <3>2. Typed(Activate(Current, FALSE, k))
      BY <1>2, <1>3, ActivateTyped
    <3>3. QED
      BY <2>1, <3>1, <3>2, OnOrOver
  <2>4. QED
    BY <2>2, <2>3
<1>6. ASSUME SetTemp(w) PROVE TInv'
  <2>1. r.pc = "temp" /\ asked' \in Curves \cup {None} /\ (r.reading \/ r.curve \in Curves)
    BY <1>1, <1>6 DEF SetTemp, At, ScriptOK
  <2>2. ASSUME NEW b PROVE ScriptOK([r EXCEPT !.pc = "pwm", !.clean = b])
    <3> DEFINE q == [r EXCEPT !.pc = "pwm", !.clean = b]
    <3>1. Shape(q) /\ q.pc = "pwm" /\ SameBut(q, r)
      BY <1>1, MovedOn, ZenonT(40)
    <3> HIDE DEF q
    <3>2. QED
      BY <1>1, <2>1, <3>1, ScriptMoves DEF q
  <2>3. CASE Rejected(Slot(w)[1])
    <3> DEFINE q == [r EXCEPT !.pc = "pwm", !.clean = FALSE]
    <3>1. run' = [run EXCEPT ![w] = q] /\ UNCHANGED <<fi, fw>>
      BY <1>6, <2>3 DEF SetTemp, NotDriver
    <3>2. ScriptOK(q)
      BY <2>2
    <3> HIDE DEF q
    <3>3. QED
      BY <2>1, <3>1, <3>2, QuietStep
  <2>4. CASE ~Rejected(Slot(w)[1])
    <3>1. PICK k \in Accepted :
            LET o == StoreTemp(Current, r.slot, Slot(w)[1], k)
            IN Becomes(o) /\ run' = [run EXCEPT ![w].pc = "pwm", ![w].clean = @ /\ o.ok]
      BY <1>6, <2>4 DEF SetTemp
    <3> DEFINE o == StoreTemp(Current, r.slot, Slot(w)[1], k)
               b == r.clean /\ o.ok
               q == [r EXCEPT !.pc = "pwm", !.clean = b]
    <3>2. Slot(w)[1] \in U8
      BY <2>4 DEF Rejected
    <3>3. Typed(o)
      BY <1>1, <1>2, <1>3, <3>2, StoresTyped
    <3>4. run' = [run EXCEPT ![w] = q] /\ Becomes(o)
      BY <3>1
    <3> HIDE DEF o
    <3>5. ScriptOK(q)
      BY <2>2
    <3> HIDE DEF q
    <3>6. QED
      BY <2>1, <3>3, <3>4, <3>5, DriverStep
  <2>5. QED
    BY <2>3, <2>4
<1>7. ASSUME SetPwm(w) PROVE TInv'
  <2>1. r.pc = "pwm" /\ (r.reading \/ r.curve \in Curves)
    BY <1>1, <1>7 DEF SetPwm, At, ScriptOK
  <2>2. asked' \in Curves \cup {None}
    BY <1>1, <1>7, <2>1 DEF SetPwm
  <2>3. ScriptOK(StopAtSlot(r))
    <3> DEFINE q == StopAtSlot(r)
    <3>1. Shape(q) /\ q.pc = "report" /\ SameBut(q, r)
      BY <1>1, SlotDone
    <3> HIDE DEF q
    <3>2. QED
      BY <1>1, <2>1, <3>1, ScriptMoves DEF q
  <2>4. ScriptOK(NextSlot(r))
    <3> DEFINE q == NextSlot(r)
    <3>1. /\ Shape(q) /\ q.curve = r.curve /\ q.applied = r.slot
          /\ q.slot = (IF r.slot < N THEN r.slot + 1 ELSE r.slot)
          /\ q.pc = (IF r.slot < N THEN "temp" ELSE "report")
          /\ q.reading = r.reading
      BY <1>1, SlotDone
    <3> HIDE DEF q
    <3>2. q.slot \in Slots /\ q.applied \in 0..q.slot
      BY <1>1, <3>1, DriverFacts
    <3>3. QED
      BY <2>1, <3>1, <3>2 DEF ScriptOK, q
  <2>5. CASE Rejected(Percent(Slot(w)[2]))
    <3>1. run' = [run EXCEPT ![w] = StopAtSlot(r)] /\ UNCHANGED <<fi, fw>>
      BY <1>7, <2>5 DEF SetPwm, NotDriver
    <3>2. QED
      BY <2>2, <2>3, <3>1, QuietStep
  <2>6. CASE ~Rejected(Percent(Slot(w)[2]))
    <3>1. PICK k \in Accepted :
            LET o == StoreSpeed(Current, r.slot, Percent(Slot(w)[2]), k)
            IN Becomes(o) /\ run' = [run EXCEPT ![w] = IF o.ok THEN NextSlot(@) ELSE StopAtSlot(@)]
      BY <1>7, <2>6 DEF SetPwm
    <3> DEFINE o == StoreSpeed(Current, r.slot, Percent(Slot(w)[2]), k)
    <3>2. Percent(Slot(w)[2]) \in U8
      BY <2>6 DEF Rejected
    <3>3. Typed(o)
      BY <1>1, <1>2, <1>3, <3>2, StoresTyped
    <3>4. Becomes(o) /\ run' = [run EXCEPT ![w] = IF o.ok THEN NextSlot(r) ELSE StopAtSlot(r)]
      BY <3>1
    <3> HIDE DEF o
    <3>5. QED
      BY <2>2, <2>3, <2>4, <3>3, <3>4, DriverStep
  <2>7. QED
    BY <2>5, <2>6
<1>8. ASSUME Report(w) PROVE TInv'
  <2>1. (Goes(w, "restoreMode") \/ Ends(w)) /\ UNCHANGED <<fi, fw, asked>>
    BY <1>8 DEF Report
  <2>2. QED
    BY <2>1, GoesQuietly
<1>9. QED
  BY <1>4, <1>5, <1>6, <1>7, <1>8

(* The steps of `stock-read` *)
LEMMA ReadSteps ==
  ASSUME TInv, NEW w \in Scripts
  PROVE  /\ StartStockRead(w) => TInv'
         /\ SaveMode(w) => TInv'
         /\ FlipAuto(w) => TInv'
         /\ FlipManual(w) => TInv'
         /\ ReadStock(w) => TInv'
         /\ RestoreMode(w) => TInv'
         /\ PrintStock(w) => TInv'
<1> DEFINE r == run[w]
<1>1. ScriptOK(r) /\ Shape(r) /\ asked \in Curves \cup {None} /\ fi \in FanInfo /\ fw \in Firmware
  BY DEF TInv, ScriptOK
<1>2. 1 \in Slots /\ 0 \in 0..1 /\ Typed(Current)
  BY DriverFacts, CurrentTyped
<1>3. \A k \in Accepted : k \in Writes
  BY AcceptedWrites
<1>4. ASSUME StartStockRead(w) PROVE TInv'
  <2>1. PICK k \in Accepted :
          LET o == UserCount(Current, k)
          IN /\ Becomes(o)
             /\ run' = [run EXCEPT ![w] =
                  [Idle EXCEPT !.pc = "enable", !.reading = TRUE, !.before = Current,
                               !.saved = IF o.ok THEN Shown(o.fi.user) ELSE <<>>]]
    BY <1>4 DEF StartStockRead
  <2> DEFINE o == UserCount(Current, k)
             t == IF o.ok THEN Shown(o.fi.user) ELSE <<>>
             q == [Idle EXCEPT !.pc = "enable", !.reading = TRUE, !.before = Current, !.saved = t]
  <2>2. Typed(o)
    BY <1>2, <1>3, UserCountTyped
  <2>3. Becomes(o) /\ run' = [run EXCEPT ![w] = q] /\ asked' \in Curves \cup {None}
    BY <1>1, <1>4, <2>1 DEF StartStockRead
  <2> HIDE DEF t, o
  <2>4. ScriptOK(q)
    <3>1. Shape(Idle)
      BY IdleOK DEF ScriptOK
    <3>2. Shape(q)
      BY <3>1 DEF Shape
    <3>3. q.pc = "enable" /\ q.reading /\ q.slot = 1 /\ q.applied = 0
      BY DEF Idle
    <3> HIDE DEF q
    <3>4. QED
      BY <1>2, <3>2, <3>3 DEF ScriptOK
  <2> HIDE DEF q
  <2>5. QED
    BY <2>2, <2>3, <2>4, DriverStep
<1>5. ASSUME SaveMode(w) PROVE TInv'
  <2> DEFINE q == [r EXCEPT !.pc = "flipAuto", !.enable = Enable(fi)]
  <2>1. run' = [run EXCEPT ![w] = q] /\ UNCHANGED <<fi, fw>> /\ asked' \in Curves \cup {None}
    BY <1>1, <1>5 DEF SaveMode
  <2>2. r.reading
    BY <1>1, <1>5 DEF SaveMode, At, ScriptOK
  <2>3. Shape(q)
    BY <1>1 DEF Shape
  <2>4. q.pc = "flipAuto" /\ q.reading = r.reading /\ q.slot = r.slot /\ q.applied = r.applied
    BY <1>1 DEF Shape
  <2> HIDE DEF q
  <2>5. ScriptOK(q)
    BY <1>1, <2>2, <2>3, <2>4 DEF ScriptOK
  <2>6. QED
    BY <2>1, <2>5, QuietStep
<1>6. ASSUME FlipAuto(w) PROVE TInv'
  <2>1. r.reading /\ UNCHANGED asked
    BY <1>1, <1>6 DEF FlipAuto, At, ScriptOK
  <2>2. PICK k \in Accepted : LET o == EnableStock(Current, k)
                              IN Becomes(o) /\ IF o.ok THEN Goes(w, "flipManual") ELSE Ends(w)
    BY <1>6 DEF FlipAuto
  <2>3. Typed(EnableStock(Current, k))
    BY <1>2, EnableStockTyped
  <2>4. QED
    BY <2>1, <2>2, <2>3, OnOrOver
<1>7. ASSUME FlipManual(w) PROVE TInv'
  <2>1. r.reading /\ UNCHANGED asked
    BY <1>1, <1>7 DEF FlipManual, At, ScriptOK
  <2>2. PICK k \in Accepted : LET o == Activate(Current, FALSE, k)
                              IN Becomes(o) /\ IF o.ok THEN Goes(w, "readStock") ELSE Ends(w)
    BY <1>7 DEF FlipManual
  <2>3. Typed(Activate(Current, FALSE, k))
    BY <1>2, <1>3, ActivateTyped
  <2>4. QED
    BY <2>1, <2>2, <2>3, OnOrOver
<1>8. ASSUME ReadStock(w) PROVE TInv'
  <2> DEFINE read == [r EXCEPT !.stock = Shown(fi.user)]
             over == [read EXCEPT !.pc = "restoreMode"]
             back == BeginSet(read, read.saved)
  <2>1. /\ run' = [run EXCEPT ![w] = IF read.saved = <<>> THEN over ELSE back]
        /\ UNCHANGED <<fi, fw>> /\ asked' \in Curves \cup {None}
    BY <1>1, <1>8 DEF ReadStock
  <2>2. r.reading
    BY <1>1, <1>8 DEF ReadStock, At, ScriptOK
  <2>3. Shape(read) /\ read.reading = r.reading /\ read.slot = r.slot /\ read.applied = r.applied
    BY <1>1 DEF Shape
  <2> HIDE DEF read
  <2>4. Shape(over) /\ over.pc = "restoreMode" /\ SameBut(over, read)
    BY <2>3, MovedOn
  <2>5. Shape(back) /\ back.pc = "mode" /\ back.slot = 1 /\ back.applied = 0
        /\ back.reading = read.reading
    BY <2>3, SetBegun
  <2> HIDE DEF over, back
  <2>6. ScriptOK(over)
    BY <1>1, <2>3, <2>4 DEF ScriptOK, SameBut
  <2>7. ScriptOK(back)
    BY <1>2, <2>2, <2>3, <2>5 DEF ScriptOK
  <2>8. QED
    BY <2>1, <2>6, <2>7, QuietStep
<1>9. ASSUME RestoreMode(w) PROVE TInv'
  <2>1. CASE r.enable = MANUAL
    <3>1. Goes(w, "print") /\ UNCHANGED <<fi, fw, asked>>
      BY <1>9, <2>1 DEF RestoreMode, NotDriver
    <3>2. QED
      BY <3>1, GoesQuietly
  <2>2. CASE r.enable # MANUAL
    <3>1. PICK k \in Accepted : LET o == WriteEnable(r.enable, k)
                                IN Becomes(o) /\ IF o.ok THEN Goes(w, "print") ELSE Ends(w)
      BY <1>9, <2>2 DEF RestoreMode
    <3>2. Typed(WriteEnable(r.enable, k)) /\ UNCHANGED asked
      BY <1>1, <1>3, <1>9, WriteEnableTyped DEF RestoreMode
    <3>3. QED
      BY <3>1, <3>2, OnOrOver
  <2>3. QED
    BY <2>1, <2>2
<1>10. ASSUME PrintStock(w) PROVE TInv'
  <2>1. Ends(w) /\ UNCHANGED <<fi, fw, asked>>
    BY <1>10 DEF PrintStock
  <2>2. QED
    BY <2>1, GoesQuietly
<1>11. QED
  BY <1>4, <1>5, <1>6, <1>7, <1>8, <1>9, <1>10

LEMMA TInvNext == TInv /\ [Next]_vars => TInv'
<1> SUFFICES ASSUME TInv, [Next]_vars PROVE TInv'
  OBVIOUS
<1>1. CASE UNCHANGED vars
  BY <1>1 DEF vars, TInv
<1>2. ASSUME NEW w \in Scripts, NEW v, HandOver(w, v) PROVE TInv'
  <2>1. PICK k \in Accepted : LET o == WriteEnable(v, k)
                              IN Becomes(o) /\ asked' = IF o.ok THEN None ELSE asked
    BY <1>2 DEF HandOver
  <2>2. k \in Writes /\ fi \in FanInfo /\ fw \in Firmware
    BY AcceptedWrites DEF TInv
  <2>3. Typed(WriteEnable(v, k))
    BY <2>2, WriteEnableTyped
  <2>4. fi' \in FanInfo /\ fw' \in Firmware
    BY <2>1, <2>3, BecomesTyped
  <2>5. run' = run
    BY <1>2 DEF HandOver
  <2>6. QED
    BY <2>1, <2>4, <2>5 DEF TInv
<1>3. CASE Next
  <2>1. PICK w \in Scripts :
          \/ StartSet(w) \/ SetMode(w) \/ SetTemp(w) \/ SetPwm(w) \/ Report(w)
          \/ StartStockRead(w) \/ SaveMode(w) \/ FlipAuto(w) \/ FlipManual(w)
          \/ ReadStock(w) \/ RestoreMode(w) \/ PrintStock(w)
          \/ ToAuto(w) \/ ToMax(w)
    BY <1>3 DEF Next
  <2>2. (ToAuto(w) => TInv') /\ (ToMax(w) => TInv')
    BY <1>2 DEF ToAuto, ToMax
  <2>3. QED
    BY <2>1, <2>2, SetSteps, ReadSteps
<1>4. QED
  BY <1>1, <1>3

LEMMA TypesInvariant == Spec => []TInv
<1>1. Init => TInv
  BY TInvInit
<1>2. TInv /\ [Next]_vars => TInv'
  BY TInvNext
<1>3. QED
  BY <1>1, <1>2, PTL DEF Spec

(* The fields of the driver and the progress of every script stay within    *)
(* their bounds, for any number of scripts at once, any lists, and writes   *)
(* that fail anywhere.                                                      *)
THEOREM CurveTypes == Spec => []TypeOK
<1>1. TInv => TypeOK
  BY DEF TInv, TypeOK, ScriptOK
<1>2. QED
  BY <1>1, TypesInvariant, PTL
-----------------------------------------------------------------------------
(* One script at a time, and every write succeeds: where the script is, and *)
(* what the fan does meanwhile.  i and f are the driver and the firmware, a *)
(* is the list that `set` last went through.                                *)
AskedRuns(f, a) == a # None => f = Run(Want(a))

(* Between the first slot and the last *)
Half(r, i, u) ==
  /\ Fan(i, MANUAL, u) /\ ~i.full
  /\ \A q \in Slots : q < r.slot => u[q] = Want(r.curve)[q]
  /\ r.pc = "pwm" => u[r.slot].temp = Want(r.curve)[r.slot].temp
  /\ i.tempValid <=> r.pc = "pwm" /\ r.slot = N

SetStage(r, i, f) ==
  /\ Fit(r.curve)
  /\ \/ r.pc = "mode" /\ r.slot = 1 /\ \E m \in Modes : \E u : Rests(i, f, m, u)
     \/ r.pc \in {"temp", "pwm"} /\ \E u : Half(r, i, u)
     \/ r.pc = "report" /\ Rests(i, f, MANUAL, Want(r.curve)) /\ r.applied = N

(* What a stock-read found, and where it is *)
Found(r, m, u, a) ==
  /\ Rests(r.before.fi, r.before.fw, m, u) /\ AskedRuns(r.before.fw, a)
  /\ r.saved = Shown(u)
  /\ r.pc = "enable" \/ r.enable = m

ReadStage(r, m, u, i, f) ==
  \/ r.pc \in {"enable", "flipAuto"} /\ i = r.before.fi /\ f = r.before.fw
  \/ r.pc = "flipManual" /\ Rests(i, f, AUTO, u)
  \/ r.pc = "readStock" /\ Rests(i, f, MANUAL, Raised)
  \/ SetStage(r, i, f) /\ r.curve = Shown(u) /\ r.stock = Shown(Raised)
  \/ r.pc = "restoreMode" /\ Rests(i, f, MANUAL, u) /\ r.stock = Shown(Raised)
  \/ r.pc = "print" /\ Rests(i, f, m, u) /\ r.stock = Shown(Raised)

Stage(r, i, f, a) ==
  \/ /\ r.pc = "idle" /\ ~r.reading /\ AskedRuns(f, a)
     /\ \E m \in Modes : \E u : Rests(i, f, m, u)
  \/ ~r.reading /\ SetStage(r, i, f) /\ (r.pc = "report" => a = r.curve)
  \/ r.reading /\ \E m \in Modes : \E u : Found(r, m, u, a) /\ ReadStage(r, m, u, i, f)

CInv == TInv /\ \A w \in Scripts : Stage(run[w], fi, fw, asked)

LEMMA Alone ==
  ASSUME Undisturbed, NEW w \in Scripts
  PROVE  Scripts = {w} /\ Accepted = {AllWrites}
BY DEF Undisturbed, Accepted

LEMMA NowFields == Current.fi = fi /\ Current.fw = fw
BY DEF Current

LEMMA Modewise ==
  /\ FULL # MANUAL /\ FULL # AUTO /\ MANUAL # AUTO
  /\ FULL \in Modes /\ MANUAL \in Modes /\ AUTO \in Modes
BY DEF FULL, MANUAL, AUTO, Modes

LEMMA RestsFacts ==
  ASSUME NEW i, NEW f, NEW m \in Modes, NEW u, Rests(i, f, m, u)
  PROVE  /\ Fan(i, m, u) /\ Nice(u) /\ ~i.tempValid /\ f = Runs(m, u)
         /\ Enable(i) = m /\ i.user = u /\ i.min = MinPwm
<1>1. Fan(i, m, u) /\ Nice(u) /\ ~i.tempValid /\ f = Runs(m, u) /\ (i.full <=> m = FULL)
  BY DEF Rests
<1>2. i.mode = m /\ i.user = u /\ i.min = MinPwm
  BY <1>1 DEF Fan
<1>3. Enable(i) = m
  BY <1>1, <1>2 DEF Enable
<1>4. QED
  BY <1>1, <1>2, <1>3

LEMMA RestsManual ==
  ASSUME NEW i, NEW f, NEW u, Fan(i, MANUAL, u), Nice(u), ~i.tempValid, ~i.full, f = Run(u)
  PROVE  Rests(i, f, MANUAL, u)
BY Modewise DEF Rests, Runs

(* The other program counters *)
LEMMA StageOf ==
  ASSUME NEW r, NEW i, NEW f, NEW a, Stage(r, i, f, a)
  PROVE  /\ r.pc = "idle" => ~r.reading /\ AskedRuns(f, a)
                             /\ \E m \in Modes : \E u : Rests(i, f, m, u)
         /\ r.pc \in {"mode", "temp", "pwm", "report"} => SetStage(r, i, f)
         /\ r.pc \in {"enable", "flipAuto", "flipManual", "readStock", "restoreMode", "print"}
              => r.reading
         /\ r.pc # "idle" /\ r.reading
              => \E m \in Modes : \E u : Found(r, m, u, a) /\ ReadStage(r, m, u, i, f)
         /\ r.pc = "report" /\ ~r.reading => a = r.curve
<1>1. ASSUME SetStage(r, i, f) PROVE r.pc \in {"mode", "temp", "pwm", "report"}
  BY <1>1 DEF SetStage
<1>2. ASSUME NEW m, NEW u, ReadStage(r, m, u, i, f)
      PROVE  /\ r.pc # "idle"
             /\ r.pc \in {"mode", "temp", "pwm", "report"} => SetStage(r, i, f)
  BY <1>1, <1>2 DEF ReadStage
<1>3. CASE r.pc = "idle" /\ ~r.reading /\ AskedRuns(f, a)
           /\ \E m \in Modes : \E u : Rests(i, f, m, u)
  BY <1>3
<1>4. CASE ~r.reading /\ SetStage(r, i, f) /\ (r.pc = "report" => a = r.curve)
  BY <1>1, <1>4
<1>5. CASE r.reading /\ \E m \in Modes : \E u : Found(r, m, u, a) /\ ReadStage(r, m, u, i, f)
  BY <1>2, <1>5
<1>6. QED
  BY <1>3, <1>4, <1>5 DEF Stage

(* The steps of `set` keep what stock-read found, and the list              *)
LEMMA SetKeeps ==
  ASSUME NEW r, NEW i, NEW f, NEW a, Stage(r, i, f, a), r.pc \in {"mode", "temp", "pwm"},
         NEW q, NEW j, NEW g, NEW b, SetStage(q, j, g), q.curve = r.curve,
         q.reading = r.reading, q.saved = r.saved, q.enable = r.enable, q.stock = r.stock,
         q.before = r.before,
         ~r.reading /\ q.pc = "report" => b = r.curve, r.reading => b = a
  PROVE  Stage(q, j, g, b)
<1>1. CASE ~r.reading
  BY <1>1 DEF Stage
<1>2. CASE r.reading
  <2>1. PICK m \in Modes : \E u : Found(r, m, u, a) /\ ReadStage(r, m, u, i, f)
    BY <1>2, StageOf
  <2>2. PICK u : Found(r, m, u, a) /\ ReadStage(r, m, u, i, f)
    BY <2>1
  <2>3. r.curve = Shown(u) /\ r.stock = Shown(Raised)
    BY <2>2 DEF ReadStage
  <2>4. Found(q, m, u, b)
    BY <1>2, <2>2 DEF Found
  <2>5. ReadStage(q, m, u, j, g)
    BY <2>3 DEF ReadStage
  <2>6. QED
    BY <1>2, <2>4, <2>5 DEF Stage
<1>3. QED
  BY <1>1, <1>2

LEMMA CInvTurn ==
  ASSUME Undisturbed, CInv, NEW w \in Scripts, NEW r, run' = [run EXCEPT ![w] = r], TInv',
         Stage(r, fi', fw', asked')
  PROVE  CInv'
<1>1. run'[w] = r /\ Scripts = {w}
  BY Turn, Alone DEF CInv, TInv
<1>2. \A v \in Scripts : Stage(run'[v], fi', fw', asked')
  BY <1>1
<1>3. QED
  BY <1>2 DEF CInv

LEMMA IdleStage ==
  ASSUME NEW i, NEW f, NEW a, NEW m \in Modes, NEW u, Rests(i, f, m, u), AskedRuns(f, a)
  PROVE  Stage(Idle, i, f, a)
<1>1. Idle.pc = "idle" /\ ~Idle.reading
  BY DEF Idle
<1>2. QED
  BY <1>1 DEF Stage

LEMMA HalfStage ==
  ASSUME NEW q, NEW i, NEW f, NEW u, q.pc \in {"temp", "pwm"}, Fit(q.curve), Half(q, i, u)
  PROVE  SetStage(q, i, f)
BY DEF SetStage

(* Manual mode *)
LEMMA StageSetMode ==
  ASSUME Undisturbed, InRange, CInv, NEW w \in Scripts, SetMode(w), TInv'
  PROVE  CInv'
<1> DEFINE r == run[w]
           q == [r EXCEPT !.pc = "temp"]
<1>1. Stage(r, fi, fw, asked) /\ Shape(r) /\ r.pc = "mode" /\ asked' = asked
  BY DEF CInv, TInv, ScriptOK, SetMode, At
<1>2. SetStage(r, fi, fw) /\ Fit(r.curve)
  BY <1>1, StageOf DEF SetStage
<1>3. PICK m \in Modes : r.slot = 1 /\ \E u : Rests(fi, fw, m, u)
  BY <1>1, <1>2 DEF SetStage
<1>4. PICK u : Rests(fi, fw, m, u)
  BY <1>3
<1>5. Fan(fi, m, u) /\ Nice(u) /\ ~fi.tempValid /\ Enable(fi) = m /\ (fi.full <=> m = FULL)
  BY <1>4, RestsFacts DEF Rests
<1>6. Shape(q) /\ q.pc = "temp" /\ SameBut(q, r)
  BY <1>1, MovedOn
<1>7. Goes(w, "temp") => run' = [run EXCEPT ![w] = q]
  BY DEF Goes
<1> HIDE DEF q
<1>8. ASSUME NEW i, NEW f, NEW t, Fan(i, MANUAL, t), ~i.full, ~i.tempValid, Goes(w, "temp"),
             fi' = i, fw' = f
      PROVE  CInv'
  <2>1. Half(q, i, t)
    <3>1. q.slot = 1 /\ \A x \in Slots : ~(x < 1)
      BY <1>3, <1>6, DriverFacts DEF SameBut
    <3>2. QED
      BY <1>6, <1>8, <3>1 DEF Half
  <2>2. SetStage(q, i, f)
    BY <1>2, <1>6, <2>1, HalfStage DEF SameBut
  <2>3. Stage(q, i, f, asked)
    BY <1>1, <1>6, <2>2, SetKeeps DEF SameBut
  <2>4. Stage(q, fi', fw', asked')
    BY <1>1, <1>8, <2>3
  <2>5. QED
    BY <1>7, <1>8, <2>4, CInvTurn
<1>9. CASE Enable(fi) = MANUAL
  <2>1. Goes(w, "temp") /\ fi' = fi /\ fw' = fw
    BY <1>9 DEF SetMode, NotDriver
  <2>2. Fan(fi, MANUAL, u) /\ ~fi.full
    BY <1>5, <1>9, Modewise
  <2>3. QED
    BY <1>5, <1>8, <2>1, <2>2
<1>10. CASE Enable(fi) # MANUAL
  <2> DEFINE o == Activate([fi |-> fi, fw |-> fw], FALSE, AllWrites)
             t == IF m = AUTO THEN Raised ELSE u
  <2>1. Becomes(o) /\ IF o.ok THEN Goes(w, "temp") ELSE Ends(w)
    BY <1>10, Alone DEF SetMode, Current
  <2>2. o.ok /\ Fan(o.fi, MANUAL, t) /\ ~o.fi.full /\ (o.fi.tempValid <=> fi.tempValid)
    BY <1>5, ActivatePlain
  <2> HIDE DEF o, t
  <2>3. QED
    BY <1>5, <1>8, <2>1, <2>2 DEF Becomes
<1>11. QED
  BY <1>9, <1>10

(* A temperature *)
LEMMA StageSetTemp ==
  ASSUME Undisturbed, InRange, CInv, NEW w \in Scripts, SetTemp(w), TInv'
  PROVE  CInv'
<1> DEFINE r == run[w]
           p == r.slot
           c == r.curve
           x == Filled(c)[p][1]
           o == StoreTemp(Current, p, x, AllWrites)
           clean == r.clean /\ o.ok
           q == [r EXCEPT !.pc = "pwm", !.clean = clean]
<1>1. Stage(r, fi, fw, asked) /\ Shape(r) /\ r.pc = "temp" /\ asked' = asked /\ p \in Slots
  BY DEF CInv, TInv, ScriptOK, SetTemp, At
<1>2. SetStage(r, fi, fw) /\ Fit(c)
  BY <1>1, StageOf DEF SetStage
<1>3. PICK u : Half(r, fi, u)
  BY <1>1, <1>2 DEF SetStage
<1>4. Fan(fi, MANUAL, u) /\ ~fi.full /\ ~fi.tempValid
      /\ \A y \in Slots : y < p => u[y] = Want(c)[y]
  BY <1>1, <1>3 DEF Half
<1>5. x \in 1..255 /\ Slot(w)[1] = x
  BY <1>1, <1>2 DEF Fit, Slot
<1>6. ~Rejected(Slot(w)[1])
  <2>1. x \in U8
    <3>1. x \in 1..255
      BY <1>5
    <3> HIDE DEF x
    <3>2. QED
      BY <3>1, Ranges, DriverFacts
  <2>2. fi.mode = MANUAL
    BY <1>4 DEF Fan
  <2>3. QED
    BY <1>5, <2>1, <2>2 DEF Rejected
<1>7. Becomes(o) /\ run' = [run EXCEPT ![w] = q]
  <2>1. Becomes(o) /\ run' = [run EXCEPT ![w].pc = "pwm", ![w].clean = @ /\ o.ok]
    BY <1>5, <1>6, Alone DEF SetTemp
  <2> HIDE DEF o
  <2>2. QED
    BY <2>1
<1> DEFINE t == Heated(u, p, x)
<1>8. Fan(o.fi, MANUAL, t) /\ ~o.fi.full /\ (o.fi.tempValid <=> p = N)
  <2>1. /\ p \in Slots /\ Fan(Current.fi, MANUAL, u) /\ ~Current.fi.full
        /\ ~Current.fi.tempValid /\ x \in 1..255
    BY <1>1, <1>4, <1>5, NowFields
  <2> HIDE DEF x, p
  <2>2. QED
    BY <2>1, StoreTempFan
<1> HIDE DEF o, clean
<1>9. Shape(q) /\ q.pc = "pwm" /\ SameBut(q, r)
  BY <1>1 DEF Shape, SameBut
<1> HIDE DEF q
<1>10. u \in Table /\ p \in Int
  BY <1>1, <1>4, DriverFacts DEF Fan, FanInfo
<1>11. t[p].temp = Want(c)[p].temp /\ \A y \in Slots : y < p => t[y] = Want(c)[y]
  <2>1. t[p].temp = x
    BY <1>1, <1>10 DEF Heated, Table, Point
  <2>2. Want(c)[p].temp = x
    BY <1>1 DEF Want
  <2>3. \A y \in Slots : y < p => t[y] = u[y]
    BY <1>10 DEF Heated, Table
  <2>4. QED
    BY <1>4, <2>1, <2>2, <2>3
<1> HIDE DEF t, x
<1>12. Half(q, o.fi, t)
  BY <1>8, <1>9, <1>11 DEF Half, SameBut
<1>13. SetStage(q, o.fi, o.fw)
  BY <1>2, <1>9, <1>12, HalfStage DEF SameBut
<1>14. Stage(q, o.fi, o.fw, asked)
  BY <1>1, <1>9, <1>13, SetKeeps DEF SameBut
<1>15. Stage(q, fi', fw', asked')
  BY <1>1, <1>7, <1>14 DEF Becomes
<1>16. QED
  BY <1>7, <1>15, CInvTurn

(* A speed; the last one puts the table in force *)
LEMMA StageSetPwm ==
  ASSUME Undisturbed, InRange, CInv, NEW w \in Scripts, SetPwm(w), TInv'
  PROVE  CInv'
<1> DEFINE r == run[w]
           p == r.slot
           c == r.curve
           v == Percent(Filled(c)[p][2])
           o == StoreSpeed(Current, p, v, AllWrites)
           q == NextSlot(r)
<1>1. Stage(r, fi, fw, asked) /\ Shape(r) /\ r.pc = "pwm" /\ p \in Slots
      /\ run = [x \in Scripts |-> run[x]]
  BY DEF CInv, TInv, ScriptOK, SetPwm, At
<1>2. SetStage(r, fi, fw) /\ Fit(c)
  BY <1>1, StageOf DEF SetStage
<1>3. PICK u : Half(r, fi, u)
  BY <1>1, <1>2 DEF SetStage
<1>4. /\ Fan(fi, MANUAL, u) /\ ~fi.full /\ (fi.tempValid <=> p = N)
      /\ \A y \in Slots : y < p => u[y] = Want(c)[y]
      /\ u[p].temp = Want(c)[p].temp
  BY <1>1, <1>3 DEF Half
<1>5. v \in 0..100 /\ Percent(Slot(w)[2]) = v
  BY <1>1, <1>2, WantNice DEF Slot
<1>6. ~Rejected(Percent(Slot(w)[2]))
  <2>1. v \in U8
    <3>1. v \in 0..100
      BY <1>5
    <3> HIDE DEF v
    <3>2. QED
      BY <3>1, Ranges, DriverFacts
  <2>2. fi.mode = MANUAL
    BY <1>4 DEF Fan
  <2>3. QED
    BY <1>5, <2>1, <2>2 DEF Rejected
<1> DEFINE t == Sped(u, p, Floor(v))
<1>7. u \in Table /\ p \in Int /\ p <= N /\ p >= 1
  BY <1>1, <1>4, DriverFacts DEF Fan, FanInfo
<1>8. \A y \in Slots : y <= p => t[y] = Want(c)[y]
  <2>1. ASSUME NEW y \in Slots, y < p PROVE t[y] = Want(c)[y]
    <3>1. t[y] = u[y]
      BY <1>7, <2>1 DEF Sped, Table
    <3>2. QED
      BY <1>4, <2>1, <3>1
  <2>2. t[p] = Want(c)[p]
    <3>1. u[p] \in Point
      BY <1>1, <1>7 DEF Table
    <3>2. t[p] = [temp |-> u[p].temp, speed |-> Floor(v)]
      BY <1>1, <1>7, <3>1 DEF Sped, Table, Point
    <3>3. Want(c)[p] = [temp |-> Want(c)[p].temp, speed |-> Floor(v)]
      BY <1>1 DEF Want
    <3>4. QED
      BY <1>4, <3>2, <3>3
  <2>3. \A y \in Slots : y <= p => y < p \/ y = p
    BY <1>7, DriverFacts
  <2>4. QED
    BY <2>1, <2>2, <2>3
<1>9. p = N => t = Want(c)
  <2> SUFFICES ASSUME p = N PROVE t = Want(c)
    OBVIOUS
  <2>1. \A y \in Slots : y <= N
    BY DriverFacts
  <2>2. \A y \in Slots : t[y] = Want(c)[y]
    BY <1>8, <2>1
  <2>3. t = [y \in Slots |-> t[y]] /\ Want(c) = [y \in Slots |-> Want(c)[y]]
    BY <1>7 DEF Sped, Table, Want
  <2> HIDE DEF t
  <2>4. QED
    BY <2>2, <2>3
<1>10. Nice(Want(c)) /\ Ordered(Want(c))
  <2>1. Nice(Want(c))
    BY <1>2, WantNice
  <2> DEFINE n == Want(c)
  <2> HIDE DEF n
  <2>2. Nice(n)
    BY <2>1 DEF n
  <2>3. ASSUME NEW y \in Slots \ {1}
        PROVE  n[y - 1].temp <= n[y].temp /\ n[y - 1].speed <= n[y].speed
    <3>1. y - 1 \in Slots /\ y \in Slots
      BY SlotBefore
    <3>2. n[y - 1].temp < n[y].temp /\ n[y - 1].speed <= n[y].speed
      BY <2>2, <3>1 DEF Nice
    <3>3. n[y - 1].temp \in 1..255 /\ n[y].temp \in 1..255
      BY <2>2, <3>1 DEF Nice
    <3> DEFINE s == n[y - 1].temp
               z == n[y].temp
    <3>4. s \in 1..255 /\ z \in 1..255 /\ s < z
      BY <3>2, <3>3
    <3> HIDE DEF s, z
    <3>5. s <= z
      BY <3>4
    <3>6. QED
      BY <3>2, <3>5 DEF s, z
  <2>4. QED
    BY <2>1, <2>3 DEF Ordered, n
<1>11. /\ o.ok /\ Fan(o.fi, MANUAL, t) /\ ~o.fi.full /\ ~o.fi.tempValid
       /\ o.fw = IF p = N THEN Run(t) ELSE fw
  <2>1. /\ p \in Slots /\ Fan(Current.fi, MANUAL, u) /\ ~Current.fi.full
        /\ (Current.fi.tempValid <=> p = N) /\ v \in 0..100 /\ (p = N => Ordered(t))
    BY <1>1, <1>4, <1>5, <1>9, <1>10, NowFields
  <2> HIDE DEF v, p
  <2>2. Fan(o.fi, MANUAL, t)
    BY <2>1, StoreSpeedFan
  <2>3. o.ok /\ ~o.fi.full /\ ~o.fi.tempValid
    BY <2>1, StoreSpeedFan
  <2>4. (p = N => o.fw = Run(t)) /\ (p # N => o.fw = Current.fw)
    BY <2>1, StoreSpeedFan, SMTT(40)
  <2> HIDE DEF o, t
  <2>5. QED
    BY <2>2, <2>3, <2>4, NowFields
<1>12. /\ Becomes(o) /\ run' = [run EXCEPT ![w] = q]
       /\ asked' = IF WentThrough(run'[w]) /\ ~r.reading THEN c ELSE asked
  <2>1. Becomes(o) /\ run' = [run EXCEPT ![w] = IF o.ok THEN NextSlot(@) ELSE StopAtSlot(@)]
    BY <1>5, <1>6, Alone DEF SetPwm
  <2>2. asked' = IF WentThrough(run'[w]) /\ ~r.reading THEN c ELSE asked
    BY DEF SetPwm
  <2> HIDE DEF o
  <2>3. QED
    BY <1>11, <2>1, <2>2
<1>13. /\ Shape(q) /\ q.curve = c /\ q.applied = p
       /\ q.slot = (IF p < N THEN p + 1 ELSE p)
       /\ q.pc = (IF p < N THEN "temp" ELSE "report")
       /\ q.reading = r.reading /\ q.saved = r.saved /\ q.enable = r.enable
       /\ q.stock = r.stock /\ q.before = r.before
  BY <1>1, SlotDone
<1> HIDE DEF o, t, q, v
<1>14. run'[w] = q
  BY <1>1, <1>12
<1>15. SetStage(q, o.fi, o.fw)
  <2>1. CASE p # N
    <3>1. p < N /\ N \in Int
      BY <1>7, <2>1, DriverFacts
    <3>2. q.pc = "temp" /\ q.slot = p + 1
      BY <1>13, <3>1
    <3>3. \A y \in Slots : y < p + 1 => y <= p
      BY <1>7, DriverFacts
    <3>4. Half(q, o.fi, t)
      BY <1>8, <1>11, <1>13, <3>2, <3>3 DEF Half
    <3>5. QED
      BY <1>2, <1>13, <3>2, <3>4, HalfStage
  <2>2. CASE p = N
    <3>1. q.pc = "report"
      BY <1>13, <2>2, DriverFacts
    <3>2. Rests(o.fi, o.fw, MANUAL, Want(c))
      <4>1. t = Want(c) /\ o.fw = Run(t) /\ Nice(t)
        BY <1>9, <1>10, <1>11, <2>2
      <4>2. Rests(o.fi, o.fw, MANUAL, t)
        BY <1>11, <4>1, RestsManual
      <4>3. QED
        BY <4>1, <4>2
    <3>3. QED
      BY <1>2, <1>13, <2>2, <3>1, <3>2 DEF SetStage
  <2>3. QED
    BY <2>1, <2>2
<1>16. q.pc = "report" => WentThrough(q)
  <2> SUFFICES ASSUME q.pc = "report" PROVE q.applied = N
    BY DEF WentThrough
  <2>1. ~(p < N)
    BY <1>13
  <2>2. QED
    BY <1>7, <1>13, <2>1, DriverFacts
<1>17. (~r.reading /\ q.pc = "report" => asked' = c) /\ (r.reading => asked' = asked)
  BY <1>12, <1>14, <1>16
<1>18. Stage(q, o.fi, o.fw, asked')
  BY <1>1, <1>13, <1>15, <1>17, SetKeeps
<1>19. Stage(q, fi', fw', asked')
  BY <1>12, <1>18 DEF Becomes
<1>20. QED
  BY <1>12, <1>19, CInvTurn

(* `set` begins, and says how it went                                       *)
LEMMA StageStartSet ==
  ASSUME Undisturbed, InRange, CInv, NEW w \in Scripts, StartSet(w), TInv'
  PROVE  CInv'
<1> DEFINE r == run[w]
<1>1. Stage(r, fi, fw, asked) /\ Shape(r) /\ r.pc = "idle"
  BY DEF CInv, TInv, ScriptOK, StartSet, At
<1>2. PICK c \in Curves : run' = [run EXCEPT ![w] = BeginSet(r, c)]
  BY DEF StartSet
<1> DEFINE q == BeginSet(r, c)
<1>3. q.pc = "mode" /\ q.curve = c /\ q.slot = 1 /\ q.reading = r.reading
  BY <1>1, SetBegun
<1>4. ~r.reading /\ \E m \in Modes : \E u : Rests(fi, fw, m, u)
  BY <1>1, StageOf
<1>5. run' = [run EXCEPT ![w] = q] /\ fi' = fi /\ fw' = fw
  BY <1>2 DEF StartSet
<1> HIDE DEF q
<1>6. SetStage(q, fi, fw)
  BY <1>3, <1>4, FitCurve DEF SetStage
<1>7. Stage(q, fi', fw', asked')
  BY <1>3, <1>4, <1>5, <1>6 DEF Stage
<1>8. QED
  BY <1>5, <1>7, CInvTurn

LEMMA StageReport ==
  ASSUME Undisturbed, InRange, CInv, NEW w \in Scripts, Report(w), TInv'
  PROVE  CInv'
<1> DEFINE r == run[w]
           q == [r EXCEPT !.pc = "restoreMode"]
<1>1. Stage(r, fi, fw, asked) /\ Shape(r) /\ r.pc = "report"
      /\ fi' = fi /\ fw' = fw /\ asked' = asked
  BY DEF CInv, TInv, ScriptOK, Report, At
<1>2. SetStage(r, fi, fw)
  BY <1>1, StageOf
<1>3. Fit(r.curve) /\ Rests(fi, fw, MANUAL, Want(r.curve)) /\ r.applied = N
  BY <1>1, <1>2 DEF SetStage
<1>5. CASE ~r.reading
  <2>1. run' = [run EXCEPT ![w] = Idle]
    BY <1>5 DEF Report, Ends
  <2>2. asked = r.curve
    BY <1>1, <1>5, StageOf
  <2>3. fw = Run(Want(r.curve))
    BY <1>3, Modewise DEF Rests, Runs
  <2>4. Stage(Idle, fi, fw, asked)
    BY <1>3, <2>2, <2>3, IdleStage, Modewise DEF AskedRuns
  <2>5. Stage(Idle, fi', fw', asked')
    BY <1>1, <2>4
  <2>6. QED
    BY <2>1, <2>5, CInvTurn
<1>6. CASE r.reading
  <2>1. PICK m \in Modes : \E u : Found(r, m, u, asked) /\ ReadStage(r, m, u, fi, fw)
    BY <1>1, <1>6, StageOf
  <2>2. PICK u : Found(r, m, u, asked) /\ ReadStage(r, m, u, fi, fw)
    BY <2>1
  <2>3. r.curve = Shown(u) /\ r.stock = Shown(Raised)
    BY <1>1, <2>2 DEF ReadStage
  <2>4. Want(r.curve) = u /\ Len(r.curve) = N
    BY <2>2, <2>3, ShownFit DEF Found, Rests
  <2>5. run' = [run EXCEPT ![w] = q]
    <3>1. N >= N
      BY DriverFacts
    <3>2. SaysApplied(r)
      BY <1>1, <1>3, <2>4, <3>1 DEF SaysApplied
    <3>3. QED
      BY <1>6, <3>2 DEF Report, Goes
  <2>6. Shape(q) /\ q.pc = "restoreMode" /\ SameBut(q, r)
    BY <1>1, MovedOn
  <2> HIDE DEF q
  <2>7. Found(q, m, u, asked)
    BY <1>1, <2>2, <2>6 DEF Found, SameBut
  <2>8. ReadStage(q, m, u, fi, fw)
    BY <1>3, <2>3, <2>4, <2>6 DEF ReadStage, SameBut
  <2>9. Stage(q, fi', fw', asked')
    BY <1>1, <1>6, <2>6, <2>7, <2>8 DEF Stage, SameBut
  <2>10. QED
    BY <2>5, <2>9, CInvTurn
<1>7. QED
  BY <1>5, <1>6

(* `stock-read` finds the fan at rest in some mode                          *)
LEMMA StageStartRead ==
  ASSUME Undisturbed, InRange, CInv, NEW w \in Scripts, StartStockRead(w), TInv'
  PROVE  CInv'
<1> DEFINE r == run[w]
           o == UserCount(Current, AllWrites)
           x == IF o.ok THEN Shown(o.fi.user) ELSE <<>>
           q == [Idle EXCEPT !.pc = "enable", !.reading = TRUE, !.before = Current, !.saved = x]
<1>1. Stage(r, fi, fw, asked) /\ r.pc = "idle"
  BY DEF CInv, StartStockRead, At
<1>2. AskedRuns(fw, asked) /\ \E m \in Modes : \E u : Rests(fi, fw, m, u)
  BY <1>1, StageOf
<1>3. PICK m \in Modes : \E u : Rests(fi, fw, m, u)
  BY <1>2
<1>4. PICK u : Rests(fi, fw, m, u)
  BY <1>3
<1>5. o.ok /\ o.fi = fi /\ o.fw = fw
  <2>1. Fan(fi, m, u)
    BY <1>4 DEF Rests
  <2>2. QED
    BY <2>1, UserCountFan DEF Current
<1>6. Becomes(o) /\ run' = [run EXCEPT ![w] = q] /\ asked' = asked
  BY Alone DEF StartStockRead
<1>7. x = Shown(u)
  BY <1>4, <1>5, RestsFacts
<1> HIDE DEF o, x
<1>8. /\ q.pc = "enable" /\ q.reading /\ q.before = Current /\ q.saved = x
      /\ q.before.fi = fi /\ q.before.fw = fw
  BY DEF Idle, Current
<1> HIDE DEF q
<1>9. Found(q, m, u, asked)
  BY <1>2, <1>4, <1>7, <1>8 DEF Found
<1>10. ReadStage(q, m, u, fi, fw)
  BY <1>8 DEF ReadStage
<1>11. Stage(q, fi, fw, asked)
  BY <1>8, <1>9, <1>10 DEF Stage
<1>12. Stage(q, fi', fw', asked')
  BY <1>5, <1>6, <1>11 DEF Becomes
<1>13. QED
  BY <1>6, <1>12, CInvTurn

(* The other steps of `stock-read`: from the mode m and the table u that it *)
(* found, the fan goes to j, g while the script goes to q.                  *)
LEMMA ReadMoves ==
  ASSUME Undisturbed, CInv, NEW w \in Scripts, TInv', NEW m \in Modes, NEW u,
         Found(run[w], m, u, asked), run[w].reading, asked' = asked,
         NEW q, run' = [run EXCEPT ![w] = q], q.reading = run[w].reading,
         q.saved = run[w].saved, q.before = run[w].before, q.enable = m,
         ReadStage(q, m, u, fi', fw')
  PROVE  CInv'
<1>1. Found(q, m, u, asked)
  BY DEF Found
<1>2. Stage(q, fi', fw', asked')
  BY <1>1 DEF Stage
<1>3. QED
  BY <1>2, CInvTurn

LEMMA Reads ==
  ASSUME CInv, NEW w \in Scripts,
         run[w].pc \in {"enable", "flipAuto", "flipManual", "readStock", "restoreMode", "print"}
  PROVE  \E m \in Modes : \E u :
           /\ Found(run[w], m, u, asked) /\ ReadStage(run[w], m, u, fi, fw)
           /\ run[w].reading /\ Shape(run[w])
           /\ run[w].pc # "enable" => run[w].enable = m
<1> DEFINE r == run[w]
<1>1. Stage(r, fi, fw, asked) /\ Shape(r)
  BY DEF CInv, TInv, ScriptOK
<1>2. r.reading /\ r.pc # "idle"
  BY <1>1, StageOf
<1>3. PICK m \in Modes : \E u : Found(r, m, u, asked) /\ ReadStage(r, m, u, fi, fw)
  BY <1>1, <1>2, StageOf
<1>4. PICK u : Found(r, m, u, asked) /\ ReadStage(r, m, u, fi, fw)
  BY <1>3
<1>5. r.pc # "enable" => r.enable = m
  BY <1>4 DEF Found
<1>6. QED
  BY <1>1, <1>2, <1>4, <1>5

LEMMA NotSetting ==
  ASSUME NEW r, NEW i, NEW f,
         r.pc \in {"enable", "flipAuto", "flipManual", "readStock", "restoreMode", "print"}
  PROVE  ~SetStage(r, i, f)
BY DEF SetStage

LEMMA StageSaveMode ==
  ASSUME Undisturbed, InRange, CInv, NEW w \in Scripts, SaveMode(w), TInv'
  PROVE  CInv'
<1> DEFINE r == run[w]
           q == [r EXCEPT !.pc = "flipAuto", !.enable = Enable(fi)]
<1>1. r.pc = "enable" /\ run' = [run EXCEPT ![w] = q]
      /\ fi' = fi /\ fw' = fw /\ asked' = asked
  BY DEF SaveMode, At
<1>2. PICK m \in Modes : \E u :
           Found(r, m, u, asked) /\ ReadStage(r, m, u, fi, fw) /\ r.reading /\ Shape(r)
  BY <1>1, Reads
<1>3. PICK u : Found(r, m, u, asked) /\ ReadStage(r, m, u, fi, fw) /\ r.reading /\ Shape(r)
  BY <1>2
<1>4. fi = r.before.fi /\ fw = r.before.fw
  BY <1>1, <1>3, NotSetting DEF ReadStage
<1>5. Enable(fi) = m
  BY <1>3, <1>4, RestsFacts DEF Found
<1>6. /\ q.pc = "flipAuto" /\ q.enable = Enable(fi) /\ q.reading = r.reading
      /\ q.saved = r.saved /\ q.before = r.before
  BY <1>3 DEF Shape
<1> HIDE DEF q
<1>7. ReadStage(q, m, u, fi', fw')
  BY <1>1, <1>4, <1>6 DEF ReadStage
<1>8. QED
  BY <1>1, <1>3, <1>5, <1>6, <1>7, ReadMoves

LEMMA StageFlipAuto ==
  ASSUME Undisturbed, InRange, CInv, NEW w \in Scripts, FlipAuto(w), TInv'
  PROVE  CInv'
<1> DEFINE r == run[w]
           q == [r EXCEPT !.pc = "flipManual"]
           o == EnableStock([fi |-> fi, fw |-> fw], AllWrites)
<1>1. r.pc = "flipAuto" /\ asked' = asked
  BY DEF FlipAuto, At
<1>2. PICK m \in Modes : \E u : Found(r, m, u, asked) /\ ReadStage(r, m, u, fi, fw)
                                /\ r.reading /\ Shape(r) /\ r.enable = m
  BY <1>1, Reads
<1>3. PICK u : Found(r, m, u, asked) /\ ReadStage(r, m, u, fi, fw)
               /\ r.reading /\ Shape(r) /\ r.enable = m
  BY <1>2
<1>4. Rests(fi, fw, m, u)
  BY <1>1, <1>3, NotSetting DEF ReadStage, Found
<1>5. Fan(fi, m, u) /\ Nice(u) /\ ~fi.tempValid
  BY <1>4, RestsFacts
<1>6. o.ok /\ Fan(o.fi, AUTO, u) /\ ~o.fi.full /\ (o.fi.tempValid <=> fi.tempValid)
      /\ o.fw = RunStock
  BY <1>5, EnableStockFan
<1>7. Becomes(o) /\ IF o.ok THEN Goes(w, "flipManual") ELSE Ends(w)
  BY Alone DEF FlipAuto, Current
<1> HIDE DEF o
<1>8. Rests(o.fi, o.fw, AUTO, u)
  BY <1>5, <1>6, Modewise DEF Rests, Runs
<1>9. run' = [run EXCEPT ![w] = q] /\ fi' = o.fi /\ fw' = o.fw
  BY <1>6, <1>7 DEF Goes, Becomes
<1>10. q.pc = "flipManual" /\ SameBut(q, r)
  BY <1>3, MovedOn
<1> HIDE DEF q
<1>11. ReadStage(q, m, u, fi', fw')
  BY <1>8, <1>9, <1>10 DEF ReadStage
<1>12. QED
  BY <1>1, <1>3, <1>9, <1>10, <1>11, ReadMoves DEF SameBut

LEMMA StageFlipManual ==
  ASSUME Undisturbed, InRange, CInv, NEW w \in Scripts, FlipManual(w), TInv'
  PROVE  CInv'
<1> DEFINE r == run[w]
           q == [r EXCEPT !.pc = "readStock"]
           o == Activate([fi |-> fi, fw |-> fw], FALSE, AllWrites)
<1>1. r.pc = "flipManual" /\ asked' = asked
  BY DEF FlipManual, At
<1>2. PICK m \in Modes : \E u : Found(r, m, u, asked) /\ ReadStage(r, m, u, fi, fw)
                                /\ r.reading /\ Shape(r) /\ r.enable = m
  BY <1>1, Reads
<1>3. PICK u : Found(r, m, u, asked) /\ ReadStage(r, m, u, fi, fw)
               /\ r.reading /\ Shape(r) /\ r.enable = m
  BY <1>2
<1>4. Rests(fi, fw, AUTO, u)
  BY <1>1, <1>3, NotSetting DEF ReadStage
<1>5. Fan(fi, AUTO, u) /\ Nice(u) /\ ~fi.tempValid /\ AUTO \in Modes
  BY <1>4, RestsFacts, Modewise
<1>6. o.ok /\ Fan(o.fi, MANUAL, Raised) /\ ~o.fi.full /\ (o.fi.tempValid <=> fi.tempValid)
      /\ o.fw = Run(Raised) /\ Nice(Raised)
  BY <1>5, ActivatePlain
<1>7. Becomes(o) /\ IF o.ok THEN Goes(w, "readStock") ELSE Ends(w)
  BY Alone DEF FlipManual, Current
<1> HIDE DEF o
<1>8. Rests(o.fi, o.fw, MANUAL, Raised)
  BY <1>5, <1>6, RestsManual
<1>9. run' = [run EXCEPT ![w] = q] /\ fi' = o.fi /\ fw' = o.fw
  BY <1>6, <1>7 DEF Goes, Becomes
<1>10. q.pc = "readStock" /\ SameBut(q, r)
  BY <1>3, MovedOn
<1> HIDE DEF q
<1>11. ReadStage(q, m, u, fi', fw')
  BY <1>8, <1>9, <1>10 DEF ReadStage
<1>12. QED
  BY <1>1, <1>3, <1>9, <1>10, <1>11, ReadMoves DEF SameBut

LEMMA StageReadStock ==
  ASSUME Undisturbed, InRange, CInv, NEW w \in Scripts, ReadStock(w), TInv'
  PROVE  CInv'
<1> DEFINE r == run[w]
           read == [r EXCEPT !.stock = Shown(fi.user)]
           q == BeginSet(read, read.saved)
<1>1. r.pc = "readStock" /\ asked' = asked /\ fi' = fi /\ fw' = fw
  BY DEF ReadStock, At
<1>2. PICK m \in Modes : \E u : Found(r, m, u, asked) /\ ReadStage(r, m, u, fi, fw)
                                /\ r.reading /\ Shape(r) /\ r.enable = m
  BY <1>1, Reads
<1>3. PICK u : Found(r, m, u, asked) /\ ReadStage(r, m, u, fi, fw)
               /\ r.reading /\ Shape(r) /\ r.enable = m
  BY <1>2
<1>4. Rests(fi, fw, MANUAL, Raised) /\ MANUAL \in Modes
  BY <1>1, <1>3, NotSetting, Modewise DEF ReadStage
<1>5. fi.user = Raised
  BY <1>4, RestsFacts
<1>6. r.saved = Shown(u) /\ Fit(Shown(u)) /\ Shown(u) # <<>>
  BY <1>3, ShownFit DEF Found, Rests
<1>7. run' = [run EXCEPT ![w] = IF read.saved = <<>> THEN [read EXCEPT !.pc = "restoreMode"] ELSE q]
  BY DEF ReadStock
<1>8. /\ Shape(read) /\ read.reading = r.reading /\ read.saved = r.saved
      /\ read.before = r.before /\ read.enable = r.enable /\ read.stock = Shown(Raised)
  BY <1>3, <1>5 DEF Shape
<1> HIDE DEF read
<1>9. /\ q.pc = "mode" /\ q.curve = read.saved /\ q.slot = 1
      /\ q.reading = read.reading /\ q.saved = read.saved /\ q.enable = read.enable
      /\ q.stock = read.stock /\ q.before = read.before
  BY <1>8, SetBegun
<1> HIDE DEF q
<1>10. run' = [run EXCEPT ![w] = q]
  BY <1>6, <1>7, <1>8
<1>11. SetStage(q, fi, fw)
  BY <1>4, <1>6, <1>8, <1>9 DEF SetStage
<1>12. ReadStage(q, m, u, fi', fw')
  BY <1>1, <1>6, <1>8, <1>9, <1>11 DEF ReadStage
<1>13. QED
  BY <1>1, <1>3, <1>8, <1>9, <1>10, <1>12, ReadMoves

LEMMA StageRestoreMode ==
  ASSUME Undisturbed, InRange, CInv, NEW w \in Scripts, RestoreMode(w), TInv'
  PROVE  CInv'
<1> DEFINE r == run[w]
           q == [r EXCEPT !.pc = "print"]
           o == WriteEnable(r.enable, AllWrites)
<1>1. r.pc = "restoreMode" /\ asked' = asked
  BY DEF RestoreMode, At
<1>2. PICK m \in Modes : \E u : Found(r, m, u, asked) /\ ReadStage(r, m, u, fi, fw)
                                /\ r.reading /\ Shape(r) /\ r.enable = m
  BY <1>1, Reads
<1>3. PICK u : Found(r, m, u, asked) /\ ReadStage(r, m, u, fi, fw)
               /\ r.reading /\ Shape(r) /\ r.enable = m
  BY <1>2
<1>4. Rests(fi, fw, MANUAL, u) /\ r.stock = Shown(Raised)
  BY <1>1, <1>3, NotSetting DEF ReadStage
<1>5. Fan(fi, MANUAL, u) /\ Nice(u) /\ ~fi.tempValid /\ MANUAL \in Modes /\ MANUAL # AUTO
  BY <1>4, RestsFacts, Modewise
<1>6. q.pc = "print" /\ SameBut(q, r)
  BY <1>3, MovedOn
<1>7. ASSUME Goes(w, "print"), Rests(fi', fw', m, u) PROVE CInv'
  <2>1. run' = [run EXCEPT ![w] = q]
    BY <1>7 DEF Goes
  <2> HIDE DEF q
  <2>2. ReadStage(q, m, u, fi', fw')
    BY <1>4, <1>6, <1>7 DEF ReadStage, SameBut
  <2>3. QED
    BY <1>1, <1>3, <1>6, <2>1, <2>2, ReadMoves DEF SameBut
<1>8. CASE m = MANUAL
  <2>1. Goes(w, "print") /\ fi' = fi /\ fw' = fw
    BY <1>3, <1>8 DEF RestoreMode, NotDriver
  <2>2. QED
    BY <1>4, <1>7, <1>8, <2>1
<1>9. CASE m # MANUAL
  <2>1. Becomes(o) /\ IF o.ok THEN Goes(w, "print") ELSE Ends(w)
    BY <1>3, <1>9, Alone DEF RestoreMode
  <2>2. PICK t : /\ (MANUAL # AUTO \/ m = AUTO => t = u)
                 /\ WriteEnable(m, AllWrites).ok
                 /\ Rests(WriteEnable(m, AllWrites).fi, WriteEnable(m, AllWrites).fw, m, t)
    BY <1>5, WriteEnableFan
  <2>3. o.ok /\ Rests(o.fi, o.fw, m, u)
    BY <1>3, <1>5, <2>2
  <2> HIDE DEF o
  <2>4. QED
    BY <1>7, <2>1, <2>3 DEF Becomes
<1>10. QED
  BY <1>8, <1>9

LEMMA StagePrintStock ==
  ASSUME Undisturbed, InRange, CInv, NEW w \in Scripts, PrintStock(w), TInv'
  PROVE  CInv'
<1> DEFINE r == run[w]
<1>1. r.pc = "print" /\ asked' = asked /\ fi' = fi /\ fw' = fw
      /\ run' = [run EXCEPT ![w] = Idle]
  BY DEF PrintStock, At, Ends
<1>2. PICK m \in Modes : \E u : Found(r, m, u, asked) /\ ReadStage(r, m, u, fi, fw)
  BY <1>1, Reads
<1>3. PICK u : Found(r, m, u, asked) /\ ReadStage(r, m, u, fi, fw)
  BY <1>2
<1>4. Rests(fi, fw, m, u)
  BY <1>1, <1>3, NotSetting DEF ReadStage
<1>5. AskedRuns(fw, asked)
  BY <1>3, <1>4 DEF Found, Rests
<1>6. Stage(Idle, fi', fw', asked')
  BY <1>1, <1>4, <1>5, IdleStage
<1>7. QED
  BY <1>1, <1>6, CInvTurn

LEMMA StageHandOver ==
  ASSUME Undisturbed, InRange, CInv, NEW w \in Scripts, NEW v \in Modes, HandOver(w, v), TInv'
  PROVE  CInv'
<1> DEFINE o == WriteEnable(v, AllWrites)
<1>1. Stage(run[w], fi, fw, asked) /\ run[w].pc = "idle" /\ run' = run
      /\ Scripts = {w}
  BY Alone DEF CInv, HandOver, At
<1>2. ~run[w].reading /\ \E m \in Modes : \E u : Rests(fi, fw, m, u)
  BY <1>1, StageOf
<1>3. PICK m \in Modes : \E u : Rests(fi, fw, m, u)
  BY <1>2
<1>4. PICK u : Rests(fi, fw, m, u)
  BY <1>3
<1>5. Fan(fi, m, u) /\ Nice(u) /\ ~fi.tempValid
  BY <1>4, RestsFacts
<1>6. o.ok /\ \E t : Rests(o.fi, o.fw, v, t)
  BY <1>5, WriteEnableFan
<1>7. Becomes(o) /\ asked' = IF o.ok THEN None ELSE asked
  BY Alone DEF HandOver
<1> HIDE DEF o
<1>8. asked' = None /\ \E t : Rests(fi', fw', v, t)
  BY <1>6, <1>7 DEF Becomes
<1>9. Stage(run[w], fi', fw', asked')
  BY <1>1, <1>2, <1>8 DEF Stage, AskedRuns
<1>10. \A x \in Scripts : Stage(run'[x], fi', fw', asked')
  BY <1>1, <1>9
<1>11. QED
  BY <1>10 DEF CInv

LEMMA CInvNext == Undisturbed /\ InRange /\ CInv /\ [Next]_vars => CInv'
<1> SUFFICES ASSUME Undisturbed, InRange, CInv, [Next]_vars PROVE CInv'
  OBVIOUS
<1>1. TInv'
  BY TInvNext DEF CInv
<1>2. CASE UNCHANGED vars
  BY <1>1, <1>2 DEF vars, CInv
<1>3. CASE Next
  <2>1. PICK w \in Scripts :
          \/ StartSet(w) \/ SetMode(w) \/ SetTemp(w) \/ SetPwm(w) \/ Report(w)
          \/ StartStockRead(w) \/ SaveMode(w) \/ FlipAuto(w) \/ FlipManual(w)
          \/ ReadStock(w) \/ RestoreMode(w) \/ PrintStock(w)
          \/ ToAuto(w) \/ ToMax(w)
    BY <1>3 DEF Next
  <2>2. CASE ToAuto(w) \/ ToMax(w)
    BY <1>1, <2>2, StageHandOver, Modewise DEF ToAuto, ToMax
  <2>3. CASE StartSet(w) \/ SetMode(w) \/ SetTemp(w) \/ SetPwm(w) \/ Report(w)
    BY <1>1, <2>3, StageStartSet, StageSetMode, StageSetTemp, StageSetPwm, StageReport
  <2>4. CASE StartStockRead(w) \/ SaveMode(w) \/ FlipAuto(w) \/ FlipManual(w)
    BY <1>1, <2>4, StageStartRead, StageSaveMode, StageFlipAuto, StageFlipManual
  <2>5. CASE ReadStock(w) \/ RestoreMode(w) \/ PrintStock(w)
    BY <1>1, <2>5, StageReadStock, StageRestoreMode, StagePrintStock
  <2>6. QED
    BY <2>1, <2>2, <2>3, <2>4, <2>5
<1>4. QED
  BY <1>2, <1>3

(* The driver loads: it goes from AUTO to a user table copied from the      *)
(* stock table                                                              *)
LEMMA CInvInit == Undisturbed /\ InRange /\ Init => CInv
<1> SUFFICES ASSUME Undisturbed, InRange, Init PROVE CInv
  OBVIOUS
<1> DEFINE i == Probed({}, TRUE, TRUE)
           s == [fi |-> i, fw |-> RunStock]
           o == Activate(s, FALSE, AllWrites)
           j == [i EXCEPT !.user = Raised, !.count = N, !.mode = MANUAL, !.full = FALSE]
<1>1. Accepted = {AllWrites} /\ run = [w \in Scripts |-> Idle] /\ asked = None
  BY DEF Undisturbed, Accepted, Init
<1>2. fi = o.fi /\ fw = o.fw
  <2>1. LET p == Probe(RunStock, {}, TRUE, TRUE, AllWrites) IN fi = p.fi /\ fw = p.fw
    BY <1>1 DEF Init
  <2>2. Probe(RunStock, {}, TRUE, TRUE, AllWrites) = o
    BY DEF Probe
  <2> HIDE DEF o
  <2>3. QED
    BY <2>1, <2>2
<1>3. i = [mode |-> AUTO, full |-> FALSE, count |-> 0, user |-> Blank, tempValid |-> FALSE,
           speedValid |-> FALSE, min |-> MinPwm, stock |-> Stock, stockCount |-> N]
  <2>1. Stock = [p \in Slots |-> Stock[p]]
    BY DriverFacts DEF Table
  <2>2. QED
    BY <2>1 DEF Probed
<1> HIDE DEF i
<1>4. /\ i.mode = AUTO /\ i.stock = Stock /\ i.stockCount = N /\ i.min = MinPwm
      /\ ~i.tempValid /\ ~i.speedValid
  BY <1>3
<1>5. ActiveCount(i) = N /\ FromStock(i) /\ ActiveTable(i) = Stock
  BY <1>4 DEF ActiveCount, FromStock, ActiveTable
<1>6. Activated(i, FALSE) = Raised
  BY <1>4, <1>5 DEF Activated, Raised, AtLeastMin, Floor
<1>7. CopiedUser(i, FALSE, AllWrites) = Raised
  <2>1. \A p \in Slots : p <= AllWrites
    BY DriverFacts
  <2>2. Raised = [p \in Slots |-> Raised[p]]
    BY DEF Raised
  <2>3. QED
    BY <1>5, <1>6, <2>1, <2>2 DEF CopiedUser
<1>8. s.fi = i
  OBVIOUS
<1> HIDE DEF s
<1>9. o = Succeeded(j, Run(Raised))
  <2>1. N # 0 /\ ~(AllWrites < AllWrites)
    BY DriverFacts
  <2>2. QED
    BY <1>5, <1>6, <1>7, <1>8, <2>1 DEF Activate
<1>10. TInv
  BY TInvInit
<1>11. /\ j.mode = MANUAL /\ j.count = N /\ j.user = Raised /\ ~j.full /\ ~j.tempValid
       /\ ~j.speedValid /\ j.min = MinPwm /\ j.stock = Stock /\ j.stockCount = N
  BY <1>3
<1> HIDE DEF j, o
<1>12. fi = j /\ fw = Run(Raised)
  BY <1>2, <1>9 DEF Succeeded
<1>13. Fan(fi, MANUAL, Raised)
  BY <1>10, <1>11, <1>12 DEF Fan, TInv
<1>14. Rests(fi, fw, MANUAL, Raised)
  BY <1>11, <1>12, <1>13, NiceTables, RestsManual
<1>15. Stage(Idle, fi, fw, asked)
  BY <1>1, <1>14, IdleStage, Modewise DEF AskedRuns
<1>16. \A w \in Scripts : Stage(run[w], fi, fw, asked)
  BY <1>1, <1>15
<1>17. QED
  BY <1>10, <1>16 DEF CInv

LEMMA CurveInvariance == ASSUME Undisturbed, InRange PROVE Spec => []CInv
<1>1. Init => CInv
  BY CInvInit
<1>2. CInv /\ [Next]_vars => CInv'
  BY CInvNext
<1>3. QED
  BY <1>1, <1>2, PTL DEF Spec

(* With one script at a time and no failing write, the fan follows the list *)
(* of the last `set`, or its first N points if it has more, padded and      *)
(* raised to the minimum, until somebody runs `auto` or `max`: no           *)
(* stock-read changes that.                                                 *)
THEOREM CurveFollowed == ASSUME Undisturbed, InRange PROVE Spec => []CurveRuns
<1>1. CInv => CurveRuns
  <2> SUFFICES ASSUME CInv, \A w \in Scripts : At(w, "idle"), asked # None
               PROVE  fw = Run(Wanted(asked))
    BY DEF CurveRuns
  <2>1. PICK w : Scripts = {w}
    BY DEF Undisturbed
  <2>2. Stage(run[w], fi, fw, asked) /\ run[w].pc = "idle"
    BY <2>1 DEF CInv, At
  <2>3. AskedRuns(fw, asked) /\ \E m \in Modes : \E u : Rests(fi, fw, m, u)
    BY <2>2, StageOf
  <2>4. fi.min = MinPwm
    BY <2>3, RestsFacts
  <2>5. Wanted(asked) = Want(asked)
    BY <2>4 DEF Wanted, Want, AtLeastMin, Floor
  <2>6. QED
    BY <2>3, <2>5 DEF AskedRuns
<1>2. QED
  BY <1>1, CurveInvariance, PTL

LEMMA Printing ==
  ASSUME CInv, NEW w \in Scripts, At(w, "print")
  PROVE  \E m \in Modes : \E u :
           /\ Rests(run[w].before.fi, run[w].before.fw, m, u)
           /\ Rests(fi, fw, m, u) /\ run[w].stock = Shown(Raised)
<1> DEFINE r == run[w]
<1>1. r.pc = "print"
  BY DEF At
<1>2. PICK m \in Modes : \E u : Found(r, m, u, asked) /\ ReadStage(r, m, u, fi, fw)
  BY <1>1, Reads
<1>3. PICK u : Found(r, m, u, asked) /\ ReadStage(r, m, u, fi, fw)
  BY <1>2
<1>4. Rests(fi, fw, m, u) /\ r.stock = Shown(Raised)
  BY <1>1, <1>3, NotSetting DEF ReadStage
<1>5. QED
  BY <1>3, <1>4 DEF Found

(* A stock-read that reaches its last line has put back the firmware's      *)
(* table, the mode and the user table it found, whatever the mode was.      *)
THEOREM ReadRestores == ASSUME Undisturbed, InRange PROVE Spec => []StockReadRestores
<1>1. CInv => StockReadRestores
  <2> SUFFICES ASSUME CInv, NEW w \in Scripts, At(w, "print")
               PROVE  /\ fw = run[w].before.fw
                      /\ Enable(fi) = Enable(run[w].before.fi)
                      /\ fi.user = run[w].before.fi.user
    BY DEF StockReadRestores
  <2> DEFINE b == run[w].before
  <2>1. PICK m \in Modes : \E u : Rests(b.fi, b.fw, m, u) /\ Rests(fi, fw, m, u)
    BY Printing
  <2>2. PICK u : Rests(b.fi, b.fw, m, u) /\ Rests(fi, fw, m, u)
    BY <2>1
  <2> HIDE DEF b
  <2>3. fw = Runs(m, u) /\ Enable(fi) = m /\ fi.user = u
    BY <2>2, RestsFacts
  <2>4. b.fw = Runs(m, u) /\ Enable(b.fi) = m /\ b.fi.user = u
    BY <2>2, RestsFacts
  <2>5. QED
    BY <2>3, <2>4 DEF b
<1>2. QED
  BY <1>1, CurveInvariance, PTL

(* What it prints is the card's stock table, each speed raised to the       *)
(* minimum; reading a speed as pwm and back as percent loses nothing.       *)
THEOREM ReadPrintsStock == ASSUME Undisturbed, InRange PROVE Spec => []PrintsStock
<1>1. CInv => PrintsStock
  <2> SUFFICES ASSUME CInv, NEW w \in Scripts, At(w, "print"), NEW p \in Slots
               PROVE  /\ run[w].stock[p][1] = Stock[p].temp
                      /\ Percent(run[w].stock[p][2]) = AtLeastMin(Stock[p].speed, fi)
    BY DEF PrintsStock
  <2>1. PICK m \in Modes : \E u : Rests(fi, fw, m, u) /\ run[w].stock = Shown(Raised)
    BY Printing
  <2>2. run[w].stock = Shown(Raised) /\ fi.min = MinPwm
    BY <2>1, RestsFacts
  <2> DEFINE y == Floor(Stock[p].speed)
  <2>3. Raised[p].temp = Stock[p].temp /\ Raised[p].speed = y
    BY DEF Raised
  <2>4. y \in MinPwm..100
    BY <2>3, NiceTables DEF Nice
  <2>5. AtLeastMin(Stock[p].speed, fi) = y
    BY <2>2 DEF AtLeastMin, Floor
  <2> HIDE DEF y
  <2>6. y \in 0..100
    BY <2>4, Ranges
  <2>7. Percent(PwmShown(y)) = y
    BY <2>6, RoundTrip
  <2>8. Shown(Raised)[p] = <<Stock[p].temp, PwmShown(y)>>
    BY <2>3 DEF Shown
  <2>9. QED
    BY <2>2, <2>5, <2>7, <2>8
<1>2. QED
  BY <1>1, CurveInvariance, PTL
=============================================================================
