---------------------------- MODULE WinOcTabProofs ----------------------------
(***************************************************************************)
(* Proofs about WinOcTab: the types, that curves are sound and that locked  *)
(* settings are not saved, for any cards, knobs and curves, any number of   *)
(* points and anchors, and whatever the GUI, the command line and the       *)
(* service do, however long.                                                *)
(***************************************************************************)
EXTENDS WinOcTab, SequenceTheorems, WellFoundedInduction, TLAPS

(* Smallest and largest elements *)
LEMMA MinIsThere ==
  ASSUME NEW S, S \subseteq Nat, S # {}
  PROVE  Min(S) \in S /\ \A y \in S : Min(S) <= y
<1>1. PICK x \in S : \A y \in S : ~(<<y, x>> \in OpToRel(<, Nat))
  BY NatLessThanWellFounded, WFMin
<1>2. \A y \in S : x <= y
  <2> SUFFICES ASSUME NEW y \in S, ~(x <= y) PROVE FALSE
    OBVIOUS
  <2>1. y \in Nat /\ x \in Nat /\ y < x
    OBVIOUS
  <2>2. <<y, x>> \in OpToRel(<, Nat)
    BY <2>1 DEF OpToRel
  <2>3. QED
    BY <1>1, <2>2
<1>3. QED
  BY <1>2 DEF Min

LEMMA MaxIsThere ==
  ASSUME NEW S, S \subseteq Int, NEW x \in S, \A y \in S : y <= x
  PROVE  Max(S) = x
<1>1. Max(S) \in S /\ \A y \in S : Max(S) >= y
  BY DEF Max
<1> DEFINE m == Max(S)
<1> HIDE DEF m
<1>2. m \in S /\ m >= x /\ m <= x
  BY <1>1 DEF m
<1>3. m = x
  BY <1>2
<1>4. QED
  BY <1>3 DEF m

(* The highest of the first elements is one of them *)
LEMMA MaxOfFirst ==
  ASSUME NEW x, NEW n \in Nat, \A j \in 1..n : x[j] \in Int, NEW i \in 1..n
  PROVE  /\ Max({x[j] : j \in 1..i}) \in {x[j] : j \in 1..i}
         /\ \A j \in 1..i : x[j] <= Max({x[j2] : j2 \in 1..i})
<1> DEFINE Highest(j, m) == j \in 1..m /\ \A l \in 1..m : x[l] <= x[j]
           Bad == {m \in 1..n : ~\E j \in 1..m : Highest(j, m)}
<1>1. Bad = {}
  <2> SUFFICES ASSUME Bad # {} PROVE FALSE
    OBVIOUS
  <2>1. Bad \subseteq Nat
    OBVIOUS
  <2>2. PICK m \in Bad : \A y \in Bad : m <= y
    BY <2>1, MinIsThere
  <2>3. m \in 1..n /\ ~\E j \in 1..m : Highest(j, m)
    OBVIOUS
  <2>4. CASE m = 1
    <3>1. Highest(1, 1)
      BY <2>4
    <3>2. QED
      BY <2>3, <2>4, <3>1
  <2>5. CASE m # 1
    <3>1. m - 1 \in 1..n
      BY <2>3, <2>5
    <3>2. m - 1 \notin Bad
      <4> HIDE DEF Bad
      <4>1. ~(m <= m - 1)
        BY <2>3
      <4>2. QED
        BY <2>2, <4>1
    <3>3. PICK j \in 1..(m - 1) : Highest(j, m - 1)
      BY <3>1, <3>2
    <3>4. /\ m \in Nat /\ j \in 1..n /\ x[j] \in Int /\ x[m] \in Int
          /\ 1..m = (1..(m - 1)) \cup {m}
      <4> HIDE DEF Highest
      <4>1. QED
        BY <2>3, <2>5
    <3>5. CASE x[m] <= x[j]
      <4>1. Highest(j, m)
        BY <3>3, <3>4, <3>5
      <4>2. QED
        BY <2>3, <4>1
    <3>6. CASE x[j] < x[m]
      <4>1. \A l \in 1..m : x[l] \in Int
        BY <2>3
      <4>2. \A l \in 1..(m - 1) : x[l] <= x[j]
        BY <3>3
      <4>3. ASSUME NEW l \in 1..m PROVE x[l] <= x[m]
        <5>1. CASE l = m
          BY <3>4, <5>1
        <5>2. CASE l \in 1..(m - 1)
          <6>1. x[l] \in Int /\ x[l] <= x[j]
            BY <4>1, <4>2, <5>2
          <6>2. QED
            BY <3>4, <3>6, <6>1
        <5>3. QED
          BY <3>4, <5>1, <5>2
      <4>4. Highest(m, m)
        BY <3>4, <4>3
      <4>5. QED
        BY <2>3, <4>4
    <3>7. QED
      BY <3>4, <3>5, <3>6
  <2>6. QED
    BY <2>4, <2>5
<1>2. PICK j \in 1..i : Highest(j, i)
  BY <1>1
<1> DEFINE S == {x[l] : l \in 1..i}
<1>3. S \subseteq Int /\ x[j] \in S /\ \A y \in S : y <= x[j]
  BY <1>2
<1>4. Max(S) = x[j]
  BY <1>3, MaxIsThere
<1>5. QED
  BY <1>2, <1>3, <1>4

LEMMA MaxBelow ==
  ASSUME NEW n \in Nat, NEW S, S \subseteq 0..n, S # {}
  PROVE  Max(S) \in S /\ \A y \in S : y <= Max(S)
<1> DEFINE T == {n - y : y \in S}
<1>1. T \subseteq Nat /\ T # {}
  <2>1. \A y \in S : n - y \in Nat
    OBVIOUS
  <2>2. QED
    BY <2>1
<1>2. PICK y \in S : n - y = Min(T)
  BY <1>1, MinIsThere
<1>3. \A z \in S : z <= y
  <2> SUFFICES ASSUME NEW z \in S PROVE z <= y
    OBVIOUS
  <2>1. n - z \in T
    OBVIOUS
  <2>2. n - y <= n - z
    BY <1>1, <1>2, <2>1, MinIsThere
  <2>3. y \in Nat /\ z \in Nat
    OBVIOUS
  <2>4. QED
    BY <2>2, <2>3
<1>4. S \subseteq Int
  OBVIOUS
<1>5. Max(S) = y
  BY <1>3, <1>4, MaxIsThere
<1>6. QED
  BY <1>3, <1>5

(* A quotient of at most m *)
LEMMA Quotient ==
  ASSUME NEW a \in Nat, NEW b \in Nat, b > 0, NEW m \in Nat, a <= b * m
  PROVE  a \div b \in 0..m
<1> DEFINE q == a \div b
<1>1. q \in Int /\ b * q <= a /\ a < b * q + b
  OBVIOUS
<1>2. q >= 0
  <2> SUFFICES ASSUME q + 1 <= 0 PROVE FALSE
    BY <1>1
  <2>1. b * (q + 1) <= 0
    BY <1>1
  <2>2. QED
    BY <1>1, <2>1
<1>3. q <= m
  <2> SUFFICES ASSUME q >= m + 1 PROVE FALSE
    BY <1>1
  <2>1. b * q >= b * (m + 1)
    BY <1>1
  <2>2. QED
    BY <1>1, <2>1
<1>4. QED
  BY <1>1, <1>2, <1>3

LEMMA QuotientExact ==
  ASSUME NEW b \in Nat, b > 0, NEW m \in Nat
  PROVE  (b * m) \div b = m
<1> DEFINE q == (b * m) \div b
<1>1. q \in Int /\ b * q <= b * m /\ b * m < b * q + b /\ b * m \in Nat
  OBVIOUS
<1>2. q \in 0..m
  BY <1>1, Quotient
<1>3. q >= m
  <2> SUFFICES ASSUME q + 1 <= m PROVE FALSE
    BY <1>1
  <2>1. b * (q + 1) <= b * m
    BY <1>1
  <2>2. QED
    BY <1>1, <2>1
<1>4. QED
  BY <1>2, <1>3
-----------------------------------------------------------------------------
(* Anchors go from the first point to the last *)
LEMMA AnchorsFromEndToEnd ==
  ASSUME NEW n \in Nat, n >= 2
  PROVE  \E k \in Nat : /\ k >= 2 /\ DOMAIN Anchors(n) = 1..k
                        /\ \A a \in 1..k : Anchors(n)[a] \in 1..n
                        /\ Anchors(n)[1] = 1 /\ Anchors(n)[k] = n
<1> DEFINE k == Min({MaxAnchors, n})
<1>1. k \in Nat /\ k >= 2
  <2>1. MaxAnchors \in Nat /\ MaxAnchors >= 2
    BY CardAssumption DEF CardAssumption
  <2>2. {MaxAnchors, n} \subseteq Nat /\ {MaxAnchors, n} # {}
    BY <2>1
  <2>3. k \in {MaxAnchors, n}
    BY <2>2, MinIsThere
  <2>4. QED
    BY <2>1, <2>3
<1>2. Anchors(n) = [a \in 1..k |-> 1 + ((a - 1) * (n - 1)) \div (k - 1)]
  BY DEF Anchors
<1> HIDE DEF k
<1>3. ASSUME NEW a \in 1..k PROVE Anchors(n)[a] \in 1..n
  <2>1. /\ a - 1 \in Nat /\ n - 1 \in Nat /\ k - 1 \in Nat /\ k - 1 > 0 /\ a - 1 <= k - 1
    BY <1>1
  <2>2. (a - 1) * (n - 1) \in Nat /\ (a - 1) * (n - 1) <= (k - 1) * (n - 1)
    BY <2>1
  <2>3. ((a - 1) * (n - 1)) \div (k - 1) \in 0..(n - 1)
    BY <2>1, <2>2, Quotient
  <2>4. QED
    BY <1>2, <2>3
<1>4. Anchors(n)[1] = 1
  <2>1. (1 - 1) * (n - 1) = 0
    OBVIOUS
  <2>2. 0 <= (k - 1) * 0 /\ k - 1 \in Nat /\ k - 1 > 0
    BY <1>1
  <2>3. 0 \div (k - 1) \in 0..0
    BY <2>2, Quotient
  <2>4. QED
    BY <1>1, <1>2, <2>1, <2>3
<1>5. Anchors(n)[k] = n
  <2>1. ((k - 1) * (n - 1)) \div (k - 1) = n - 1
    <3>1. k - 1 \in Nat /\ k - 1 > 0 /\ n - 1 \in Nat
      BY <1>1
    <3>2. QED
      BY <3>1, QuotientExact
  <2>2. QED
    BY <1>1, <1>2, <2>1
<1>6. DOMAIN Anchors(n) = 1..k
  BY <1>2
<1>7. QED
  BY <1>1, <1>3, <1>4, <1>5, <1>6

(* A point of the straight line lies between its ends *)
LEMMA BetweenEnds ==
  ASSUME NEW x \in Int, NEW y \in Int, NEW num \in Nat, NEW den \in Nat, den > 0, num <= den
  PROVE  Between(x, y, num, den) \in (IF x <= y THEN x..y ELSE y..x)
<1> DEFINE m == x * den + (y - x) * num
           t == 2 * m + den
           q == t \div (2 * den)
<1>1. Between(x, y, num, den) = q
  BY DEF Between
<1>2. m \in Int /\ t \in Int /\ 2 * den \in Nat /\ 2 * den > 0
  OBVIOUS
<1> DEFINE l == IF x <= y THEN x ELSE y
           h == IF x <= y THEN y ELSE x
<1>3. l * den <= m /\ m <= h * den
  <2>1. ASSUME NEW d \in Nat PROVE 0 <= d * num /\ d * num <= d * den
    OBVIOUS
  <2>2. CASE x <= y
    <3>1. 0 <= (y - x) * num /\ (y - x) * num <= (y - x) * den
      BY <2>1, <2>2
    <3>2. (y - x) * den = y * den - x * den
      OBVIOUS
    <3>3. x * den <= m /\ m <= y * den
      BY <3>1, <3>2
    <3>4. QED
      BY <2>2, <3>3
  <2>3. CASE y < x
    <3>1. 0 <= (x - y) * num /\ (x - y) * num <= (x - y) * den
      BY <2>1, <2>3
    <3>2. (x - y) * den = x * den - y * den /\ (y - x) * num = -((x - y) * num)
      OBVIOUS
    <3>3. y * den <= m /\ m <= x * den
      BY <3>1, <3>2
    <3>4. QED
      BY <2>3, <3>3
  <2>4. QED
    BY <2>2, <2>3
<1>4. l \in Int /\ h \in Int /\ l..h = IF x <= y THEN x..y ELSE y..x
  OBVIOUS
<1> HIDE DEF l, h
<1> HIDE DEF m
<1>5. 2 * (l * den) + den <= t /\ t <= 2 * (h * den) + den
  BY <1>2, <1>3, <1>4
<1> HIDE DEF t
<1>6. q \in Int /\ (2 * den) * q <= t /\ t < (2 * den) * q + 2 * den
  BY <1>2
<1> HIDE DEF q
<1>7. l <= q
  <2> SUFFICES ASSUME q + 1 <= l PROVE FALSE
    BY <1>4, <1>6
  <2>1. (2 * den) * (q + 1) <= (2 * den) * l
    BY <1>4, <1>6
  <2>2. (2 * den) * (q + 1) = (2 * den) * q + 2 * den /\ (2 * den) * l = 2 * (l * den)
    BY <1>4, <1>6
  <2>3. QED
    BY <1>2, <1>4, <1>5, <1>6, <2>1, <2>2
<1>8. q <= h
  <2> SUFFICES ASSUME h + 1 <= q PROVE FALSE
    BY <1>4, <1>6
  <2>1. (2 * den) * (h + 1) <= (2 * den) * q
    BY <1>4, <1>6
  <2>2. (2 * den) * (h + 1) = 2 * (h * den) + 2 * den
    BY <1>4
  <2>3. QED
    BY <1>2, <1>4, <1>5, <1>6, <2>1, <2>2
<1>9. QED
  BY <1>1, <1>4, <1>6, <1>7, <1>8

(* The voltage of an anchor stays, and that of a point between two anchors  *)
(* comes to lie between theirs.                                             *)
FromAnchor(mv, i, a) ==
  LET at == Anchors(Len(mv))
      z  == Interpolated(mv)[i]
  IN \/ at[a] = i /\ z = mv[i]
     \/ /\ a + 1 \in DOMAIN at /\ at[a] < i /\ i <= at[a + 1]
        /\ \E j, l \in {at[a], at[a + 1]} : mv[j] <= z /\ z <= mv[l]

LEMMA InterpolatedFromAnchors ==
  ASSUME NEW mv \in Seq(Nat), Len(mv) >= 2
  PROVE  /\ DOMAIN Interpolated(mv) = 1..Len(mv)
         /\ \A i \in 1..Len(mv) : /\ Interpolated(mv)[i] \in Nat
                                  /\ \E a \in DOMAIN Anchors(Len(mv)) : FromAnchor(mv, i, a)
         /\ \A a \in DOMAIN Anchors(Len(mv)) :
              Interpolated(mv)[Anchors(Len(mv))[a]] = mv[Anchors(Len(mv))[a]]
<1> DEFINE n == Len(mv)
           at == Anchors(n)
           Before(i) == {b \in DOMAIN at : at[b] < i}
<1>1. n \in Nat /\ n >= 2 /\ DOMAIN mv = 1..n /\ \A i \in 1..n : mv[i] \in Nat
  OBVIOUS
<1>2. Interpolated(mv) =
        [i \in DOMAIN mv |-> IF i \in ToSet(at) THEN mv[i]
           ELSE Between(mv[at[Max(Before(i))]], mv[at[Max(Before(i)) + 1]],
                        i - at[Max(Before(i))], at[Max(Before(i)) + 1] - at[Max(Before(i))])]
  BY DEF Interpolated
<1> HIDE DEF n
<1>3. PICK k \in Nat : /\ k >= 2 /\ DOMAIN at = 1..k
                       /\ \A a \in 1..k : at[a] \in 1..n
                       /\ at[1] = 1 /\ at[k] = n
  BY <1>1, AnchorsFromEndToEnd
<1> HIDE DEF at
<1>4. ASSUME NEW i \in 1..n
      PROVE  /\ Interpolated(mv)[i] \in Nat
             /\ \E a \in 1..k :
                  \/ at[a] = i /\ Interpolated(mv)[i] = mv[i]
                  \/ /\ a + 1 \in 1..k /\ at[a] < i /\ i <= at[a + 1]
                     /\ \E j, l \in {at[a], at[a + 1]} :
                          mv[j] <= Interpolated(mv)[i] /\ Interpolated(mv)[i] <= mv[l]
  <2>1. CASE i \in ToSet(at)
    <3>1. Interpolated(mv)[i] = mv[i]
      BY <1>1, <1>2, <2>1
    <3>2. \E a \in 1..k : at[a] = i
      BY <1>3, <2>1 DEF ToSet
    <3>3. QED
      BY <1>1, <3>1, <3>2
  <2>2. CASE i \notin ToSet(at)
    <3> DEFINE a == Max(Before(i))
    <3>1. \A b \in 1..k : at[b] # i
      BY <1>3, <2>2 DEF ToSet
    <3>2. 1 \in Before(i) /\ Before(i) \subseteq 0..k
      BY <1>1, <1>3, <3>1
    <3>3. a \in Before(i) /\ \A b \in Before(i) : b <= a
      <4> HIDE DEF Before
      <4>1. QED
        BY <3>2, MaxBelow
    <3>4. Interpolated(mv)[i] = Between(mv[at[a]], mv[at[a + 1]], i - at[a], at[a + 1] - at[a])
      BY <1>1, <1>2, <2>2
    <3> HIDE DEF a
    <3>5. a \in 1..k /\ at[a] < i /\ at[a] \in 1..n
      BY <1>3, <3>3
    <3>6. a # k
      BY <1>1, <1>3, <3>5
    <3>7. a + 1 \in 1..k /\ at[a + 1] \in 1..n
      BY <1>3, <3>5, <3>6
    <3>8. ~(at[a + 1] < i)
      <4> SUFFICES ASSUME at[a + 1] < i PROVE FALSE
        OBVIOUS
      <4>1. a + 1 \in Before(i)
        BY <1>3, <3>7
      <4>2. a + 1 <= a
        BY <3>3, <4>1
      <4>3. QED
        BY <3>5, <4>2
    <3> DEFINE num == i - at[a]
               den == at[a + 1] - at[a]
               x == mv[at[a]]
               y == mv[at[a + 1]]
    <3>9. num \in Nat /\ den \in Nat /\ den > 0 /\ num <= den
      <4> DEFINE u == at[a]
                 v == at[a + 1]
      <4>1. u \in Nat /\ v \in Nat /\ i \in Nat
        BY <1>1, <3>5, <3>7
      <4>4. u < i /\ ~(v < i)
        BY <3>5, <3>8
      <4>2. num = i - u /\ den = v - u
        OBVIOUS
      <4> HIDE DEF u, v, num, den
      <4>3. QED
        BY <4>1, <4>2, <4>4
    <3>10. x \in Nat /\ y \in Nat
      BY <1>1, <3>5, <3>7
    <3>11. Interpolated(mv)[i] = Between(x, y, num, den)
      BY <3>4
    <3>12. x = mv[at[a]] /\ y = mv[at[a + 1]]
      OBVIOUS
    <3> HIDE DEF x, y, num, den
    <3>13. Between(x, y, num, den) \in (IF x <= y THEN x..y ELSE y..x)
      <4>1. x \in Int /\ y \in Int
        BY <3>10
      <4>2. QED
        BY <3>9, <4>1, BetweenEnds, Zenon
    <3> DEFINE z == Interpolated(mv)[i]
    <3>14. z \in (IF x <= y THEN x..y ELSE y..x)
      BY <3>11, <3>13
    <3>15. \E j, l \in {at[a], at[a + 1]} : mv[j] <= z /\ z <= mv[l]
      <4> HIDE DEF z
      <4>1. CASE x <= y
        <5>1. x <= z /\ z <= y
          BY <3>10, <3>14, <4>1
        <5>2. QED
          BY <3>12, <5>1
      <4>2. CASE ~(x <= y)
        <5>1. y <= z /\ z <= x
          BY <3>10, <3>14, <4>2
        <5>2. QED
          BY <3>12, <5>1
      <4>3. QED
        BY <4>1, <4>2
    <3>16. z \in Nat
      <4> HIDE DEF z
      <4>1. QED
        BY <3>10, <3>14
    <3>17. i <= at[a + 1]
      BY <1>1, <3>7, <3>8
    <3>18. QED
      BY <3>5, <3>7, <3>15, <3>16, <3>17
  <2>3. QED
    BY <2>1, <2>2
<1>5. DOMAIN Interpolated(mv) = 1..n
  BY <1>1, <1>2
<1>6. \A a \in 1..k : Interpolated(mv)[at[a]] = mv[at[a]]
  BY <1>1, <1>2, <1>3 DEF ToSet
<1>7. QED
  BY <1>3, <1>4, <1>5, <1>6 DEF FromAnchor, n, at

LEMMA InterpolatedWithin ==
  ASSUME NEW mv \in Seq(Nat), Len(mv) >= 2, NEW i \in 1..Len(mv)
  PROVE  \E j, l \in 1..Len(mv) : mv[j] <= Interpolated(mv)[i] /\ Interpolated(mv)[i] <= mv[l]
<1> DEFINE n == Len(mv)
           at == Anchors(n)
           z == Interpolated(mv)[i]
<1>1. n \in Nat /\ n >= 2
  OBVIOUS
<1>2. \A a \in DOMAIN at : at[a] \in 1..n
  BY <1>1, AnchorsFromEndToEnd
<1>3. PICK a \in DOMAIN at : FromAnchor(mv, i, a)
  BY InterpolatedFromAnchors
<1>4. \/ z = mv[i]
      \/ a + 1 \in DOMAIN at /\ \E j, l \in {at[a], at[a + 1]} : mv[j] <= z /\ z <= mv[l]
  BY <1>3 DEF FromAnchor
<1>5. mv[i] \in Nat
  OBVIOUS
<1> HIDE DEF at, z, n
<1>6. CASE z = mv[i]
  BY <1>5, <1>6 DEF z
<1>7. CASE a + 1 \in DOMAIN at /\ \E j, l \in {at[a], at[a + 1]} : mv[j] <= z /\ z <= mv[l]
  BY <1>2, <1>7 DEF z, n
<1>8. QED
  BY <1>4, <1>6, <1>7

(* However an anchor was moved: the curve that is made of it keeps its      *)
(* number of points, none of them is below one before it, and each is       *)
(* between two of the points that it is made of.                            *)
LEMMA ReinterpRises ==
  ASSUME NEW mv \in Seq(Nat), Len(mv) >= 2
  PROVE  /\ Reinterp(mv) \in Seq(Nat) /\ Len(Reinterp(mv)) = Len(mv)
         /\ \A i \in 2..Len(mv) : Reinterp(mv)[i - 1] <= Reinterp(mv)[i]
         /\ \A i \in 1..Len(mv) :
              \E j, l \in 1..Len(mv) : mv[j] <= Reinterp(mv)[i] /\ Reinterp(mv)[i] <= mv[l]
<1> DEFINE n == Len(mv)
           x == Interpolated(mv)
<1>1. n \in Nat /\ n >= 2
  OBVIOUS
<1>2. DOMAIN x = 1..n /\ \A i \in 1..n : x[i] \in Nat
  BY InterpolatedFromAnchors
<1>3. \A i \in 1..n : \E j, l \in 1..n : mv[j] <= x[i] /\ x[i] <= mv[l]
  BY InterpolatedWithin
<1>4. Reinterp(mv) = [i \in DOMAIN x |-> Max({x[j] : j \in 1..i})]
  BY DEF Reinterp
<1> HIDE DEF n, x
<1>5. ASSUME NEW i \in 1..n
      PROVE  /\ \E j \in 1..i : Reinterp(mv)[i] = x[j]
             /\ \A j \in 1..i : x[j] <= Reinterp(mv)[i]
  <2>1. Reinterp(mv)[i] = Max({x[j] : j \in 1..i})
    BY <1>2, <1>4
  <2>2. \A j \in 1..n : x[j] \in Int
    BY <1>2
  <2>3. /\ Max({x[j] : j \in 1..i}) \in {x[j] : j \in 1..i}
        /\ \A j \in 1..i : x[j] <= Max({x[j2] : j2 \in 1..i})
    BY <1>1, <2>2, MaxOfFirst
  <2>4. QED
    BY <2>1, <2>3
<1>6. ASSUME NEW i \in 1..n
      PROVE  /\ Reinterp(mv)[i] \in Nat
             /\ \E j, l \in 1..n : mv[j] <= Reinterp(mv)[i] /\ Reinterp(mv)[i] <= mv[l]
  <2>1. PICK j \in 1..i : Reinterp(mv)[i] = x[j]
    BY <1>5
  <2>2. j \in 1..n
    BY <1>1
  <2>3. QED
    BY <1>2, <1>3, <2>1, <2>2
<1>7. ASSUME NEW i \in 2..n PROVE Reinterp(mv)[i - 1] <= Reinterp(mv)[i]
  <2>1. i \in 1..n /\ i - 1 \in 1..n
    BY <1>1
  <2>2. PICK j \in 1..(i - 1) : Reinterp(mv)[i - 1] = x[j]
    BY <1>5, <2>1
  <2>3. j \in 1..i
    BY <2>1
  <2>4. QED
    BY <1>5, <2>1, <2>2, <2>3
<1>8. Reinterp(mv) \in [1..n -> Nat]
  BY <1>2, <1>4, <1>6
<1>9. Reinterp(mv) \in Seq(Nat) /\ Len(Reinterp(mv)) = n
  BY <1>1, <1>8
<1>10. QED
  BY <1>6, <1>7, <1>9 DEF n
LEMMA QuotientRises ==
  ASSUME NEW b \in Nat, b > 0, NEW x \in Nat, NEW y \in Nat, y >= x + b
  PROVE  x \div b < y \div b
<1> DEFINE p == x \div b
           q == y \div b
<1>1. p \in Int /\ q \in Int /\ b * p <= x /\ y < b * q + b
  OBVIOUS
<1> HIDE DEF p, q
<1>2. p < q
  <2> SUFFICES ASSUME q <= p PROVE FALSE
    BY <1>1
  <2>1. b * q <= b * p
    BY <1>1
  <2>2. b * p \in Int /\ b * q \in Int
    BY <1>1
  <2>3. QED
    BY <1>1, <2>1, <2>2
<1>3. QED
  BY <1>2 DEF p, q

(* No two anchors are the same point *)
LEMMA AnchorsRise ==
  ASSUME NEW n \in Nat, n >= 2, NEW a \in DOMAIN Anchors(n), NEW b \in DOMAIN Anchors(n), a < b
  PROVE  Anchors(n)[a] < Anchors(n)[b]
<1> DEFINE k == Min({MaxAnchors, n})
           x == (a - 1) * (n - 1)
           y == (b - 1) * (n - 1)
<1>1. k \in Nat /\ k >= 2 /\ k <= n
  <2>1. MaxAnchors \in Nat /\ MaxAnchors >= 2
    BY CardAssumption DEF CardAssumption
  <2>2. {MaxAnchors, n} \subseteq Nat /\ {MaxAnchors, n} # {}
    BY <2>1
  <2>3. k \in {MaxAnchors, n} /\ \A m \in {MaxAnchors, n} : k <= m
    BY <2>2, MinIsThere
  <2>4. QED
    BY <2>1, <2>3
<1>2. Anchors(n) = [c \in 1..k |-> 1 + ((c - 1) * (n - 1)) \div (k - 1)]
  BY DEF Anchors
<1> HIDE DEF k
<1>3. a \in 1..k /\ b \in 1..k
  BY <1>2
<1>4. Anchors(n)[a] = 1 + x \div (k - 1) /\ Anchors(n)[b] = 1 + y \div (k - 1)
  BY <1>2, <1>3
<1>5. x \in Nat /\ y \in Nat /\ y >= x + (k - 1)
  <2>1. a - 1 \in Nat /\ b - 1 \in Nat /\ n - 1 \in Nat /\ a <= b - 1
    BY <1>1, <1>3
  <2>2. a * (n - 1) <= (b - 1) * (n - 1) /\ a * (n - 1) = x + (n - 1)
    BY <1>3, <2>1
  <2>3. x \in Nat /\ y \in Nat
    BY <2>1
  <2> HIDE DEF x, y
  <2>4. x + (n - 1) <= y
    BY <2>2 DEF y
  <2>5. QED
    BY <1>1, <2>3, <2>4
<1>6. k - 1 \in Nat /\ k - 1 > 0
  BY <1>1
<1> HIDE DEF x, y
<1>7. x \div (k - 1) < y \div (k - 1)
  BY <1>5, <1>6, QuotientRises
<1>8. x \div (k - 1) \in Int /\ y \div (k - 1) \in Int
  BY <1>5, <1>6
<1>9. QED
  BY <1>4, <1>7, <1>8

LEMMA RisesThroughout ==
  ASSUME NEW mv \in Seq(Nat), \A i \in 2..Len(mv) : mv[i - 1] <= mv[i],
         NEW i \in 1..Len(mv), NEW j \in 1..Len(mv), i <= j
  PROVE  mv[i] <= mv[j]
<1> DEFINE n == Len(mv)
           Bad == {m \in i..n : ~(mv[i] <= mv[m])}
<1>1. n \in Nat /\ \A m \in 1..n : mv[m] \in Nat
  OBVIOUS
<1>2. \A m \in 2..n : mv[m - 1] <= mv[m]
  OBVIOUS
<1> HIDE DEF n
<1>3. Bad = {}
  <2> SUFFICES ASSUME Bad # {} PROVE FALSE
    OBVIOUS
  <2>1. i \in Nat /\ i >= 1 /\ i <= n
    BY <1>1 DEF n
  <2>2. Bad \subseteq Nat
    BY <1>1, <2>1
  <2>3. PICK m \in Bad : \A y \in Bad : m <= y
    <3> HIDE DEF Bad
    <3>1. QED
      BY <2>2, MinIsThere
  <2>4. m \in i..n /\ m \in 1..n /\ ~(mv[i] <= mv[m])
    BY <1>1, <2>1
  <2>5. m # i
    BY <1>1, <2>4
  <2>6. m - 1 \in i..n /\ m \in 2..n /\ m - 1 \in 1..n /\ i \in 1..n
    BY <1>1, <2>1, <2>4, <2>5
  <2>7. m - 1 \notin Bad
    <3> HIDE DEF Bad
    <3>1. ~(m <= m - 1)
      BY <2>4
    <3>2. QED
      BY <2>3, <3>1
  <2>8. mv[i] <= mv[m - 1] /\ mv[m - 1] <= mv[m]
    BY <1>2, <2>6, <2>7
  <2>9. mv[i] \in Nat /\ mv[m - 1] \in Nat /\ mv[m] \in Nat
    BY <1>1, <2>6
  <2> HIDE DEF Bad
  <2>10. ~(mv[i] <= mv[m])
    BY <2>4
  <2>11. QED
    BY <2>8, <2>9, <2>10
<1>4. j \in i..n
  BY DEF n
<1>5. QED
  BY <1>3, <1>4

(* An anchor ends up at the highest of the anchors up to it *)
LEMMA ReinterpAtAnchors ==
  ASSUME NEW mv \in Seq(Nat), Len(mv) >= 2, NEW b \in DOMAIN Anchors(Len(mv))
  PROVE  /\ Reinterp(mv)[Anchors(Len(mv))[b]] \in Nat
         /\ \E d \in 1..b : Reinterp(mv)[Anchors(Len(mv))[b]] = mv[Anchors(Len(mv))[d]]
         /\ \A d \in 1..b : mv[Anchors(Len(mv))[d]] <= Reinterp(mv)[Anchors(Len(mv))[b]]
<1> DEFINE n == Len(mv)
           at == Anchors(n)
           x == Interpolated(mv)
           r == Reinterp(mv)[at[b]]
<1>1. n \in Nat /\ n >= 2 /\ \A i \in 1..n : mv[i] \in Nat
  OBVIOUS
<1>2. PICK k \in Nat : DOMAIN at = 1..k /\ \A a \in 1..k : at[a] \in 1..n
  BY <1>1, AnchorsFromEndToEnd
<1>3. b \in 1..k /\ at[b] \in 1..n
  BY <1>2
<1>4. DOMAIN x = 1..n /\ (\A i \in 1..n : x[i] \in Nat) /\ \A a \in DOMAIN at : x[at[a]] = mv[at[a]]
  BY InterpolatedFromAnchors
<1>5. ASSUME NEW c \in DOMAIN at, NEW d \in DOMAIN at, c < d PROVE at[c] < at[d]
  BY <1>1, <1>5, AnchorsRise
<1>6. r = Max({x[j] : j \in 1..at[b]})
  BY <1>3, <1>4 DEF Reinterp
<1>7. \A i \in 1..n : \E a \in 1..k : FromAnchor(mv, i, a)
  BY <1>2, InterpolatedFromAnchors
<1>8. ASSUME NEW i \in 1..n, NEW a, FromAnchor(mv, i, a)
      PROVE  \/ at[a] = i /\ x[i] = mv[i]
             \/ /\ a + 1 \in DOMAIN at /\ at[a] < i /\ i <= at[a + 1]
                /\ \E l \in {at[a], at[a + 1]} : x[i] <= mv[l]
  BY <1>8 DEF FromAnchor
<1> HIDE DEF n, at, x, r
<1>9. /\ \E j \in 1..at[b] : r = x[j]
      /\ \A j \in 1..at[b] : x[j] <= r
  <2>1. \A j \in 1..n : x[j] \in Int
    BY <1>4
  <2>2. /\ Max({x[j] : j \in 1..at[b]}) \in {x[j] : j \in 1..at[b]}
        /\ \A j \in 1..at[b] : x[j] <= Max({x[j2] : j2 \in 1..at[b]})
    BY <1>1, <1>3, <2>1, MaxOfFirst
  <2>3. QED
    BY <1>6, <2>2
<1>10. ASSUME NEW c \in 1..k, NEW d \in 1..k, c <= d PROVE at[c] <= at[d] /\ at[c] \in Nat
  <2>1. at[c] \in Nat /\ at[d] \in Nat
    BY <1>1, <1>2
  <2>2. CASE c = d
    BY <2>1, <2>2
  <2>3. CASE c < d
    <3>1. at[c] < at[d]
      BY <1>2, <1>5, <2>3
    <3>2. QED
      BY <2>1, <3>1
  <2>4. QED
    BY <1>10, <2>2, <2>3
<1>11. r \in Nat
  <2>1. PICK j \in 1..at[b] : r = x[j]
    BY <1>9
  <2>2. j \in 1..n
    BY <1>1, <1>3
  <2>3. QED
    BY <1>4, <2>1, <2>2
<1>12. ASSUME NEW d \in 1..b PROVE mv[at[d]] <= r
  <2>1. d \in 1..k /\ d <= b
    BY <1>3
  <2>2. at[d] \in 1..at[b]
    BY <1>2, <1>3, <1>10, <2>1
  <2>3. x[at[d]] = mv[at[d]]
    BY <1>2, <1>4, <2>1
  <2>4. QED
    BY <1>9, <2>2, <2>3
<1>13. \E d \in 1..b : r = mv[at[d]]
  <2>1. PICK j \in 1..at[b] : r = x[j]
    BY <1>9
  <2>2. j \in 1..n /\ j <= at[b]
    BY <1>1, <1>3
  <2>3. PICK a \in 1..k : FromAnchor(mv, j, a)
    BY <1>7, <2>2
  <2>4. PICK d \in 1..b : x[j] <= mv[at[d]]
    <3>1. CASE at[a] = j /\ x[j] = mv[j]
      <4>1. a <= b
        <5> SUFFICES ASSUME b < a PROVE FALSE
          BY <1>3
        <5>1. at[b] < at[a]
          BY <1>2, <1>3, <1>5
        <5>2. QED
          BY <1>1, <1>3, <2>2, <3>1, <5>1
      <4>2. a \in 1..b
        BY <1>3, <4>1
      <4>3. x[j] <= mv[at[a]]
        BY <1>4, <2>2, <3>1
      <4>4. QED
        BY <4>2, <4>3
    <3>2. CASE /\ a + 1 \in DOMAIN at /\ at[a] < j /\ j <= at[a + 1]
               /\ \E l \in {at[a], at[a + 1]} : x[j] <= mv[l]
      <4>1. a < b
        <5> SUFFICES ASSUME b <= a PROVE FALSE
          BY <1>3
        <5>1. at[b] <= at[a] /\ at[b] \in Nat
          BY <1>3, <1>10
        <5>2. at[a] \in Nat
          BY <1>1, <1>2
        <5>3. QED
          BY <2>2, <3>2, <5>1, <5>2
      <4>2. a \in 1..b /\ a + 1 \in 1..b
        BY <1>3, <4>1
      <4>3. QED
        BY <3>2, <4>2
    <3>3. QED
      BY <1>8, <2>2, <2>3, <3>1, <3>2
  <2>5. mv[at[d]] <= r /\ mv[at[d]] \in Nat
    <3>1. d \in 1..k
      BY <1>3
    <3>2. QED
      BY <1>1, <1>2, <1>12, <3>1
  <2>6. QED
    BY <1>11, <2>1, <2>4, <2>5
<1>14. QED
  BY <1>11, <1>12, <1>13 DEF r, at, n

(* What moving an anchor does to the anchors of a curve that rises *)
AtAnchors(mv)     == LET at == Anchors(Len(mv)) IN [b \in DOMAIN at |-> mv[at[b]]]
Moved(mv, a, to)  == Reinterp([mv EXCEPT ![Anchors(Len(mv))[a]] = to])
MovedUp(mv, a, to, b) ==
  Moved(mv, a, to)[Anchors(Len(mv))[b]] =
    IF b < a THEN AtAnchors(mv)[b]
    ELSE IF b = a THEN Max({to} \cup {AtAnchors(mv)[d] : d \in 1..(a - 1)})
    ELSE Max({AtAnchors(mv)[b], Moved(mv, a, to)[Anchors(Len(mv))[a]]})

LEMMA DragAnchors ==
  ASSUME NEW mv \in Seq(Nat), Len(mv) >= 2, \A i \in 2..Len(mv) : mv[i - 1] <= mv[i],
         NEW a \in DOMAIN Anchors(Len(mv)), NEW to \in Nat, NEW b \in DOMAIN Anchors(Len(mv))
  PROVE  MovedUp(mv, a, to, b)
<1> DEFINE n == Len(mv)
           at == Anchors(n)
           moved == [mv EXCEPT ![at[a]] = to]
           new == Reinterp(moved)
           old == [c \in DOMAIN at |-> mv[at[c]]]
<1>1. n \in Nat /\ n >= 2 /\ \A i \in 1..n : mv[i] \in Nat
  OBVIOUS
<1>2. PICK k \in Nat : DOMAIN at = 1..k /\ \A c \in 1..k : at[c] \in 1..n
  BY <1>1, AnchorsFromEndToEnd
<1>3. a \in 1..k /\ b \in 1..k
  BY <1>2
<1>4. ASSUME NEW c \in 1..k, NEW d \in 1..k, c < d PROVE at[c] < at[d]
  BY <1>1, <1>2, <1>4, AnchorsRise
<1>5. ASSUME NEW c \in 1..k, NEW d \in 1..k, c <= d PROVE mv[at[c]] <= mv[at[d]]
  <2>1. at[c] \in 1..n /\ at[d] \in 1..n
    BY <1>2
  <2>2. at[c] <= at[d]
    <3>1. CASE c = d
      BY <1>1, <2>1, <3>1
    <3>2. CASE c < d
      BY <1>1, <1>4, <2>1, <3>2
    <3>3. QED
      BY <1>5, <3>1, <3>2
  <2>3. QED
    BY <2>1, <2>2, RisesThroughout
<1>6. /\ moved \in Seq(Nat) /\ Len(moved) = n
      /\ \A c \in 1..k : moved[at[c]] = IF c = a THEN to ELSE mv[at[c]]
  <2>1. at[a] \in 1..n
    BY <1>2, <1>3
  <2>2. moved \in Seq(Nat) /\ Len(moved) = n /\ \A i \in 1..n : moved[i] = IF i = at[a] THEN to ELSE mv[i]
    BY <1>1, <2>1
  <2>3. ASSUME NEW c \in 1..k, c # a PROVE at[c] # at[a]
    <3>1. at[c] \in Nat /\ at[a] \in Nat
      BY <1>1, <1>2, <1>3
    <3>2. c < a \/ a < c
      BY <1>3, <2>3
    <3>3. at[c] < at[a] \/ at[a] < at[c]
      BY <1>3, <1>4, <3>2
    <3>4. QED
      BY <3>1, <3>3
  <2> HIDE DEF moved, at, n
  <2>4. QED
    BY <1>2, <2>2, <2>3
<1>7. ASSUME NEW c \in 1..k
      PROVE  /\ new[at[c]] \in Nat /\ (\E d \in 1..c : new[at[c]] = moved[at[d]])
             /\ \A d \in 1..c : moved[at[d]] <= new[at[c]]
  <2>1. new = Reinterp(moved)
    OBVIOUS
  <2>2. c \in DOMAIN at /\ at = Anchors(Len(moved)) /\ Len(moved) >= 2
    BY <1>1, <1>2, <1>6
  <2>3. moved \in Seq(Nat)
    BY <1>6
  <2> HIDE DEF moved, at
  <2>4. /\ Reinterp(moved)[at[c]] \in Nat
        /\ \E d \in 1..c : Reinterp(moved)[at[c]] = moved[at[d]]
        /\ \A d \in 1..c : moved[at[d]] <= Reinterp(moved)[at[c]]
    BY <2>2, <2>3, ReinterpAtAnchors
  <2>5. QED
    BY <2>1, <2>4
<1>8. \A c \in 1..k : old[c] = mv[at[c]] /\ old[c] \in Nat
  BY <1>1, <1>2
<1>9. \A c \in 1..k : moved[at[c]] = IF c = a THEN to ELSE old[c]
  BY <1>6, <1>8
<1>10. \A c, d \in 1..k : c <= d => old[c] <= old[d]
  BY <1>5, <1>8
<1> DEFINE r(c) == new[at[c]]
           m(c) == moved[at[c]]
<1>11. \A c \in 1..k : r(c) \in Nat /\ (\E d \in 1..c : r(c) = m(d)) /\ \A d \in 1..c : m(d) <= r(c)
  BY <1>7
<1>12. \A c \in 1..k : m(c) = (IF c = a THEN to ELSE old[c])
  BY <1>9
<1>13. \A c \in 1..k : c \in Nat /\ \A d \in 1..c : d \in 1..k /\ d <= c
  OBVIOUS
<1> HIDE DEF r, m, old, new, moved, at, n
<1>14. CASE b < a
  <2>1. PICK d \in 1..b : r(b) = m(d)
    BY <1>3, <1>11
  <2>2. d \in 1..k /\ d <= b /\ d # a /\ b # a
    BY <1>3, <1>13, <1>14, <2>1
  <2>3. m(d) = old[d] /\ m(b) = old[b] /\ old[d] <= old[b]
    BY <1>3, <1>10, <1>12, <2>2
  <2>4. b \in 1..b
    BY <1>3
  <2>5. m(b) <= r(b)
    BY <1>3, <1>11, <2>4
  <2>8. r(b) \in Nat /\ old[b] \in Nat /\ old[d] \in Nat
    BY <1>3, <1>8, <1>11, <2>2
  <2>6. r(b) = old[b]
    BY <2>1, <2>3, <2>5, <2>8
  <2>7. QED
    BY <1>14, <2>6 DEF r, old, new, moved, at, n, MovedUp, Moved, AtAnchors
<1>15. CASE b = a
  <2> DEFINE S == {to} \cup {old[d] : d \in 1..(a - 1)}
  <2>1. \A d \in 1..(a - 1) : d \in 1..k /\ d # a /\ d \in 1..a
    BY <1>3
  <2>2. S \subseteq Int
    BY <1>8, <2>1
  <2>3. r(a) \in S
    <3>1. PICK d \in 1..a : r(a) = m(d)
      BY <1>3, <1>11
    <3>2. d = a \/ d \in 1..(a - 1)
      BY <1>3, <3>1
    <3>3. QED
      BY <1>3, <1>12, <2>1, <3>1, <3>2
  <2>4. \A y \in S : y <= r(a)
    <3>1. to <= r(a)
      <4>1. a \in 1..a
        BY <1>3
      <4>2. QED
        BY <1>3, <1>11, <1>12, <4>1
    <3>2. \A d \in 1..(a - 1) : old[d] <= r(a)
      BY <1>3, <1>11, <1>12, <2>1
    <3>3. QED
      BY <3>1, <3>2
  <2>5. Max(S) = r(a)
    <3> HIDE DEF S
    <3>1. QED
      BY <2>2, <2>3, <2>4, MaxIsThere
  <2>6. ~(b < a)
    BY <1>3, <1>15
  <2>7. QED
    BY <1>15, <2>5, <2>6 DEF r, old, new, moved, at, n, MovedUp, Moved, AtAnchors
<1>16. CASE a < b
  <2> DEFINE S == {old[b], r(a)}
  <2>1. r(a) \in Nat /\ r(b) \in Nat /\ old[b] \in Nat
    BY <1>3, <1>8, <1>11
  <2>2. old[b] <= r(b)
    <3>1. b \in 1..b /\ b # a
      BY <1>3, <1>16
    <3>2. QED
      BY <1>3, <1>11, <1>12, <3>1
  <2>3. r(a) <= r(b)
    <3>1. PICK d \in 1..a : r(a) = m(d)
      BY <1>3, <1>11
    <3>2. d \in 1..b
      BY <1>3, <1>16, <3>1
    <3>3. QED
      BY <1>3, <1>11, <3>1, <3>2
  <2>4. r(b) \in S
    <3>1. PICK d \in 1..b : r(b) = m(d)
      BY <1>3, <1>11
    <3>2. d \in 1..k /\ d <= b
      BY <1>3, <1>13, <3>1
    <3>3. CASE d <= a
      <4>1. d \in 1..a
        BY <1>3, <3>2, <3>3
      <4>2. m(d) <= r(a)
        BY <1>3, <1>11, <4>1
      <4>3. r(b) = r(a)
        BY <2>1, <2>3, <3>1, <4>2
      <4>4. QED
        BY <4>3
    <3>4. CASE a < d
      <4>1. d # a
        BY <1>3, <3>4
      <4>2. r(b) = old[d] /\ old[d] <= old[b]
        BY <1>3, <1>10, <1>12, <3>1, <3>2, <4>1
      <4>3. r(b) = old[b]
        BY <2>1, <2>2, <4>2
      <4>4. QED
        BY <4>3
    <3>5. QED
      BY <1>3, <3>2, <3>3, <3>4
  <2>5. S \subseteq Int /\ \A y \in S : y <= r(b)
    BY <2>1, <2>2, <2>3
  <2>6. Max(S) = r(b)
    <3> HIDE DEF S
    <3>1. QED
      BY <2>4, <2>5, MaxIsThere
  <2>7. ~(b < a) /\ b # a
    BY <1>3, <1>16
  <2>8. QED
    BY <2>6, <2>7 DEF r, old, new, moved, at, n, MovedUp, Moved, AtAnchors
<1>17. QED
  BY <1>3, <1>14, <1>15, <1>16
-----------------------------------------------------------------------------
(* The invariant.  The tab only ever shows curves of the model that is      *)
(* selected, and only those are saved for it: the curve on the tab is a     *)
(* saved one or the stock curve of the card, and it keeps what makes it     *)
(* sound while it is dragged.                                               *)

GuiState == [view : {"oc", "other"}, card : Cards, pos : [Knobs -> Int], gated : BOOLEAN,
             curveMode : BOOLEAN, edit : Curves, stock : Curves]
Settings == [knob : [Knobs -> Int], vf : Curves]

OnSliders(g) == \A k \in Knobs : g.pos[k] \in Low[k]..High[k]

EditInv(g) ==
  /\ g.edit # NoCurve => g.edit.of \in Cards /\ Sound(g.edit)
  /\ g.curveMode => Len(g.edit.mv) >= 2

TabInv(g) ==
  g.view = "oc" =>
    /\ g.edit # NoCurve => Key[g.edit.of] = Key[g.card]
    /\ g.stock # NoCurve => g.stock = [of |-> g.card, mv |-> StockVf[g.card]]
    /\ ~g.gated => Len(g.stock.mv) >= 2
    /\ g.card \in Locked => g.gated

GuiInv(g) == g \in GuiState /\ OnSliders(g) /\ EditInv(g) /\ TabInv(g)

CurveOf(x, k) == x # NoCurve => x.of \in Cards /\ Key[x.of] = k /\ Len(x.mv) >= 2 /\ Sound(x)

FileInv(f) ==
  /\ f \in [Keys -> Profiles \cup {Absent}]
  /\ \A k \in Keys : f[k] # Absent => CurveOf(f[k].vf, k)

NamedInv(p) == p = Absent \/ (p \in Profiles /\ p.vf = NoCurve)

SettingsInv(h) == h \in Settings /\ (h.vf.of # Nothing => Sound(h.vf))

HwInv(h) == h \in [Cards -> Settings] /\ \A c \in Cards : SettingsInv(h[c])

IInv == GuiInv(gui) /\ FileInv(file) /\ NamedInv(named) /\ HwInv(hw)

LEMMA NoCurveSound ==
  /\ NoCurve \in Curves /\ Sound(NoCurve) /\ \A k \in Keys : CurveOf(NoCurve, k)
  /\ NoCurve.of = Nothing /\ NoCurve.mv = <<>> /\ Len(NoCurve.mv) = 0
<1>1. NoCurve.of = Nothing /\ NoCurve.mv = <<>>
  BY DEF NoCurve
<1>2. <<>> \in Seq(Nat) /\ Len(<<>>) = 0
  OBVIOUS
<1>3. NoCurve \in Curves
  BY <1>2 DEF NoCurve, Curves
<1>4. Sound(NoCurve)
  BY DEF Sound
<1>5. QED
  BY <1>1, <1>2, <1>3, <1>4 DEF CurveOf

LEMMA BlankTyped == Blank \in Profiles /\ Blank.vf = NoCurve
  BY NoCurveSound DEF Blank, Profiles

LEMMA OnSliderInRange ==
  ASSUME NEW k \in Knobs, NEW v \in Int
  PROVE  OnSlider(k, v) \in Low[k]..High[k] /\ OnSlider(k, v) \in Int
<1>1. Low[k] \in Int /\ High[k] \in Int /\ Low[k] <= High[k]
  BY KnobAssumption DEF KnobAssumption
<1>2. QED
  BY <1>1 DEF OnSlider

(* The profile that is loaded for a card has no curve of another model      *)
LEMMA FindOfModel ==
  ASSUME FileInv(file), NEW c \in Cards
  PROVE  Find(Key[c]) \in Profiles /\ CurveOf(Find(Key[c]).vf, Key[c])
<1>1. Key[c] \in Keys /\ Default \in Keys
  BY CardAssumption DEF CardAssumption
<1>2. \A k \in Keys : file[k] # Absent => file[k] \in Profiles /\ CurveOf(file[k].vf, k)
  BY DEF FileInv
<1>3. ASSUME file[Default] # Absent PROVE file[Default].vf = NoCurve
  <2>1. CurveOf(file[Default].vf, Default)
    BY <1>1, <1>2, <1>3
  <2>2. \A d \in Cards : Key[d] # Default
    BY CardAssumption DEF CardAssumption
  <2>3. QED
    BY <2>1, <2>2 DEF CurveOf
<1>4. QED
  BY <1>1, <1>2, <1>3, NoCurveSound, BlankTyped DEF Find

LEMMA AppliedSound ==
  ASSUME NEW p \in Profiles, Sound(p.vf), NEW c \in Cards, NEW h, SettingsInv(h)
  PROVE  SettingsInv(Applied(p, c, h))
<1> DEFINE done == {k \in Knobs : p.knob[k] # Unset /\ Accepts(c, k)}
           knob == [k \in Knobs |-> IF k \in done THEN p.knob[k] ELSE h.knob[k]]
           vf   == IF p.vf # NoCurve /\ Accepts(c, "volt") THEN p.vf
                   ELSE IF "volt" \in done THEN NoCurve ELSE h.vf
<1>1. Applied(p, c, h) = IF ~p.apply THEN h ELSE [knob |-> knob, vf |-> vf]
  BY DEF Applied
<1>2. /\ h.knob \in [Knobs -> Int] /\ h.vf \in Curves /\ (h.vf.of # Nothing => Sound(h.vf))
      /\ p.knob \in [Knobs -> Int \cup {Unset}] /\ p.vf \in Curves
  BY DEF SettingsInv, Settings, Profiles
<1>3. knob \in [Knobs -> Int]
  <2>1. \A k \in Knobs : h.knob[k] \in Int /\ (k \in done => p.knob[k] \in Int)
    BY <1>2
  <2>2. QED
    BY <2>1
<1>4. vf \in Curves /\ (vf.of # Nothing => Sound(vf))
  BY <1>2, NoCurveSound
<1> HIDE DEF knob, vf
<1>5. SettingsInv([knob |-> knob, vf |-> vf])
  BY <1>3, <1>4 DEF SettingsInv, Settings
<1>6. QED
  BY <1>1, <1>5

(* The margins around a curve *)
LEMMA Margins ==
  ASSUME NEW mv \in Seq(Nat), mv # <<>>
  PROVE  /\ VfLow(mv) \in Nat /\ VfHigh(mv) \in Nat
         /\ \A i \in DOMAIN mv : mv[i] >= VfLow(mv) /\ mv[i] <= VfHigh(mv)
<1> DEFINE n == Len(mv)
           lo == Min(ToSet(mv))
           hi == Max(ToSet(mv))
<1>1. /\ n \in Nat /\ n >= 1 /\ DOMAIN mv = 1..n /\ \A j \in 1..n : mv[j] \in Nat
      /\ Above \in Nat /\ Below \in Nat
  BY CardAssumption DEF CardAssumption
<1> HIDE DEF n
<1>2. ToSet(mv) = {mv[j] : j \in 1..n}
  BY <1>1 DEF ToSet
<1>3. ToSet(mv) \subseteq Nat /\ \A i \in 1..n : mv[i] \in ToSet(mv)
  BY <1>1, <1>2
<1>4. 1 \in 1..n /\ n \in 1..n
  BY <1>1
<1>5. lo \in Nat /\ \A i \in 1..n : lo <= mv[i]
  BY <1>3, <1>4, MinIsThere
<1>6. hi \in Nat /\ \A i \in 1..n : mv[i] <= hi
  <2>1. \A j \in 1..n : mv[j] \in Int
    BY <1>1
  <2>2. /\ Max({mv[j] : j \in 1..n}) \in {mv[j] : j \in 1..n}
        /\ \A j \in 1..n : mv[j] <= Max({mv[j2] : j2 \in 1..n})
    BY <1>1, <1>4, <2>1, MaxOfFirst
  <2>3. QED
    BY <1>2, <1>3, <2>2
<1>7. VfLow(mv) = (IF lo > Below THEN lo - Below ELSE 0) /\ VfHigh(mv) = hi + Above
  BY DEF VfLow, VfHigh
<1> HIDE DEF lo, hi
<1>8. VfLow(mv) \in Nat /\ VfHigh(mv) \in Nat /\ VfLow(mv) <= lo /\ hi <= VfHigh(mv)
  BY <1>1, <1>5, <1>6, <1>7
<1> DEFINE low == VfLow(mv)
           high == VfHigh(mv)
<1> HIDE DEF low, high
<1>9. ASSUME NEW i \in 1..n PROVE mv[i] >= low /\ mv[i] <= high
  <2>1. /\ mv[i] \in Nat /\ lo \in Nat /\ hi \in Nat /\ lo <= mv[i] /\ mv[i] <= hi
        /\ low \in Nat /\ high \in Nat /\ low <= lo /\ hi <= high
    BY <1>1, <1>5, <1>6, <1>8 DEF low, high
  <2>2. QED
    BY <2>1
<1>10. QED
  BY <1>1, <1>8, <1>9 DEF low, high

(* The stock curve lies within the margins around itself *)
LEMMA StockSound ==
  ASSUME NEW c \in Cards
  PROVE  LET x == [of |-> c, mv |-> StockVf[c]] IN x \in Curves /\ Sound(x)
<1> DEFINE x == [of |-> c, mv |-> StockVf[c]]
           mv == StockVf[c]
<1>1. mv \in Seq(Nat) /\ mv # <<>> /\ \A i \in 2..Len(mv) : mv[i - 1] <= mv[i]
  BY CardAssumption DEF CardAssumption
<1>2. x.of = c /\ x.mv = mv /\ x \in Curves
  BY <1>1 DEF Curves
<1> HIDE DEF x, mv
<1>3. \A i \in DOMAIN mv : mv[i] >= VfLow(mv) /\ mv[i] <= VfHigh(mv)
  BY <1>1, Margins
<1>4. Sound(x)
  BY <1>1, <1>2, <1>3 DEF Sound, mv
<1>5. QED
  BY <1>2, <1>4 DEF x

(* A curve of a model stays sound when an anchor of it is moved within the  *)
(* graph of a card of that model.                                           *)
LEMMA DraggedSound ==
  ASSUME NEW x \in Curves, x # NoCurve, x.of \in Cards, Len(x.mv) >= 2, Sound(x),
         NEW c \in Cards, Key[c] = Key[x.of],
         NEW at \in 1..Len(x.mv), NEW to \in VfLow(StockVf[c])..VfHigh(StockVf[c]),
         NEW y, y.of = x.of, y.mv = Reinterp([x.mv EXCEPT ![at] = to])
  PROVE  Len(y.mv) >= 2 /\ Sound(y) /\ y.mv \in Seq(Nat)
<1> DEFINE moved == [x.mv EXCEPT ![at] = to]
           n == Len(x.mv)
           model == {d \in Cards : Key[d] = Key[x.of]}
<1>1. /\ x.mv \in Seq(Nat) /\ n \in Nat /\ n >= 2 /\ DOMAIN x.mv = 1..n
      /\ \A i \in 1..n : x.mv[i] \in Nat
  BY DEF Curves
<1>2. \A d \in Cards : VfLow(StockVf[d]) \in Nat /\ VfHigh(StockVf[d]) \in Nat
  <2>1. \A d \in Cards : StockVf[d] \in Seq(Nat) /\ StockVf[d] # <<>>
    BY CardAssumption DEF CardAssumption
  <2>2. QED
    BY <2>1, Margins
<1>3. to \in Nat
  <2> DEFINE lo == VfLow(StockVf[c])
             hi == VfHigh(StockVf[c])
  <2>1. lo \in Nat /\ hi \in Nat /\ to \in lo..hi
    BY <1>2
  <2> HIDE DEF lo, hi
  <2>2. QED
    BY <2>1
<1>4. /\ moved \in Seq(Nat) /\ Len(moved) = n
      /\ \A i \in 1..n : moved[i] = IF i = at THEN to ELSE x.mv[i]
  BY <1>1, <1>3
<1>5. /\ n = Len(StockVf[x.of])
      /\ \A i \in 1..n : /\ \E d \in model : x.mv[i] >= VfLow(StockVf[d])
                         /\ \E d \in model : x.mv[i] <= VfHigh(StockVf[d])
  BY <1>1 DEF Sound
<1>6. \A i \in 1..n : moved[i] \in Nat
  BY <1>1, <1>3, <1>4
<1>7. ASSUME NEW i \in 1..n
      PROVE  /\ \E d \in model : moved[i] >= VfLow(StockVf[d])
             /\ \E d \in model : moved[i] <= VfHigh(StockVf[d])
  <2>1. CASE i = at
    <3>1. moved[i] = to /\ c \in model
      BY <1>4, <2>1
    <3> DEFINE lo == VfLow(StockVf[c])
               hi == VfHigh(StockVf[c])
    <3>2. lo \in Nat /\ hi \in Nat /\ to \in lo..hi
      BY <1>2
    <3>3. to >= lo /\ to <= hi
      <4> HIDE DEF lo, hi
      <4>1. QED
        BY <3>2
    <3> HIDE DEF model, moved
    <3>4. QED
      BY <3>1, <3>3
  <2>2. CASE i # at
    <3>1. moved[i] = x.mv[i]
      BY <1>4, <2>2
    <3> HIDE DEF model, moved
    <3>2. QED
      BY <1>5, <3>1
  <2>3. QED
    BY <2>1, <2>2
<1> HIDE DEF moved, model
<1> DEFINE r == Reinterp(moved)
<1>8. /\ r \in Seq(Nat) /\ Len(r) = n
      /\ \A i \in 2..n : r[i - 1] <= r[i]
      /\ \A i \in 1..n : \E j, l \in 1..n : moved[j] <= r[i] /\ r[i] <= moved[l]
  <2>1. Len(moved) >= 2
    BY <1>1, <1>4
  <2>2. QED
    BY <1>4, <2>1, ReinterpRises
<1>9. y.mv = r
  BY DEF moved
<1> HIDE DEF r, n
<1>10. ASSUME NEW i \in 1..n
       PROVE  /\ \E d \in model : r[i] >= VfLow(StockVf[d])
              /\ \E d \in model : r[i] <= VfHigh(StockVf[d])
  <2>1. PICK j \in 1..n, l \in 1..n : moved[j] <= r[i] /\ r[i] <= moved[l]
    BY <1>8
  <2>2. r[i] \in Nat /\ moved[j] \in Nat /\ moved[l] \in Nat
    <3>1. \A m \in 1..Len(r) : r[m] \in Nat
      BY <1>8, ElementOfSeq
    <3>2. QED
      BY <1>6, <1>8, <2>1, <3>1
  <2>3. PICK d \in model : moved[j] >= VfLow(StockVf[d])
    BY <1>7
  <2>4. PICK e \in model : moved[l] <= VfHigh(StockVf[e])
    BY <1>7
  <2>5. VfLow(StockVf[d]) \in Nat /\ VfHigh(StockVf[e]) \in Nat
    BY <1>2 DEF model
  <2>6. r[i] >= VfLow(StockVf[d]) /\ r[i] <= VfHigh(StockVf[e])
    <3> DEFINE lo == VfLow(StockVf[d])
               hi == VfHigh(StockVf[e])
    <3> HIDE DEF lo, hi
    <3>1. lo \in Nat /\ hi \in Nat /\ moved[j] >= lo /\ moved[l] <= hi
      BY <2>3, <2>4, <2>5 DEF lo, hi
    <3>2. r[i] >= lo /\ r[i] <= hi
      BY <2>1, <2>2, <3>1
    <3>3. QED
      BY <3>2 DEF lo, hi
  <2>7. QED
    BY <2>6
<1>11. DOMAIN r = 1..n
  BY <1>8
<1>12. Sound(y)
  BY <1>5, <1>8, <1>9, <1>10, <1>11 DEF Sound, model
<1>13. QED
  BY <1>1, <1>8, <1>9, <1>12
-----------------------------------------------------------------------------
(* Each step preserves the invariant *)

LEMMA InvInit == Init => IInv
<1> SUFFICES ASSUME Init PROVE IInv
  OBVIOUS
<1>1. /\ Low \in [Knobs -> Int] /\ \A k \in Knobs : Low[k] \in Int /\ Low[k] \in Low[k]..High[k]
  <2>1. \A k \in Knobs : Low[k] \in Int /\ High[k] \in Int /\ Low[k] <= High[k]
    BY KnobAssumption DEF KnobAssumption
  <2>2. QED
    BY <2>1, KnobAssumption DEF KnobAssumption
<1>2. GuiInv(gui)
  <2>1. PICK c \in Cards :
          gui = [view |-> "other", card |-> c, pos |-> Low, gated |-> FALSE,
                 curveMode |-> FALSE, edit |-> NoCurve, stock |-> NoCurve]
    BY CardAssumption DEF CardAssumption, Init
  <2>2. gui \in GuiState
    BY <1>1, <2>1, NoCurveSound DEF GuiState
  <2>3. /\ gui.view = "other" /\ gui.pos = Low /\ gui.curveMode = FALSE /\ gui.edit = NoCurve
    BY <2>1
  <2>4. QED
    BY <1>1, <2>2, <2>3 DEF GuiInv, OnSliders, EditInv, TabInv
<1>3. FileInv(file)
  BY FileAssumption DEF FileAssumption, Init, FileInv, CurveOf
<1>4. NamedInv(named)
  BY DEF Init, NamedInv
<1>5. HwInv(hw)
  <2>1. hw = [c \in Cards |-> Stock(c)]
    BY DEF Init
  <2>2. \A c \in Cards : SettingsInv(Stock(c))
    BY ValueAssumption, NoCurveSound DEF ValueAssumption, Stock, SettingsInv, Settings
  <2>3. QED
    BY <2>1, <2>2 DEF HwInv, SettingsInv
<1>6. QED
  BY <1>2, <1>3, <1>4, <1>5 DEF IInv

(* What the tab shows when it is opened for a card *)
LEMMA LoadInv ==
  ASSUME IInv, NEW c \in Cards, LoadOcFields("oc", c)
  PROVE  GuiInv(gui')
<1>1. PICK reported \in SUBSET {k \in Knobs : Accepts(c, k)},
           stock \in {NoCurve} \cup (IF c \in Locked THEN {} ELSE {[of |-> c, mv |-> StockVf[c]]}) :
        LET p == Find(Key[c])
            Value(k) == IF p.knob[k] # Unset THEN p.knob[k]
                        ELSE IF k \in reported THEN hw[c].knob[k] ELSE SliderDefault[k]
        IN gui' = [view |-> "oc", card |-> c,
                   pos |-> [k \in Knobs |-> OnSlider(k, Value(k))],
                   gated |-> Gated(reported, stock),
                   curveMode |-> p.vf # NoCurve,
                   edit |-> IF p.vf # NoCurve THEN p.vf ELSE stock,
                   stock |-> stock]
  BY DEF LoadOcFields, Loaded
<1> DEFINE p == Find(Key[c])
           Value(k) == IF p.knob[k] # Unset THEN p.knob[k]
                       ELSE IF k \in reported THEN hw[c].knob[k] ELSE SliderDefault[k]
           pos == [k \in Knobs |-> OnSlider(k, Value(k))]
           edit == IF p.vf # NoCurve THEN p.vf ELSE stock
           gated == Gated(reported, stock)
           mode == p.vf # NoCurve
<1>2. gui' = [view |-> "oc", card |-> c, pos |-> pos, gated |-> gated, curveMode |-> mode,
              edit |-> edit, stock |-> stock]
  BY <1>1
<1>3. p \in Profiles /\ CurveOf(p.vf, Key[c])
  BY FindOfModel DEF IInv
<1>4. hw[c].knob \in [Knobs -> Int]
  BY DEF IInv, HwInv, SettingsInv, Settings
<1>5. pos \in [Knobs -> Int] /\ \A k \in Knobs : pos[k] \in Low[k]..High[k]
  <2>1. ASSUME NEW k \in Knobs PROVE Value(k) \in Int
    <3>1. p.knob[k] \in Int \cup {Unset}
      <4> HIDE DEF p
      <4>1. QED
        BY <1>3 DEF Profiles
    <3>2. hw[c].knob[k] \in Int /\ SliderDefault[k] \in Int
      BY <1>4, KnobAssumption DEF KnobAssumption
    <3>3. QED
      BY <3>1, <3>2
  <2> HIDE DEF Value
  <2>2. \A k \in Knobs : OnSlider(k, Value(k)) \in Int /\ OnSlider(k, Value(k)) \in Low[k]..High[k]
    BY <2>1, OnSliderInRange
  <2>3. QED
    BY <2>2
<1>6. stock = NoCurve \/ (c \notin Locked /\ stock = [of |-> c, mv |-> StockVf[c]])
  OBVIOUS
<1>7. stock \in Curves /\ Sound(stock) /\ (stock # NoCurve => stock.of = c)
  BY <1>6, StockSound, NoCurveSound
<1>8. gated \in BOOLEAN /\ (~gated => Len(stock.mv) >= 2) /\ (c \in Locked => gated)
  <2>1. Len(stock.mv) \in Nat
    BY <1>7 DEF Curves
  <2>2. gated <=> (reported \cap Lockable = {} \/ Len(stock.mv) < 2)
    BY DEF Gated
  <2>3. gated \in BOOLEAN
    BY DEF Gated
  <2>4. stock = NoCurve => Len(stock.mv) = 0
    BY NoCurveSound
  <2> HIDE DEF gated
  <2>5. QED
    BY <1>6, <2>1, <2>2, <2>3, <2>4
<1> HIDE DEF p, pos, gated
<1>9. /\ edit \in Curves /\ (mode => edit = p.vf /\ Len(edit.mv) >= 2)
      /\ (edit # NoCurve => edit.of \in Cards /\ Sound(edit) /\ Key[edit.of] = Key[c])
  <2>1. p.vf \in Curves
    BY <1>3 DEF Profiles
  <2>2. QED
    BY <1>3, <1>7, <2>1 DEF CurveOf
<1>10. mode \in BOOLEAN
  OBVIOUS
<1> HIDE DEF edit, mode
<1>11. gui' \in GuiState
  BY <1>2, <1>5, <1>7, <1>8, <1>9, <1>10 DEF GuiState
<1>12. /\ gui'.view = "oc" /\ gui'.card = c /\ gui'.pos = pos /\ gui'.gated = gated
       /\ gui'.curveMode = mode /\ gui'.edit = edit /\ gui'.stock = stock
  BY <1>2
<1>13. EditInv(gui')
  BY <1>9, <1>12 DEF EditInv
<1>14. TabInv(gui')
  BY <1>6, <1>8, <1>9, <1>12 DEF TabInv
<1>15. OnSliders(gui')
  BY <1>5, <1>12 DEF OnSliders
<1>16. QED
  BY <1>11, <1>13, <1>14, <1>15 DEF GuiInv

LEMMA ShowInv ==
  ASSUME IInv, NEW v \in {"oc", "other"}, NEW c \in Cards, Show(v, c)
  PROVE  GuiInv(gui')
<1>1. CASE v = "oc"
  BY <1>1, LoadInv DEF Show
<1>2. CASE v = "other"
  <2>1. gui' = [gui EXCEPT !.view = v, !.card = c] /\ gui \in GuiState
    BY <1>2 DEF Show, IInv, GuiInv
  <2>2. gui' = [view |-> v, card |-> c, pos |-> gui.pos, gated |-> gui.gated,
                curveMode |-> gui.curveMode, edit |-> gui.edit, stock |-> gui.stock]
    BY <2>1 DEF GuiState
  <2>3. gui' \in GuiState
    BY <2>1, <2>2 DEF GuiState
  <2>4. /\ gui'.view = "other" /\ gui'.pos = gui.pos /\ gui'.curveMode = gui.curveMode
        /\ gui'.edit = gui.edit
    BY <1>2, <2>2
  <2>5. QED
    BY <2>3, <2>4 DEF IInv, GuiInv, OnSliders, EditInv, TabInv
<1>3. QED
  BY <1>1, <1>2

(* Sliders that are moved within their ends *)
LEMMA PosInv ==
  ASSUME GuiInv(gui), NEW pos \in [Knobs -> Int], \A k \in Knobs : pos[k] \in Low[k]..High[k],
         NEW g, g = [gui EXCEPT !.pos = pos]
  PROVE  GuiInv(g) /\ g.card = gui.card /\ g.view = gui.view
<1>1. gui \in GuiState
  BY DEF GuiInv
<1>2. g = [view |-> gui.view, card |-> gui.card, pos |-> pos, gated |-> gui.gated,
           curveMode |-> gui.curveMode, edit |-> gui.edit, stock |-> gui.stock]
  BY <1>1 DEF GuiState
<1>3. g \in GuiState
  BY <1>1, <1>2 DEF GuiState
<1>4. /\ g.view = gui.view /\ g.card = gui.card /\ g.pos = pos /\ g.gated = gui.gated
      /\ g.curveMode = gui.curveMode /\ g.edit = gui.edit /\ g.stock = gui.stock
  BY <1>2
<1>5. QED
  BY <1>3, <1>4 DEF GuiInv, OnSliders, EditInv, TabInv

LEMMA MoveSliderInv == ASSUME GuiInv(gui), MoveSlider PROVE GuiInv(gui')
<1>1. PICK k \in Knobs : \E v \in Low[k]..High[k] : gui' = [gui EXCEPT !.pos[k] = v]
  BY DEF MoveSlider, Edit
<1>2. PICK v \in Low[k]..High[k] : gui' = [gui EXCEPT !.pos[k] = v]
  BY <1>1
<1>3. gui \in GuiState /\ gui.pos \in [Knobs -> Int] /\ OnSliders(gui)
  BY DEF GuiInv, GuiState
<1> DEFINE pos == [gui.pos EXCEPT ![k] = v]
<1>4. gui' = [gui EXCEPT !.pos = pos]
  BY <1>2, <1>3 DEF GuiState
<1>5. v \in Int
  BY KnobAssumption DEF KnobAssumption
<1>6. pos \in [Knobs -> Int] /\ \A l \in Knobs : pos[l] \in Low[l]..High[l]
  BY <1>3, <1>5 DEF OnSliders
<1> HIDE DEF pos
<1>7. QED
  BY <1>4, <1>6, PosInv

LEMMA ApplyPresetInv == ASSUME GuiInv(gui), ApplyPreset PROVE GuiInv(gui')
<1>1. PICK p \in Presets :
        gui' = [gui EXCEPT !.pos = [k \in Knobs |-> IF k \in DOMAIN p THEN OnSlider(k, p[k]) ELSE @[k]]]
  BY DEF ApplyPreset, Edit
<1> DEFINE pos == [k \in Knobs |-> IF k \in DOMAIN p THEN OnSlider(k, p[k]) ELSE gui.pos[k]]
<1>2. gui' = [gui EXCEPT !.pos = pos]
  BY <1>1
<1>3. gui.pos \in [Knobs -> Int] /\ OnSliders(gui)
  BY DEF GuiInv, GuiState
<1>4. \A k \in Knobs : k \in DOMAIN p => OnSlider(k, p[k]) \in Int /\ OnSlider(k, p[k]) \in Low[k]..High[k]
  BY ValueAssumption, OnSliderInRange DEF ValueAssumption
<1>5. pos \in [Knobs -> Int] /\ \A k \in Knobs : pos[k] \in Low[k]..High[k]
  BY <1>3, <1>4 DEF OnSliders
<1> HIDE DEF pos
<1>6. QED
  BY <1>2, <1>5, PosInv

LEMMA ToggleCurveInv == ASSUME GuiInv(gui), ToggleCurve PROVE GuiInv(gui')
<1> DEFINE mode == ~gui.curveMode
           edit == IF ~gui.curveMode /\ Len(gui.edit.mv) < 2 THEN gui.stock ELSE gui.edit
<1>1. /\ gui.view = "oc" /\ Len(gui.stock.mv) >= 2 /\ gui \in GuiState
      /\ gui' = [gui EXCEPT !.curveMode = mode, !.edit = edit]
  BY DEF ToggleCurve, Edit, OnTab, GuiInv
<1>2. /\ gui.card \in Cards /\ gui.curveMode \in BOOLEAN /\ gui.edit \in Curves
      /\ gui.stock \in Curves /\ Len(gui.edit.mv) \in Nat
  BY <1>1 DEF GuiState, Curves
<1>3. gui.stock # NoCurve
  BY <1>1, NoCurveSound
<1>4. gui.stock = [of |-> gui.card, mv |-> StockVf[gui.card]]
  BY <1>1, <1>3 DEF GuiInv, TabInv
<1>5. gui.stock.of = gui.card /\ Sound(gui.stock)
  BY <1>2, <1>4, StockSound
<1>6. /\ edit \in Curves /\ mode \in BOOLEAN /\ (mode => Len(edit.mv) >= 2)
      /\ edit # NoCurve => edit.of \in Cards /\ Sound(edit) /\ Key[edit.of] = Key[gui.card]
  BY <1>1, <1>2, <1>5 DEF GuiInv, EditInv, TabInv
<1> HIDE DEF mode, edit
<1>7. gui' = [view |-> gui.view, card |-> gui.card, pos |-> gui.pos, gated |-> gui.gated,
              curveMode |-> mode, edit |-> edit, stock |-> gui.stock]
  <2>1. ASSUME NEW z, z = [gui EXCEPT !.curveMode = mode]
        PROVE  z = [view |-> gui.view, card |-> gui.card, pos |-> gui.pos, gated |-> gui.gated,
                    curveMode |-> mode, edit |-> gui.edit, stock |-> gui.stock]
    BY <1>1, <2>1 DEF GuiState
  <2>2. ASSUME NEW z, z = [view |-> gui.view, card |-> gui.card, pos |-> gui.pos, gated |-> gui.gated,
                           curveMode |-> mode, edit |-> gui.edit, stock |-> gui.stock]
        PROVE  [z EXCEPT !.edit = edit] =
                   [view |-> gui.view, card |-> gui.card, pos |-> gui.pos, gated |-> gui.gated,
                    curveMode |-> mode, edit |-> edit, stock |-> gui.stock]
    BY <2>2
  <2>3. QED
    BY <1>1, <2>1, <2>2
<1>8. gui' \in GuiState
  BY <1>1, <1>6, <1>7 DEF GuiState
<1>9. /\ gui'.view = gui.view /\ gui'.card = gui.card /\ gui'.pos = gui.pos /\ gui'.gated = gui.gated
      /\ gui'.curveMode = mode /\ gui'.edit = edit /\ gui'.stock = gui.stock
  BY <1>7
<1>10. QED
  BY <1>6, <1>8, <1>9 DEF GuiInv, OnSliders, EditInv, TabInv

LEMMA OnOcMoveInv == ASSUME GuiInv(gui), OnOcMove PROVE GuiInv(gui')
<1>1. PICK a \in DOMAIN Anchors(Len(gui.edit.mv)),
           to \in VfLow(gui.stock.mv)..VfHigh(gui.stock.mv) :
        gui' = [gui EXCEPT !.edit.mv = Reinterp([gui.edit.mv EXCEPT ![Anchors(Len(gui.edit.mv))[a]] = to])]
  BY DEF OnOcMove, Drag, Edit
<1>2. gui.view = "oc" /\ gui.curveMode /\ ~gui.gated /\ gui \in GuiState
  BY DEF OnOcMove, OnTab, GuiInv
<1>3. /\ gui.card \in Cards /\ gui.edit \in Curves /\ gui.stock \in Curves
      /\ gui.edit.mv \in Seq(Nat)
  BY <1>2 DEF GuiState, Curves
<1>4. Len(gui.edit.mv) >= 2 /\ Len(gui.stock.mv) >= 2
  BY <1>2 DEF GuiInv, EditInv, TabInv
<1>5. gui.edit # NoCurve /\ gui.stock # NoCurve
  BY <1>4, NoCurveSound
<1>6. /\ gui.edit.of \in Cards /\ Sound(gui.edit) /\ Key[gui.edit.of] = Key[gui.card]
      /\ gui.stock = [of |-> gui.card, mv |-> StockVf[gui.card]]
  BY <1>2, <1>5 DEF GuiInv, EditInv, TabInv
<1> DEFINE at == Anchors(Len(gui.edit.mv))[a]
           mv == Reinterp([gui.edit.mv EXCEPT ![at] = to])
           edit == [of |-> gui.edit.of, mv |-> mv]
<1>7. at \in 1..Len(gui.edit.mv)
  <2>1. Len(gui.edit.mv) \in Nat
    BY <1>3
  <2>2. QED
    BY <1>4, <2>1, AnchorsFromEndToEnd
<1>8. to \in VfLow(StockVf[gui.card])..VfHigh(StockVf[gui.card])
  BY <1>6
<1>9. edit.of = gui.edit.of /\ edit.mv = mv
  OBVIOUS
<1>10. Len(edit.mv) >= 2 /\ Sound(edit) /\ edit.mv \in Seq(Nat)
  <2> HIDE DEF at, edit
  <2>1. QED
    BY <1>3, <1>4, <1>5, <1>6, <1>7, <1>8, <1>9, DraggedSound
<1>11. edit \in Curves
  BY <1>6, <1>9, <1>10 DEF Curves
<1>12. gui' = [gui EXCEPT !.edit = edit]
  <2> HIDE DEF mv
  <2>1. [gui.edit EXCEPT !.mv = mv] = edit
    BY <1>3 DEF Curves
  <2>2. gui' = [gui EXCEPT !.edit.mv = mv]
    BY <1>1 DEF mv
  <2>3. gui' = [gui EXCEPT !.edit = [gui.edit EXCEPT !.mv = mv]]
    BY <1>2, <2>2 DEF GuiState
  <2>4. QED
    BY <2>1, <2>3
<1> HIDE DEF edit, at, mv
<1>13. gui' = [view |-> gui.view, card |-> gui.card, pos |-> gui.pos, gated |-> gui.gated,
               curveMode |-> gui.curveMode, edit |-> edit, stock |-> gui.stock]
  BY <1>2, <1>12 DEF GuiState
<1>14. gui' \in GuiState
  BY <1>2, <1>11, <1>13 DEF GuiState
<1>15. /\ gui'.view = gui.view /\ gui'.card = gui.card /\ gui'.pos = gui.pos /\ gui'.gated = gui.gated
       /\ gui'.curveMode = gui.curveMode /\ gui'.edit = edit /\ gui'.stock = gui.stock
  BY <1>13
<1>16. EditInv(gui')
  BY <1>6, <1>9, <1>10, <1>15 DEF EditInv
<1>17. TabInv(gui')
  BY <1>6, <1>9, <1>15 DEF GuiInv, TabInv
<1>18. OnSliders(gui')
  BY <1>15 DEF GuiInv, OnSliders
<1>19. QED
  BY <1>14, <1>16, <1>17, <1>18 DEF GuiInv

(* What Apply saves is typed, and has a curve only of the model it is for   *)
LEMMA TabProfileInv ==
  ASSUME NEW g, GuiInv(g), g.view = "oc", NEW p
  PROVE  TabProfile(g, p) \in Profiles /\ CurveOf(TabProfile(g, p).vf, Key[g.card])
<1> DEFINE curve == g.curveMode /\ ~g.gated /\ Len(g.edit.mv) >= 2
           saved == Knobs \ (IF g.gated THEN Lockable ELSE IF curve THEN {"volt"} ELSE {})
           knob  == [k \in Knobs |-> IF k \in saved THEN g.pos[k] ELSE Unset]
           vf    == IF curve THEN g.edit ELSE NoCurve
<1>1. TabProfile(g, p) = [apply |-> TRUE, knob |-> knob, vf |-> vf]
  BY DEF TabProfile
<1>2. /\ g.pos \in [Knobs -> Int] /\ g.edit \in Curves
      /\ g.edit # NoCurve => g.edit.of \in Cards /\ Sound(g.edit) /\ Key[g.edit.of] = Key[g.card]
  BY DEF GuiInv, GuiState, EditInv, TabInv
<1>3. knob \in [Knobs -> Int \cup {Unset}]
  BY <1>2
<1>4. vf \in Curves
  BY <1>2, NoCurveSound
<1>5. CurveOf(vf, Key[g.card])
  BY <1>2 DEF CurveOf
<1> HIDE DEF knob, vf
<1>6. QED
  BY <1>1, <1>3, <1>4, <1>5 DEF Profiles

LEMMA SaveInv ==
  ASSUME FileInv(file), NEW k \in Keys, NEW p \in Profiles, CurveOf(p.vf, k), Save(k, p)
  PROVE  FileInv(file')
<1>1. file' = [file EXCEPT ![k] = p]
  BY DEF Save
<1>2. QED
  BY <1>1 DEF FileInv

LEMMA ApplyControlsInv ==
  ASSUME FileInv(file), NEW g, GuiInv(g), g.view = "oc", ApplyControls(g)
  PROVE  GuiInv(gui') /\ FileInv(file')
<1> DEFINE k == Key[g.card]
           p == TabProfile(g, Find(k))
<1>1. gui' = g /\ Save(k, p)
  BY DEF ApplyControls
<1>2. k \in Keys
  BY CardAssumption DEF CardAssumption, GuiInv, GuiState
<1>3. p \in Profiles /\ CurveOf(p.vf, k)
  BY TabProfileInv
<1> HIDE DEF k, p
<1>4. FileInv(file')
  BY <1>1, <1>2, <1>3, SaveInv
<1>5. QED
  BY <1>1, <1>4

(* The controls after Reset *)
Cleared == [gui EXCEPT !.pos = [k \in Knobs |-> IF k = "power" THEN @[k]
                                                ELSE OnSlider(k, SliderDefault[k])]]

LEMMA ClearedInv ==
  ASSUME GuiInv(gui)
  PROVE  GuiInv(Cleared) /\ Cleared.card = gui.card /\ Cleared.view = gui.view
<1> DEFINE pos == [k \in Knobs |-> IF k = "power" THEN gui.pos[k] ELSE OnSlider(k, SliderDefault[k])]
<1>1. Cleared = [gui EXCEPT !.pos = pos]
  BY DEF Cleared
<1>2. gui.pos \in [Knobs -> Int] /\ OnSliders(gui)
  BY DEF GuiInv, GuiState
<1>3. \A k \in Knobs : /\ OnSlider(k, SliderDefault[k]) \in Int
                       /\ OnSlider(k, SliderDefault[k]) \in Low[k]..High[k]
  BY KnobAssumption, OnSliderInRange DEF KnobAssumption
<1>4. pos \in [Knobs -> Int] /\ \A k \in Knobs : pos[k] \in Low[k]..High[k]
  BY <1>2, <1>3 DEF OnSliders
<1> HIDE DEF pos
<1>5. QED
  BY <1>1, <1>4, PosInv

(* A profile with other settings and the same curve *)
LEMMA OtherKnobs ==
  ASSUME NEW p \in Profiles, NEW a \in BOOLEAN, NEW n \in [Knobs -> Int \cup {Unset}]
  PROVE  /\ [p EXCEPT !.apply = a, !.knob = n] \in Profiles
         /\ [p EXCEPT !.apply = a, !.knob = n].vf = p.vf
<1>1. ASSUME NEW z, z = [p EXCEPT !.apply = a]
      PROVE  z = [apply |-> a, knob |-> p.knob, vf |-> p.vf]
  BY <1>1 DEF Profiles
<1>2. ASSUME NEW z, z = [apply |-> a, knob |-> p.knob, vf |-> p.vf]
      PROVE  [z EXCEPT !.knob = n] = [apply |-> a, knob |-> n, vf |-> p.vf]
  BY <1>2
<1>3. [p EXCEPT !.apply = a, !.knob = n] = [apply |-> a, knob |-> n, vf |-> p.vf]
  BY <1>1, <1>2
<1>4. p.vf \in Curves
  BY DEF Profiles
<1>5. QED
  BY <1>3, <1>4 DEF Profiles

LEMMA OneKnob ==
  ASSUME NEW p \in Profiles, NEW k \in Knobs, NEW v \in Int
  PROVE  /\ [p EXCEPT !.apply = TRUE, !.knob[k] = v] \in Profiles
         /\ [p EXCEPT !.apply = TRUE, !.knob[k] = v].vf = p.vf
<1> DEFINE n == [p.knob EXCEPT ![k] = v]
<1>1. n \in [Knobs -> Int \cup {Unset}]
  BY DEF Profiles
<1>2. ASSUME NEW z, z = [p EXCEPT !.apply = TRUE]
      PROVE  z = [apply |-> TRUE, knob |-> p.knob, vf |-> p.vf]
  BY <1>2 DEF Profiles
<1>3. ASSUME NEW z, z = [apply |-> TRUE, knob |-> p.knob, vf |-> p.vf]
      PROVE  [z EXCEPT !.knob[k] = v] = [z EXCEPT !.knob = n]
  BY <1>3
<1>4. [p EXCEPT !.apply = TRUE, !.knob[k] = v] = [p EXCEPT !.apply = TRUE, !.knob = n]
  BY <1>2, <1>3
<1> HIDE DEF n
<1>5. /\ [p EXCEPT !.apply = TRUE, !.knob = n] \in Profiles
      /\ [p EXCEPT !.apply = TRUE, !.knob = n].vf = p.vf
  BY <1>1, OtherKnobs, Zenon
<1>6. QED
  BY <1>4, <1>5, Zenon

LEMMA SetHw ==
  ASSUME HwInv(hw), NEW c \in Cards, NEW s, SettingsInv(s), hw' = [hw EXCEPT ![c] = s]
  PROVE  HwInv(hw')
  BY DEF HwInv, SettingsInv

LEMMA ApplyToCard ==
  ASSUME HwInv(hw), NEW c \in Cards, NEW p \in Profiles, Sound(p.vf),
         hw' = [hw EXCEPT ![c] = Applied(p, c, @)]
  PROVE  HwInv(hw')
<1>1. SettingsInv(hw[c])
  BY DEF HwInv
<1>2. SettingsInv(Applied(p, c, hw[c]))
  BY <1>1, AppliedSound
<1>3. QED
  BY <1>2, SetHw

LEMMA InvStep == IInv /\ [Next]_vars => IInv'
<1> SUFFICES ASSUME IInv, [Next]_vars PROVE IInv'
  OBVIOUS
<1> USE DEF IInv
<1>1. ASSUME GuiInv(gui'), FileInv(file'), NamedInv(named'), HwInv(hw') PROVE IInv'
  BY <1>1
<1>2. CASE SetView
  <2>1. PICK v \in {"oc", "other"} : Show(v, gui.card)
    BY <1>2 DEF SetView
  <2>2. gui.card \in Cards
    BY DEF GuiInv, GuiState
  <2>3. GuiInv(gui')
    BY <2>1, <2>2, ShowInv
  <2>4. QED
    BY <1>1, <1>2, <2>3 DEF SetView
<1>3. CASE Reselect
  <2>1. PICK c \in Cards : Show(gui.view, c)
    BY <1>3 DEF Reselect
  <2>2. gui.view \in {"oc", "other"}
    BY DEF GuiInv, GuiState
  <2>3. GuiInv(gui')
    BY <2>1, <2>2, ShowInv
  <2>4. QED
    BY <1>1, <1>3, <2>3 DEF Reselect
<1>4. CASE MoveSlider
  BY <1>1, <1>4, MoveSliderInv DEF MoveSlider, Edit
<1>5. CASE ApplyPreset
  BY <1>1, <1>5, ApplyPresetInv DEF ApplyPreset, Edit
<1>6. CASE ToggleCurve
  BY <1>1, <1>6, ToggleCurveInv DEF ToggleCurve, Edit
<1>7. CASE OnOcMove
  BY <1>1, <1>7, OnOcMoveInv DEF OnOcMove, Drag, Edit
<1>8. CASE ApplyOc
  <2>1. GuiInv(gui') /\ FileInv(file')
    BY <1>8, ApplyControlsInv DEF ApplyOc, OnTab
  <2>2. QED
    BY <1>1, <1>8, <2>1 DEF ApplyOc, ApplyControls
<1>9. CASE ResetOc
  <2>1. ApplyControls(Cleared) /\ gui.view = "oc"
    BY <1>9 DEF ResetOc, Cleared, OnTab
  <2>2. GuiInv(gui') /\ FileInv(file')
    BY <2>1, ClearedInv, ApplyControlsInv
  <2>3. QED
    BY <1>1, <2>1, <2>2 DEF ApplyControls
<1>10. CASE CmdOcProfileDelete
  <2>1. NamedInv(named')
    BY <1>10 DEF CmdOcProfileDelete, NamedInv
  <2>2. QED
    BY <1>1, <1>10, <2>1 DEF CmdOcProfileDelete, Beside
<1>11. ASSUME NEW c \in Cards, CmdOcKnob(c) PROVE IInv'
  <2>1. PICK k \in Knobs, v \in CliValues :
          /\ hw' = [hw EXCEPT ![c] = Applied([Blank EXCEPT !.apply = TRUE, !.knob[k] = v], c, @)]
          /\ CliSaves(Key[c], [Find(Key[c]) EXCEPT !.apply = TRUE, !.knob[k] = v])
          /\ UNCHANGED named
    BY <1>11 DEF CmdOcKnob
  <2> DEFINE one == [Blank EXCEPT !.apply = TRUE, !.knob[k] = v]
             old == Find(Key[c])
             new == [old EXCEPT !.apply = TRUE, !.knob[k] = v]
  <2>2. v \in Int /\ Key[c] \in Keys
    BY ValueAssumption, CardAssumption DEF ValueAssumption, CardAssumption
  <2>3. one \in Profiles /\ one.vf = NoCurve
    BY <2>2, BlankTyped, OneKnob, Zenon
  <2>4. old \in Profiles /\ CurveOf(old.vf, Key[c])
    BY FindOfModel
  <2>5. new \in Profiles /\ new.vf = old.vf
    <3> HIDE DEF old
    <3>1. QED
      BY <2>2, <2>4, OneKnob, Zenon
  <2>6. /\ hw' = [hw EXCEPT ![c] = Applied(one, c, @)]
        /\ Save(Key[c], new) /\ gui' = gui /\ named' = named
    BY <2>1 DEF CliSaves
  <2> HIDE DEF one, new, old
  <2>7. HwInv(hw')
    BY <2>3, <2>6, ApplyToCard, NoCurveSound
  <2>8. FileInv(file')
    BY <2>2, <2>4, <2>5, <2>6, SaveInv
  <2>9. QED
    BY <1>1, <2>6, <2>7, <2>8
<1>12. ASSUME NEW c \in Cards, CmdOcProfileLoad(c) PROVE IInv'
  <2> DEFINE old == Find(Key[c])
             new == [old EXCEPT !.apply = named.apply, !.knob = named.knob]
  <2>1. /\ named # Absent /\ hw' = [hw EXCEPT ![c] = Applied(named, c, @)]
        /\ Save(Key[c], new) /\ gui' = gui /\ named' = named
    BY <1>12 DEF CmdOcProfileLoad, CliSaves
  <2>2. /\ named \in Profiles /\ named.vf = NoCurve /\ named.apply \in BOOLEAN
        /\ named.knob \in [Knobs -> Int \cup {Unset}]
    BY <2>1 DEF NamedInv, Profiles
  <2>3. old \in Profiles /\ CurveOf(old.vf, Key[c])
    BY FindOfModel
  <2>4. new \in Profiles /\ new.vf = old.vf
    <3> HIDE DEF old
    <3>1. QED
      BY <2>2, <2>3, OtherKnobs, Zenon
  <2> HIDE DEF old
  <2>5. Key[c] \in Keys
    BY CardAssumption DEF CardAssumption
  <2> HIDE DEF new
  <2>6. HwInv(hw')
    BY <2>1, <2>2, ApplyToCard, NoCurveSound
  <2>7. FileInv(file')
    BY <2>1, <2>3, <2>4, <2>5, SaveInv
  <2>8. QED
    BY <1>1, <2>1, <2>6, <2>7
<1>13. ASSUME NEW c \in Cards, CmdOcProfileSave(c) PROVE IInv'
  <2> DEFINE n == [k \in Knobs |-> IF Accepts(c, k) THEN hw[c].knob[k] ELSE Unset]
  <2>1. hw[c].knob \in [Knobs -> Int]
    BY DEF HwInv, SettingsInv, Settings
  <2>2. n \in [Knobs -> Int \cup {Unset}]
    BY <2>1
  <2>3. named' = [Blank EXCEPT !.apply = TRUE, !.knob = n] /\ UNCHANGED <<gui, file, hw>>
    BY <1>13 DEF CmdOcProfileSave, Beside
  <2> HIDE DEF n
  <2>4. NamedInv(named')
    BY <2>2, <2>3, BlankTyped, OtherKnobs DEF NamedInv
  <2>5. QED
    BY <1>1, <2>3, <2>4
<1>14. ASSUME NEW c \in Cards, CmdOcVfcurve(c) PROVE IInv'
  <2>1. PICK mv \in CliCurves : hw' = [hw EXCEPT ![c].vf = [of |-> Nothing, mv |-> mv]]
    BY <1>14 DEF CmdOcVfcurve
  <2> DEFINE x == [of |-> Nothing, mv |-> mv]
             s == [knob |-> hw[c].knob, vf |-> x]
  <2>2. x.of = Nothing /\ x \in Curves
    BY ValueAssumption DEF ValueAssumption, Curves
  <2>3. hw[c] \in Settings /\ hw \in [Cards -> Settings]
    BY DEF HwInv
  <2> HIDE DEF x
  <2>4. [hw[c] EXCEPT !.vf = x] = s
    BY <2>3 DEF Settings
  <2>5. SettingsInv(s)
    BY <2>2, <2>3 DEF SettingsInv, Settings
  <2>6. hw' = [hw EXCEPT ![c] = [hw[c] EXCEPT !.vf = x]]
    BY <2>1, <2>3 DEF x
  <2> HIDE DEF s
  <2>7. HwInv(hw')
    BY <2>4, <2>5, <2>6, SetHw
  <2>8. QED
    BY <1>1, <1>14, <2>7 DEF CmdOcVfcurve, Beside
<1>15. ASSUME NEW c \in Cards, CmdOcReset(c) PROVE IInv'
  <2>1. SettingsInv(Stock(c))
    BY ValueAssumption, NoCurveSound DEF ValueAssumption, Stock, SettingsInv, Settings
  <2>2. HwInv(hw')
    BY <1>15, <2>1, SetHw DEF CmdOcReset
  <2>3. QED
    BY <1>1, <1>15, <2>2 DEF CmdOcReset, Beside
<1>16. ASSUME NEW c \in Cards, Service(c) PROVE IInv'
  <2> DEFINE p == Find(Key[c])
  <2>1. p \in Profiles /\ CurveOf(p.vf, Key[c])
    BY FindOfModel
  <2>2. Sound(p.vf)
    BY <2>1, NoCurveSound DEF CurveOf
  <2>3. hw' = [hw EXCEPT ![c] = Applied(p, c, @)]
    BY <1>16 DEF Service
  <2> HIDE DEF p
  <2>4. HwInv(hw')
    BY <2>1, <2>2, <2>3, ApplyToCard
  <2>5. QED
    BY <1>1, <1>16, <2>4 DEF Service
<1>17. CASE UNCHANGED vars
  BY <1>1, <1>17 DEF vars
<1>18. QED
  BY <1>2, <1>3, <1>4, <1>5, <1>6, <1>7, <1>8, <1>9, <1>10, <1>11, <1>12, <1>13, <1>14, <1>15,
     <1>16, <1>17 DEF Next
-----------------------------------------------------------------------------
LEMMA Invariant == Spec => []IInv
  BY InvInit, InvStep, PTL DEF Spec

(* Whatever is loaded, typed and saved, every slider stands within its ends *)
(* and every profile and every card holds settings.                         *)
THEOREM TypeCorrect == Spec => []TypeOK
<1>1. IInv => TypeOK
  BY DEF IInv, TypeOK, GuiInv, GuiState, OnSliders, FileInv, NamedInv, HwInv, SettingsInv, Settings
<1>2. QED
  BY <1>1, Invariant, PTL

(* However long curves are dragged, saved, loaded and applied: those on the *)
(* tab, in the file and in force never fall, have the points of their card  *)
(* and stay within the margins of the graph.                                *)
THEOREM CurvesAreSound == Spec => []CurvesSound
<1>1. IInv => CurvesSound
  BY NoCurveSound DEF IInv, CurvesSound, GuiInv, EditInv, FileInv, CurveOf, HwInv, SettingsInv
<1>2. QED
  BY <1>1, Invariant, PTL

(* Apply and Reset save nothing that the card that is shown has locked, in  *)
(* whatever order cards were selected and tabs opened.                      *)
THEOREM LockedIsUnsaved == Spec => LockedUnsaved
<1> DEFINE Unsaved == gui.card \in Locked /\ history'.saves # history.saves /\ (ApplyOc \/ ResetOc) =>
       LET p == file'[Key[gui.card]]
       IN p.vf = NoCurve /\ \A k \in Lockable : p.knob[k] = Unset
<1>1. IInv /\ [Next]_vars => [Unsaved]_vars
  <2> SUFFICES ASSUME IInv, gui.card \in Locked, ApplyOc \/ ResetOc
               PROVE  LET p == file'[Key[gui.card]]
                      IN p.vf = NoCurve /\ \A k \in Lockable : p.knob[k] = Unset
    BY DEF Unsaved
  <2>1. GuiInv(gui) /\ FileInv(file) /\ gui.view = "oc"
    BY DEF IInv, ApplyOc, ResetOc, OnTab
  <2>2. \E g : GuiInv(g) /\ g.view = "oc" /\ g.card = gui.card /\ ApplyControls(g)
    <3>1. CASE ApplyOc
      BY <2>1, <3>1 DEF ApplyOc
    <3>2. CASE ResetOc
      BY <2>1, <3>2, ClearedInv DEF ResetOc, Cleared
    <3>3. QED
      BY <3>1, <3>2
  <2>3. PICK g : GuiInv(g) /\ g.view = "oc" /\ g.card = gui.card /\ ApplyControls(g)
    BY <2>2
  <2>4. g.gated
    BY <2>3 DEF GuiInv, TabInv
  <2> DEFINE p == TabProfile(g, Find(Key[g.card]))
  <2>5. p.vf = NoCurve /\ \A k \in Lockable : p.knob[k] = Unset
    BY <2>4, KnobAssumption DEF TabProfile, KnobAssumption
  <2>6. file' = [file EXCEPT ![Key[gui.card]] = p]
    BY <2>3 DEF ApplyControls, Save
  <2> HIDE DEF p
  <2>7. Key[gui.card] \in Keys
    BY <2>1, CardAssumption DEF CardAssumption, GuiInv, GuiState
  <2>8. file'[Key[gui.card]] = p
    BY <2>1, <2>6, <2>7 DEF FileInv
  <2>9. QED
    BY <2>5, <2>8
<1>2. QED
  BY <1>1, Invariant, PTL DEF Spec, LockedUnsaved
-----------------------------------------------------------------------------
(* What was applied last for a model is what its profile says *)

HistoryShape ==
  /\ history = [shown |-> history.shown, applied |-> history.applied, edits |-> history.edits,
                saves |-> history.saves]
  /\ history.applied = [k \in Keys |-> history.applied[k]]

Saved(g, p) == GuiInv(g) /\ g.view = "oc" /\ p = TabProfile(g, Blank)

AppliedInv ==
  /\ HistoryShape
  /\ \A k \in Keys : history.applied[k] # Nothing => Saved(history.applied[k], file[k])

LEMMA HistoryFields ==
  ASSUME HistoryShape, NEW a, NEW s, NEW n, NEW k \in Keys
  PROVE  /\ history' = [history EXCEPT !.shown = s] =>
              HistoryShape' /\ history'.applied = history.applied
         /\ history' = [history EXCEPT !.edits = n] =>
              HistoryShape' /\ history'.applied = history.applied
         /\ history' = [history EXCEPT !.saves = n, !.applied[k] = a] =>
              HistoryShape' /\ history'.applied = [history.applied EXCEPT ![k] = a]
<1>1. ASSUME history' = [history EXCEPT !.shown = s]
      PROVE  HistoryShape' /\ history'.applied = history.applied
  BY <1>1 DEF HistoryShape
<1>2. ASSUME history' = [history EXCEPT !.edits = n]
      PROVE  HistoryShape' /\ history'.applied = history.applied
  BY <1>2 DEF HistoryShape
<1>3. ASSUME history' = [history EXCEPT !.saves = n, !.applied[k] = a]
      PROVE  HistoryShape' /\ history'.applied = [history.applied EXCEPT ![k] = a]
  <2> DEFINE new == [history.applied EXCEPT ![k] = a]
  <2>1. ASSUME NEW z, z = [history EXCEPT !.saves = n]
        PROVE  z = [shown |-> history.shown, applied |-> history.applied, edits |-> history.edits,
                    saves |-> n]
    BY <2>1 DEF HistoryShape
  <2>2. ASSUME NEW z, z = [shown |-> history.shown, applied |-> history.applied,
                           edits |-> history.edits, saves |-> n]
        PROVE  [z EXCEPT !.applied[k] = a] =
                 [shown |-> history.shown, applied |-> new, edits |-> history.edits, saves |-> n]
    BY <2>2
  <2>3. history' = [shown |-> history.shown, applied |-> new, edits |-> history.edits, saves |-> n]
    BY <1>3, <2>1, <2>2
  <2>4. new = [l \in Keys |-> new[l]]
    BY DEF HistoryShape
  <2> HIDE DEF new
  <2>5. history'.applied = new
    BY <2>3
  <2>6. HistoryShape'
    BY <2>3, <2>4, <2>5 DEF HistoryShape
  <2>7. QED
    BY <2>5, <2>6 DEF new
<1>4. QED
  BY <1>1, <1>2, <1>3

LEMMA AppliedKept ==
  ASSUME AppliedInv, file' = file, HistoryShape', history'.applied = history.applied
  PROVE  AppliedInv'
<1>1. \A k \in Keys : history'.applied[k] # Nothing => Saved(history'.applied[k], file'[k])
  BY DEF AppliedInv
<1>2. QED
  BY <1>1 DEF AppliedInv

LEMMA AppliedSaved ==
  ASSUME AppliedInv, FileInv(file), NEW k \in Keys, NEW p, NEW a, file' = [file EXCEPT ![k] = p],
         HistoryShape', history'.applied = [history.applied EXCEPT ![k] = a],
         a = Nothing \/ Saved(a, p)
  PROVE  AppliedInv'
<1>1. ASSUME NEW l \in Keys, history'.applied[l] # Nothing
      PROVE  Saved(history'.applied[l], file'[l])
  <2>1. history'.applied[l] = (IF l = k THEN a ELSE history.applied[l])
    BY DEF AppliedInv, HistoryShape
  <2>2. file'[l] = IF l = k THEN p ELSE file[l]
    BY DEF FileInv
  <2>3. QED
    BY <1>1, <2>1, <2>2 DEF AppliedInv
<1>2. QED
  BY <1>1 DEF AppliedInv

LEMMA AppliedInit == Init => AppliedInv
<1> SUFFICES ASSUME Init PROVE AppliedInv
  OBVIOUS
<1>1. history = [shown |-> Nothing, applied |-> [k \in Keys |-> Nothing], edits |-> 0, saves |-> 0]
  BY DEF Init
<1>2. history.applied = [k \in Keys |-> Nothing]
  BY <1>1
<1>3. QED
  BY <1>1, <1>2 DEF AppliedInv, HistoryShape

LEMMA AppliedStep == IInv /\ AppliedInv /\ [Next]_vars => AppliedInv'
<1> SUFFICES ASSUME IInv, AppliedInv, [Next]_vars PROVE AppliedInv'
  OBVIOUS
<1>1. HistoryShape /\ GuiInv(gui) /\ FileInv(file)
  BY DEF AppliedInv, IInv
<1>2. ASSUME file' = file, UNCHANGED history PROVE AppliedInv'
  BY <1>1, <1>2, AppliedKept DEF HistoryShape
<1>3. ASSUME NEW s, file' = file, history' = [history EXCEPT !.shown = s] PROVE AppliedInv'
  <2>1. Default \in Keys
    BY CardAssumption DEF CardAssumption
  <2>2. HistoryShape' /\ history'.applied = history.applied
    BY <1>1, <1>3, <2>1, HistoryFields
  <2>3. QED
    BY <1>3, <2>2, AppliedKept
<1>4. ASSUME NEW n, file' = file, history' = [history EXCEPT !.edits = n] PROVE AppliedInv'
  <2>1. Default \in Keys
    BY CardAssumption DEF CardAssumption
  <2>2. HistoryShape' /\ history'.applied = history.applied
    BY <1>1, <1>4, <2>1, HistoryFields
  <2>3. QED
    BY <1>4, <2>2, AppliedKept
<1>5. ASSUME NEW k \in Keys, NEW p, NEW a, NEW n, Save(k, p), a = Nothing \/ Saved(a, p),
             history' = [history EXCEPT !.saves = n, !.applied[k] = a]
      PROVE  AppliedInv'
  <2>1. HistoryShape' /\ history'.applied = [history.applied EXCEPT ![k] = a]
    BY <1>1, <1>5, HistoryFields
  <2>2. QED
    BY <1>1, <1>5, <2>1, AppliedSaved DEF Save
<1>6. ASSUME NEW v, NEW c, Show(v, c), file' = file PROVE AppliedInv'
  <2>1. UNCHANGED history \/ history' = [history EXCEPT !.shown = c]
    BY <1>6 DEF Show, LoadOcFields
  <2>2. QED
    BY <1>2, <1>3, <1>6, <2>1
<1>7. CASE SetView \/ Reselect
  BY <1>6, <1>7 DEF SetView, Reselect
<1>8. CASE MoveSlider \/ ApplyPreset \/ ToggleCurve \/ OnOcMove
  <2>1. history' = [history EXCEPT !.edits = history.edits + 1] /\ file' = file
    BY <1>8 DEF MoveSlider, ApplyPreset, ToggleCurve, OnOcMove, Drag, Edit
  <2>2. QED
    BY <1>4, <2>1
<1>9. ASSUME NEW g, GuiInv(g), g.view = "oc", ApplyControls(g) PROVE AppliedInv'
  <2> DEFINE k == Key[g.card]
             p == TabProfile(g, Find(k))
  <2>1. k \in Keys
    BY <1>9, CardAssumption DEF CardAssumption, GuiInv, GuiState
  <2>2. Save(k, p) /\ history' = [history EXCEPT !.saves = history.saves + 1, !.applied[k] = g]
    BY <1>9 DEF ApplyControls
  <2>3. p = TabProfile(g, Blank)
    BY DEF TabProfile
  <2> HIDE DEF k, p
  <2>4. Saved(g, p)
    BY <1>9, <2>3 DEF Saved
  <2>5. QED
    BY <1>5, <2>1, <2>2, <2>4
<1>10. CASE ApplyOc
  BY <1>1, <1>9, <1>10 DEF ApplyOc, OnTab
<1>11. CASE ResetOc
  <2>1. ApplyControls(Cleared) /\ gui.view = "oc"
    BY <1>11 DEF ResetOc, Cleared, OnTab
  <2>2. QED
    BY <1>1, <1>9, <2>1, ClearedInv
<1>12. ASSUME NEW c \in Cards, NEW p, CliSaves(Key[c], p) PROVE AppliedInv'
  <2>1. Key[c] \in Keys
    BY CardAssumption DEF CardAssumption
  <2>2. /\ Save(Key[c], p)
        /\ history' = [history EXCEPT !.saves = history.saves + 1, !.applied[Key[c]] = Nothing]
    BY <1>12 DEF CliSaves
  <2>3. QED
    BY <1>5, <2>1, <2>2
<1>13. ASSUME NEW c \in Cards, CmdOcKnob(c) \/ CmdOcProfileLoad(c) PROVE AppliedInv'
  BY <1>12, <1>13 DEF CmdOcKnob, CmdOcProfileLoad
<1>14. ASSUME Beside PROVE AppliedInv'
  BY <1>4, <1>14 DEF Beside
<1>15. CASE CmdOcProfileDelete
  BY <1>14, <1>15 DEF CmdOcProfileDelete
<1>16. ASSUME NEW c \in Cards, CmdOcProfileSave(c) \/ CmdOcVfcurve(c) \/ CmdOcReset(c)
       PROVE  AppliedInv'
  BY <1>14, <1>16 DEF CmdOcProfileSave, CmdOcVfcurve, CmdOcReset
<1>17. ASSUME NEW c \in Cards, Service(c) PROVE AppliedInv'
  BY <1>2, <1>17 DEF Service
<1>18. CASE UNCHANGED vars
  BY <1>2, <1>18 DEF vars
<1>19. QED
  BY <1>7, <1>8, <1>10, <1>11, <1>13, <1>15, <1>16, <1>17, <1>18 DEF Next

LEMMA LoadedCard ==
  ASSUME NEW v, NEW c, LoadOcFields(v, c)
  PROVE  gui'.view = v /\ gui'.card = c
<1> DEFINE p == Find(Key[c])
           Value(k, reported) == IF p.knob[k] # Unset THEN p.knob[k]
                                 ELSE IF k \in reported THEN hw[c].knob[k] ELSE SliderDefault[k]
           pos(reported) == [k \in Knobs |-> OnSlider(k, Value(k, reported))]
           edit(stock) == IF p.vf # NoCurve THEN p.vf ELSE stock
           mode == p.vf # NoCurve
<1>1. \E reported \in SUBSET {k \in Knobs : Accepts(c, k)},
         stock \in {NoCurve} \cup (IF c \in Locked THEN {} ELSE {[of |-> c, mv |-> StockVf[c]]}) :
        gui' = [view |-> v, card |-> c, pos |-> pos(reported), gated |-> Gated(reported, stock),
                curveMode |-> mode, edit |-> edit(stock), stock |-> stock]
  BY DEF LoadOcFields, Loaded
<1> HIDE DEF pos, edit, mode
<1>2. QED
  BY <1>1

(* The tab shows a profile that was saved as the tab was then *)
LEMMA LoadShowsSaved ==
  ASSUME IInv, NEW c \in Cards, NEW g, Saved(g, file[Key[c]]), LoadOcFields("oc", c)
  PROVE  LET curve == g.curveMode /\ ~g.gated
         IN /\ \A k \in Knobs \ (IF g.gated THEN Lockable ELSE IF curve THEN {"volt"} ELSE {}) :
                 gui'.pos[k] = g.pos[k]
            /\ gui'.curveMode = curve
            /\ curve => gui'.edit = g.edit
<1> DEFINE p == TabProfile(g, Blank)
           mode == g.curveMode /\ ~g.gated
           saved == Knobs \ (IF g.gated THEN Lockable ELSE IF mode THEN {"volt"} ELSE {})
<1>1. GuiInv(g) /\ g.view = "oc" /\ file[Key[c]] = p
  BY DEF Saved
<1>2. g.curveMode => Len(g.edit.mv) >= 2 /\ g.edit # NoCurve
  BY <1>1, NoCurveSound DEF GuiInv, EditInv
<1>3. p.vf = (IF mode THEN g.edit ELSE NoCurve) /\ \A k \in saved : k \in Knobs /\ p.knob[k] = g.pos[k]
  BY <1>2 DEF TabProfile
<1>4. Find(Key[c]) = p
  <2>1. p \in Profiles
    BY <1>1, TabProfileInv
  <2> HIDE DEF p
  <2>2. QED
    BY <1>1, <2>1, SentinelAssumption DEF Find, SentinelAssumption
<1> HIDE DEF p
<1>5. PICK reported \in SUBSET {k \in Knobs : Accepts(c, k)},
           stock \in {NoCurve} \cup (IF c \in Locked THEN {} ELSE {[of |-> c, mv |-> StockVf[c]]}) :
        LET Value(k) == IF p.knob[k] # Unset THEN p.knob[k]
                        ELSE IF k \in reported THEN hw[c].knob[k] ELSE SliderDefault[k]
        IN gui' = [view |-> "oc", card |-> c,
                   pos |-> [k \in Knobs |-> OnSlider(k, Value(k))],
                   gated |-> Gated(reported, stock),
                   curveMode |-> p.vf # NoCurve,
                   edit |-> IF p.vf # NoCurve THEN p.vf ELSE stock,
                   stock |-> stock]
  BY <1>4 DEF LoadOcFields, Loaded
<1> DEFINE Value(k) == IF p.knob[k] # Unset THEN p.knob[k]
                       ELSE IF k \in reported THEN hw[c].knob[k] ELSE SliderDefault[k]
<1>6. /\ gui'.pos = [k \in Knobs |-> OnSlider(k, Value(k))]
      /\ gui'.curveMode = (p.vf # NoCurve)
      /\ gui'.edit = IF p.vf # NoCurve THEN p.vf ELSE stock
  BY <1>5
<1>7. ASSUME NEW k \in saved PROVE gui'.pos[k] = g.pos[k]
  <2>1. g.pos[k] \in Int /\ g.pos[k] \in Low[k]..High[k] /\ k \in Knobs
    BY <1>1 DEF GuiInv, GuiState, OnSliders
  <2>2. Value(k) = g.pos[k]
    BY <1>3, <2>1, SentinelAssumption DEF SentinelAssumption
  <2>3. OnSlider(k, g.pos[k]) = g.pos[k]
    <3>1. Low[k] \in Int /\ High[k] \in Int
      BY <2>1, KnobAssumption DEF KnobAssumption
    <3>2. QED
      BY <2>1, <3>1 DEF OnSlider
  <2> HIDE DEF Value
  <2>4. QED
    BY <1>6, <2>1, <2>2, <2>3
<1>8. g.curveMode \in BOOLEAN /\ g.gated \in BOOLEAN
  BY <1>1 DEF GuiInv, GuiState
<1>9. mode \in BOOLEAN /\ (p.vf # NoCurve) = mode
  BY <1>2, <1>3, <1>8
<1>10. gui'.curveMode = mode /\ (mode => gui'.edit = g.edit)
  BY <1>3, <1>6, <1>9
<1>11. QED
  BY <1>7, <1>10

(* A profile that was applied on the tab comes back to it as it was, for    *)
(* every card of the model and whatever was changed in between without      *)
(* being saved.                                                             *)
THEOREM AppliedComesBack == Spec => AppliedIsShown
<1> DEFINE Shown(c) == LET g == history.applied[Key[c]]
       IN Opened(c) /\ g # Nothing =>
            LET curve == g.curveMode /\ ~g.gated
            IN /\ \A k \in Knobs \ (IF g.gated THEN Lockable ELSE IF curve THEN {"volt"} ELSE {}) :
                    gui'.pos[k] = g.pos[k]
               /\ gui'.curveMode = curve
               /\ curve => gui'.edit = g.edit
<1>1. IInv /\ AppliedInv /\ [Next]_vars => [\A c \in Cards : Shown(c)]_vars
  <2> SUFFICES ASSUME IInv, AppliedInv, Next, NEW c \in Cards, Opened(c),
                      history.applied[Key[c]] # Nothing
               PROVE  Shown(c)
    OBVIOUS
  <2>1. Saved(history.applied[Key[c]], file[Key[c]])
    <3>1. Key[c] \in Keys
      BY CardAssumption DEF CardAssumption
    <3>2. QED
      BY <3>1 DEF AppliedInv
  <2>2. gui'.view = "oc" /\ gui'.card = c /\ (gui.view # "oc" \/ gui.card # c) /\ gui \in GuiState
    BY DEF Opened, IInv, GuiInv
  <2>3. LoadOcFields("oc", c)
    <3>1. ASSUME NEW v, NEW d, Show(v, d) PROVE LoadOcFields("oc", c)
      <4>1. gui'.view = v /\ gui'.card = d
        <5>1. CASE v = "oc"
          BY <3>1, <5>1, LoadedCard DEF Show
        <5>2. CASE v # "oc"
          BY <2>2, <3>1, <5>2 DEF Show, GuiState
        <5>3. QED
          BY <5>1, <5>2
      <4>2. QED
        BY <2>2, <3>1, <4>1 DEF Show
    <3>2. ASSUME gui'.view = gui.view, gui'.card = gui.card PROVE FALSE
      BY <2>2, <3>2
    <3>3. CASE MoveSlider \/ ApplyPreset \/ ToggleCurve \/ OnOcMove
      BY <2>2, <3>2, <3>3 DEF MoveSlider, ApplyPreset, ToggleCurve, OnOcMove, Drag, Edit, GuiState
    <3>4. CASE ApplyOc
      BY <3>2, <3>4 DEF ApplyOc, ApplyControls
    <3>5. CASE ResetOc
      <4>1. gui' = Cleared
        BY <3>5 DEF ResetOc, ApplyControls, Cleared
      <4>2. QED
        BY <3>2, <4>1, ClearedInv DEF IInv
    <3>6. CASE CmdOcProfileDelete
      BY <3>2, <3>6 DEF CmdOcProfileDelete, Beside
    <3>7. ASSUME NEW d \in Cards, \/ CmdOcKnob(d) \/ CmdOcProfileLoad(d) \/ CmdOcProfileSave(d)
                                  \/ CmdOcVfcurve(d) \/ CmdOcReset(d) \/ Service(d)
          PROVE  FALSE
      BY <3>2, <3>7 DEF CmdOcKnob, CmdOcProfileLoad, CliSaves, CmdOcProfileSave, CmdOcVfcurve,
                        CmdOcReset, Beside, Service
    <3>8. QED
      BY <3>1, <3>3, <3>4, <3>5, <3>6, <3>7 DEF Next, SetView, Reselect
  <2>4. QED
    BY <2>1, <2>3, LoadShowsSaved
<1>2. QED
  BY <1>1, Invariant, AppliedInit, AppliedStep, InvInit, InvStep, PTL DEF Spec, AppliedIsShown

(* A step of the mouse on the curve leaves the anchors before the one that  *)
(* is dragged where they are, and raises those after it at most to it,      *)
(* with any number of points and anchors.                                   *)
THEOREM DraggedUpOnly == Spec => DragMovesUpOnly
<1> DEFINE Up == gui'.edit.mv # gui.edit.mv /\ OnTab /\ gui.curveMode /\ ~gui.gated =>
       LET at  == Anchors(Len(gui.edit.mv))
           old == [b \in DOMAIN at |-> gui.edit.mv[at[b]]]
           new == [b \in DOMAIN at |-> gui'.edit.mv[at[b]]]
       IN \A a \in DOMAIN at, to \in VfLow(gui.stock.mv)..VfHigh(gui.stock.mv) : Drag(a, to) =>
            \A b \in DOMAIN at :
              new[b] = IF b < a THEN old[b]
                       ELSE IF b = a THEN Max({to} \cup {old[d] : d \in 1..(a - 1)})
                       ELSE Max({old[b], new[a]})
<1>1. IInv => Up
  <2> DEFINE mv == gui.edit.mv
             at == Anchors(Len(mv))
             old == [b \in DOMAIN at |-> mv[at[b]]]
             new == [b \in DOMAIN at |-> gui'.edit.mv[at[b]]]
  <2> SUFFICES ASSUME IInv, OnTab, gui.curveMode, ~gui.gated, NEW a \in DOMAIN at,
                      NEW to \in VfLow(gui.stock.mv)..VfHigh(gui.stock.mv), Drag(a, to),
                      NEW b \in DOMAIN at
               PROVE  new[b] = IF b < a THEN old[b]
                               ELSE IF b = a THEN Max({to} \cup {old[d] : d \in 1..(a - 1)})
                               ELSE Max({old[b], new[a]})
    BY DEF Up
  <2>1. gui \in GuiState /\ EditInv(gui) /\ TabInv(gui) /\ gui.view = "oc"
    BY DEF IInv, GuiInv, OnTab
  <2>2. gui.edit \in Curves /\ gui.card \in Cards /\ gui.stock \in Curves /\ mv \in Seq(Nat)
    BY <2>1 DEF GuiState, Curves
  <2>3. Len(mv) >= 2 /\ gui.stock.mv # <<>>
    <3>1. Len(gui.stock.mv) >= 2
      BY <2>1 DEF TabInv
    <3>2. Len(<<>>) = 0
      OBVIOUS
    <3>3. QED
      BY <2>1, <3>1, <3>2 DEF EditInv
  <2>4. \A i \in 2..Len(mv) : mv[i - 1] <= mv[i]
    <3>1. gui.edit # NoCurve
      BY <2>3, NoCurveSound
    <3>2. QED
      BY <2>1, <3>1 DEF EditInv, Sound
  <2>5. to \in Nat
    <3> DEFINE lo == VfLow(gui.stock.mv)
               hi == VfHigh(gui.stock.mv)
    <3>1. lo \in Nat /\ hi \in Nat /\ to \in lo..hi
      BY <2>2, <2>3, Margins DEF Curves
    <3> HIDE DEF lo, hi
    <3>2. QED
      BY <3>1
  <2>6. gui'.edit.mv = Reinterp([mv EXCEPT ![at[a]] = to])
    <3> DEFINE r == Reinterp([mv EXCEPT ![at[a]] = to])
    <3>1. gui' = [gui EXCEPT !.edit.mv = r]
      BY DEF Drag, Edit
    <3> HIDE DEF r
    <3>2. gui'.edit.mv = r
      BY <2>1, <2>2, <3>1 DEF GuiState, Curves
    <3>3. QED
      BY <3>2 DEF r
  <2>7. new[b] = gui'.edit.mv[at[b]] /\ new[a] = gui'.edit.mv[at[a]]
    OBVIOUS
  <2> DEFINE moved == gui'.edit.mv
  <2>8. moved[at[b]] = IF b < a THEN old[b]
                       ELSE IF b = a THEN Max({to} \cup {old[d] : d \in 1..(a - 1)})
                       ELSE Max({old[b], moved[at[a]]})
    <3>1. MovedUp(mv, a, to, b)
      BY <2>2, <2>3, <2>4, <2>5, DragAnchors
    <3>2. moved = Moved(mv, a, to) /\ old = AtAnchors(mv)
      BY <2>6 DEF Moved, AtAnchors
    <3> HIDE DEF moved, mv, old
    <3>3. QED
      BY <3>1, <3>2 DEF MovedUp
  <2>9. QED
    BY <2>7, <2>8
<1>2. QED
  BY <1>1, Invariant, PTL DEF DragMovesUpOnly
===============================================================================
