---------------------------- MODULE WinFanTabProofs ----------------------------
(***************************************************************************)
(* Proofs about WinFanTab, for any cards, graph, table size, files and      *)
(* curves of any length: what sorting keeps, the types, the order of the    *)
(* fans' tables, what the service makes of a curve, that a curve comes back *)
(* as it was applied, and that an untouched editor shows what is saved.      *)
(***************************************************************************)
EXTENDS WinFanTab, FiniteSetTheorems, FunctionTheorems, WellFoundedInduction, TLAPS

(* Sequences of points, of which only the temperatures are compared         *)
Curve(c) == /\ Len(c) \in Nat /\ DOMAIN c = 1..Len(c)
            /\ c = [i \in 1..Len(c) |-> c[i]]
            /\ \A i \in 1..Len(c) : c[i][1] \in Int /\ c[i][2] \in Nat
-----------------------------------------------------------------------------
(* Sorting *)
Pre(c, j) == {i \in DOMAIN c : Before(c, i, j)}

(* The points in the order of their ranks                                   *)
LEMMA RankFacts ==
  ASSUME NEW c, Curve(c), NEW j \in 1..Len(c)
  PROVE  /\ IsFiniteSet(Pre(c, j)) /\ Cardinality(Pre(c, j)) \in Nat
         /\ Rank(c, j) = Cardinality(Pre(c, j)) + 1
         /\ Rank(c, j) \in 1..Len(c)
<1> DEFINE n == Len(c)
           P == Pre(c, j)
<1>1. n \in Nat /\ j \in 1..n /\ DOMAIN c = 1..n
  BY DEF Curve
<1>2. IsFiniteSet(1..n) /\ Cardinality(1..n) = n
  <2> HIDE DEF n
  <2>1. 1 \in Int /\ n \in Int /\ n >= 0
    BY <1>1
  <2>2. IsFiniteSet(1..n) /\ Cardinality(1..n) = IF 1 > n THEN 0 ELSE n - 1 + 1
    BY <2>1, FS_Interval
  <2>3. QED
    BY <2>1, <2>2
<1>3. P \subseteq (1..n) \ {j}
  BY <1>1 DEF Pre, Before, Curve
<1>4. IsFiniteSet((1..n) \ {j}) /\ Cardinality((1..n) \ {j}) = n - 1
  BY <1>1, <1>2, FS_RemoveElement
<1>5. IsFiniteSet(P) /\ Cardinality(P) <= n - 1
  BY <1>3, <1>4, FS_Subset
<1>6. Cardinality(P) \in Nat
  BY <1>5, FS_CardinalityType
<1>7. Rank(c, j) = Cardinality(P) + 1
  BY DEF Rank, Pre
<1> HIDE DEF P
<1>8. QED
  BY <1>1, <1>5, <1>6, <1>7 DEF P

LEMMA RankRises ==
  ASSUME NEW c, Curve(c), NEW i \in 1..Len(c), NEW j \in 1..Len(c), Before(c, i, j)
  PROVE  Rank(c, i) < Rank(c, j)
<1>1. Pre(c, i) \subseteq Pre(c, j) /\ i \in Pre(c, j) /\ i \notin Pre(c, i)
  BY DEF Pre, Before, Curve
<1>2. Cardinality(Pre(c, i)) <= Cardinality(Pre(c, j))
      /\ Cardinality(Pre(c, i)) # Cardinality(Pre(c, j))
  BY <1>1, RankFacts, FS_Subset
<1>3. QED
  BY <1>2, RankFacts

LEMMA RankOrders ==
  ASSUME NEW c, Curve(c), NEW i \in 1..Len(c), NEW j \in 1..Len(c)
  PROVE  /\ i # j => Before(c, i, j) \/ Before(c, j, i)
         /\ Rank(c, i) < Rank(c, j) => Before(c, i, j)
         /\ Rank(c, i) = Rank(c, j) => i = j
<1>1. i # j => Before(c, i, j) \/ Before(c, j, i)
  BY DEF Before, Curve
<1>2. Rank(c, i) \in Nat /\ Rank(c, j) \in Nat
  BY RankFacts
<1>3. Before(c, j, i) => Rank(c, j) < Rank(c, i)
  BY RankRises
<1>4. Before(c, i, j) => Rank(c, i) < Rank(c, j)
  BY RankRises
<1>5. QED
  BY <1>1, <1>2, <1>3, <1>4

(* The place that each point of the sorted curve had                        *)
Place(c, n) == CHOOSE i \in DOMAIN c : Rank(c, i) = n

LEMMA PlaceFacts ==
  ASSUME NEW c, Curve(c)
  PROVE  /\ \A n \in 1..Len(c) : Place(c, n) \in 1..Len(c) /\ Rank(c, Place(c, n)) = n
         /\ \A i \in 1..Len(c) : Rank(c, i) \in 1..Len(c) /\ Place(c, Rank(c, i)) = i
<1> DEFINE S == 1..Len(c)
           r == [i \in S |-> Rank(c, i)]
<1>1. DOMAIN c = S /\ Len(c) \in Nat
  BY DEF Curve
<1>2. IsFiniteSet(S)
  BY <1>1, FS_Interval
<1>3. \A i \in S : Rank(c, i) \in S
  BY RankFacts
<1>4. r \in [S -> S]
  BY <1>3
<1>5. \A i, j \in S : r[i] = r[j] => i = j
  BY RankOrders
<1>6. r \in Injection(S, S)
  BY <1>4, <1>5, Fun_IsInj DEF Injection
<1>7. r \in Surjection(S, S)
  BY <1>2, <1>6, FS_Injection
<1>8. \A n \in S : \E i \in S : r[i] = n
  BY <1>7 DEF Surjection
<1>9. ASSUME NEW n \in S PROVE Place(c, n) \in S /\ Rank(c, Place(c, n)) = n
  BY <1>1, <1>8 DEF Place
<1>10. ASSUME NEW i \in S PROVE Place(c, Rank(c, i)) = i
  BY <1>3, <1>9, RankOrders
<1>11. QED
  BY <1>3, <1>9, <1>10

LEMMA SortedFacts ==
  ASSUME NEW c, Curve(c)
  PROVE  /\ Len(Sorted(c)) = Len(c) /\ DOMAIN Sorted(c) = 1..Len(c)
         /\ \A n \in 1..Len(c) : Sorted(c)[n] = c[Place(c, n)]
         /\ \A i \in 1..Len(c) : c[i] = Sorted(c)[Rank(c, i)]
         /\ \A m, n \in 1..Len(c) : m <= n => Sorted(c)[m][1] <= Sorted(c)[n][1]
         /\ Curve(Sorted(c))
<1> DEFINE s == Sorted(c)
<1>1. Len(c) \in Nat /\ DOMAIN c = 1..Len(c)
  BY DEF Curve
<1>2. s = [n \in 1..Len(c) |-> c[Place(c, n)]]
  BY <1>1 DEF Sorted, Place
<1> HIDE DEF s
<1>3. Len(s) = Len(c) /\ DOMAIN s = 1..Len(c)
  BY <1>1, <1>2
<1>4. \A n \in 1..Len(c) : s[n] = c[Place(c, n)]
  BY <1>2
<1>5. \A i \in 1..Len(c) : c[i] = s[Rank(c, i)]
  BY <1>4, PlaceFacts
<1>6. ASSUME NEW m \in 1..Len(c), NEW n \in 1..Len(c), m <= n
      PROVE  s[m][1] <= s[n][1]
  <2>1. Place(c, m) \in 1..Len(c) /\ Place(c, n) \in 1..Len(c)
        /\ Rank(c, Place(c, m)) = m /\ Rank(c, Place(c, n)) = n
    BY PlaceFacts
  <2>2. CASE m = n
    BY <1>4, <2>1, <2>2 DEF Curve
  <2>3. CASE m < n
    <3>1. Before(c, Place(c, m), Place(c, n))
      BY <2>1, <2>3, RankOrders
    <3>2. QED
      BY <1>4, <2>1, <3>1 DEF Before, Curve
  <2>4. QED
    BY <1>6, <2>2, <2>3
<1>7. \A n \in 1..Len(c) : s[n][1] \in Int /\ s[n][2] \in Nat
  BY <1>4, PlaceFacts DEF Curve
<1>8. s = [i \in 1..Len(s) |-> s[i]]
  BY <1>2, <1>3
<1>9. Curve(s)
  BY <1>1, <1>3, <1>7, <1>8 DEF Curve
<1>10. QED
  BY <1>3, <1>4, <1>5, <1>6, <1>9 DEF s

(* Of the points that sorting moves, as many remain of every kind           *)
LEMMA MovedCount ==
  ASSUME NEW c, Curve(c), NEW I \in SUBSET (1..Len(c))
  PROVE  Cardinality({n \in 1..Len(c) : Place(c, n) \in I}) = Cardinality(I)
<1> DEFINE S == 1..Len(c)
           J == {n \in S : Place(c, n) \in I}
           f == [n \in J |-> Place(c, n)]
<1>1. IsFiniteSet(S) /\ IsFiniteSet(J)
  <2>1. Len(c) \in Nat
    BY DEF Curve
  <2>2. IsFiniteSet(S)
    BY <2>1, FS_Interval
  <2>3. QED
    BY <2>2, FS_Subset
<1>2. f \in [J -> I]
  OBVIOUS
<1>3. ASSUME NEW m \in J, NEW n \in J, f[m] = f[n] PROVE m = n
  <2>1. Rank(c, Place(c, m)) = m /\ Rank(c, Place(c, n)) = n
    BY PlaceFacts
  <2>2. QED
    BY <1>3, <2>1
<1>4. \A i \in I : Rank(c, i) \in J /\ f[Rank(c, i)] = i
  BY PlaceFacts
<1>5. f \in Bijection(J, I)
  BY <1>2, <1>3, <1>4, Fun_IsBij
<1>6. ExistsBijection(J, I)
  BY <1>5 DEF ExistsBijection
<1>7. QED
  BY <1>1, <1>6, FS_Bijection

Count(c, p) == Cardinality({i \in DOMAIN c : c[i] = p})
At(c, v)    == Cardinality({i \in DOMAIN c : c[i][1] = v})

LEMMA SortedPoints ==
  ASSUME NEW c, Curve(c), NEW p
  PROVE  Count(Sorted(c), p) = Count(c, p)
<1> DEFINE I == {i \in 1..Len(c) : c[i] = p}
<1>1. DOMAIN Sorted(c) = 1..Len(c) /\ DOMAIN c = 1..Len(c)
      /\ \A n \in 1..Len(c) : Sorted(c)[n] = c[Place(c, n)] /\ Place(c, n) \in 1..Len(c)
  BY SortedFacts, PlaceFacts DEF Curve
<1>2. {n \in DOMAIN Sorted(c) : Sorted(c)[n] = p} = {n \in 1..Len(c) : Place(c, n) \in I}
  BY <1>1
<1>3. Cardinality({n \in 1..Len(c) : Place(c, n) \in I}) = Cardinality(I)
  BY MovedCount
<1>4. QED
  BY <1>1, <1>2, <1>3 DEF Count

LEMMA SortedTemps ==
  ASSUME NEW c, Curve(c), NEW v
  PROVE  At(Sorted(c), v) = At(c, v)
<1> DEFINE I == {i \in 1..Len(c) : c[i][1] = v}
<1>1. DOMAIN Sorted(c) = 1..Len(c) /\ DOMAIN c = 1..Len(c)
      /\ \A n \in 1..Len(c) : Sorted(c)[n] = c[Place(c, n)] /\ Place(c, n) \in 1..Len(c)
  BY SortedFacts, PlaceFacts DEF Curve
<1>2. {n \in DOMAIN Sorted(c) : Sorted(c)[n][1] = v} = {n \in 1..Len(c) : Place(c, n) \in I}
  BY <1>1
<1>3. Cardinality({n \in 1..Len(c) : Place(c, n) \in I}) = Cardinality(I)
  BY MovedCount
<1>4. QED
  BY <1>1, <1>2, <1>3 DEF At

(* A curve that is sorted twice still has the points it had                 *)
LEMMA SortedTwice ==
  ASSUME NEW c, Curve(c)
  PROVE  SamePoints(Sorted(Sorted(c)), c)
<1> DEFINE s == Sorted(c)
<1>1. Curve(s) /\ Len(s) = Len(c)
  BY SortedFacts
<1>2. \A p : Count(s, p) = Count(c, p)
  BY SortedPoints
<1> HIDE DEF s
<1>3. Len(Sorted(s)) = Len(c)
  BY <1>1, SortedFacts
<1>4. \A p : Count(Sorted(s), p) = Count(s, p)
  BY <1>1, SortedPoints
<1>5. \A p : Count(Sorted(s), p) = Count(c, p)
  BY <1>2, <1>4
<1>6. SamePoints(Sorted(s), c)
  BY <1>3, <1>5 DEF SamePoints, Count
<1>7. QED
  BY <1>6 DEF s

(* A curve that is in order is sorted already *)
Ordered(c) == \A i, j \in 1..Len(c) : i <= j => c[i][1] <= c[j][1]

LEMMA SortedSelf ==
  ASSUME NEW c, Curve(c), Ordered(c)
  PROVE  Sorted(c) = c
<1>1. Len(c) \in Nat /\ DOMAIN c = 1..Len(c)
  BY DEF Curve
<1>2. ASSUME NEW j \in 1..Len(c) PROVE Rank(c, j) = j
  <2>1. Pre(c, j) = 1..(j - 1)
    BY <1>1 DEF Pre, Before, Ordered, Curve
  <2>2. Cardinality(1..(j - 1)) = j - 1
    <3>1. 1 \in Int /\ j - 1 \in Int /\ j - 1 >= 0
      BY <1>1
    <3>2. Cardinality(1..(j - 1)) = IF 1 > j - 1 THEN 0 ELSE (j - 1) - 1 + 1
      BY <3>1, FS_Interval
    <3>3. QED
      BY <3>1, <3>2
  <2>3. QED
    BY <1>1, <2>1, <2>2, RankFacts
<1>3. ASSUME NEW n \in 1..Len(c) PROVE Place(c, n) = n
  BY <1>2, PlaceFacts
<1>4. Sorted(c) = [n \in 1..Len(c) |-> c[Place(c, n)]]
  BY <1>1 DEF Sorted, Place
<1>5. Sorted(c) = [n \in 1..Len(c) |-> c[n]]
  BY <1>3, <1>4
<1>6. QED
  BY <1>5 DEF Curve
-----------------------------------------------------------------------------
(* Smallest and largest elements *)
LEMMA MinIsThere ==
  ASSUME NEW S, S \subseteq Nat, S # {}
  PROVE  Min(S) \in S /\ \A y \in S : Min(S) <= y
<1>1. PICK x \in S : \A y \in S : ~(<<y, x>> \in OpToRel(<, Nat))
  BY NatLessThanWellFounded, WFMin
<1>2. \A y \in S : x <= y
  <2> SUFFICES ASSUME NEW y \in S, ~(x <= y) PROVE FALSE
    OBVIOUS
  <2>1. y \in Nat /\ x \in Nat /\ y < x
    OBVIOUS
  <2>2. <<y, x>> \in OpToRel(<, Nat)
    BY <2>1 DEF OpToRel
  <2>3. QED
    BY <1>1, <2>2
<1>3. QED
  BY <1>2 DEF Min

LEMMA MaxIsThere ==
  ASSUME NEW S, NEW b \in Nat, S \subseteq 0..b, S # {}
  PROVE  Max(S) \in S /\ \A y \in S : y <= Max(S)
<1> DEFINE T == {n \in 0..b : b - n \in S}
<1>1. PICK y \in S : TRUE
  OBVIOUS
<1>2. T \subseteq Nat /\ b - y \in T
  BY <1>1
<1>3. Min(T) \in T /\ \A n \in T : Min(T) <= n
  BY <1>2, MinIsThere
<1> DEFINE m == Min(T)
<1> HIDE DEF m
<1>4. m \in 0..b /\ b - m \in S /\ \A n \in 0..b : b - n \in S => m <= n
  BY <1>3 DEF m
<1>5. ASSUME NEW z \in S PROVE z <= b - m
  <2>1. b - z \in 0..b /\ b - (b - z) = z
    BY <1>5
  <2>2. m <= b - z
    BY <1>4, <2>1
  <2>3. QED
    BY <1>4, <2>2
<1>6. \E x \in S : \A z \in S : x >= z
  <2>1. \A z \in S : b - m >= z
    BY <1>4, <1>5
  <2>2. QED
    BY <1>4, <2>1
<1>7. Max(S) \in S /\ \A z \in S : Max(S) >= z
  BY <1>6 DEF Max
<1>8. QED
  BY <1>7

LEMMA MinOfTwo ==
  ASSUME NEW a \in Int, NEW b \in Int
  PROVE  /\ Min({a, b}) \in Int /\ Min({a, b}) <= a /\ Min({a, b}) <= b
         /\ Max({a, b}) \in Int
<1>1. Min({a, b}) \in {a, b} /\ \A y \in {a, b} : Min({a, b}) <= y
  <2>1. CASE a <= b
    BY <2>1 DEF Min
  <2>2. CASE b <= a
    BY <2>2 DEF Min
  <2>3. QED
    BY <2>1, <2>2
<1>2. Max({a, b}) \in {a, b}
  <2>1. CASE a <= b
    BY <2>1 DEF Max
  <2>2. CASE b <= a
    BY <2>2 DEF Max
  <2>3. QED
    BY <2>1, <2>2
<1>3. QED
  BY <1>1, <1>2
-----------------------------------------------------------------------------
(* What the curves are made of *)
LEMMA NodesFacts ==
  /\ Speeds = 0..SpeedMax /\ SpeedMax \in Nat /\ Speeds \subseteq Nat
  /\ Spots \subseteq Nodes
  /\ \A p \in Spots : p[1] >= 0 /\ Readable(p)
  /\ \A p \in Nodes : p = <<p[1], p[2]>> /\ p[1] \in Int /\ p[1] <= ParseMax /\ p[2] \in Speeds
  /\ \A t \in Int, v \in Speeds : t <= ParseMax => <<t, v>> \in Nodes
<1>1. Speeds = 0..SpeedMax /\ SpeedMax \in Nat /\ Speeds \subseteq Nat
  BY RangeAssumption DEF Speeds
<1>2. TempMax \in Nat /\ ParseMax \in Nat /\ TempMax <= ParseMax
  BY RangeAssumption
<1>3. \A p \in Nodes : p = <<p[1], p[2]>> /\ p[1] \in Int /\ p[1] <= ParseMax /\ p[2] \in Speeds
  BY DEF Nodes
<1>4. \A t \in Int, v \in Speeds : t <= ParseMax => <<t, v>> \in Nodes
  BY DEF Nodes
<1>5. ASSUME NEW p \in Spots
      PROVE  p \in Nodes /\ p[1] >= 0 /\ Readable(p)
  <2>1. p = <<p[1], p[2]>> /\ p[1] \in 0..TempMax /\ p[2] \in Speeds
    BY DEF Spots, Temps
  <2>2. p[1] \in Int /\ p[1] <= ParseMax /\ p[1] \in 0..ParseMax
    BY <1>2, <2>1
  <2>3. <<p[1], p[2]>> \in Nodes
    BY <1>4, <2>1, <2>2
  <2>4. QED
    BY <2>1, <2>2, <2>3 DEF Readable
<1>6. Spots \subseteq Nodes
  BY <1>5
<1>7. QED
  BY <1>1, <1>3, <1>4, <1>5, <1>6

LEMMA IsCurve ==
  ASSUME NEW c \in Seq(Nodes)
  PROVE  Curve(c) /\ \A i \in 1..Len(c) : c[i] \in Nodes
<1>1. Len(c) \in Nat /\ DOMAIN c = 1..Len(c) /\ c \in [1..Len(c) -> Nodes]
  OBVIOUS
<1>2. c = [i \in 1..Len(c) |-> c[i]] /\ \A i \in 1..Len(c) : c[i] \in Nodes
  BY <1>1
<1>3. QED
  BY <1>1, <1>2, NodesFacts DEF Curve

LEMMA IsSeq ==
  ASSUME NEW c, Curve(c), \A i \in 1..Len(c) : c[i] \in Nodes
  PROVE  c \in Seq(Nodes)
<1> DEFINE d == [i \in 1..Len(c) |-> c[i]]
<1>1. Len(c) \in Nat /\ c = d
  BY DEF Curve
<1>2. d \in [1..Len(c) -> Nodes]
  OBVIOUS
<1>3. d \in Seq(Nodes)
  BY <1>1, <1>2
<1>4. QED
  BY <1>1, <1>3

LEMMA SortedType ==
  ASSUME NEW c \in Seq(Nodes)
  PROVE  /\ Sorted(c) \in Seq(Nodes) /\ Len(Sorted(c)) = Len(c)
         /\ DOMAIN Sorted(c) = 1..Len(c)
         /\ \A n \in 1..Len(c) : \E i \in 1..Len(c) : Sorted(c)[n] = c[i]
<1>1. Curve(c) /\ \A i \in 1..Len(c) : c[i] \in Nodes
  BY IsCurve
<1>2. Curve(Sorted(c)) /\ Len(Sorted(c)) = Len(c) /\ DOMAIN Sorted(c) = 1..Len(c)
      /\ \A n \in 1..Len(c) : Sorted(c)[n] = c[Place(c, n)] /\ Place(c, n) \in 1..Len(c)
  BY <1>1, SortedFacts, PlaceFacts
<1>3. \A n \in 1..Len(c) : Sorted(c)[n] \in Nodes
  BY <1>1, <1>2
<1>4. Sorted(c) \in Seq(Nodes)
  BY <1>2, <1>3, IsSeq
<1>5. QED
  BY <1>2, <1>4
-----------------------------------------------------------------------------
(* What the service reads of a curve that was saved: in the range of the    *)
(* file, and all of it if every point was                                   *)
LEMMA ReadBackType ==
  ASSUME NEW c \in Seq(Nodes)
  PROVE  /\ ReadBack(c) \in Seq(Nodes)
         /\ \A i \in DOMAIN ReadBack(c) : ReadBack(c)[i][1] >= 0
         /\ (\A i \in DOMAIN c : Readable(c[i])) => ReadBack(c) = Sorted(c)
<1> DEFINE s   == Sorted(c)
           bad == {i \in DOMAIN s : ~Readable(s[i])}
           k   == Min(bad)
<1>1. /\ s \in Seq(Nodes) /\ Len(s) = Len(c) /\ DOMAIN s = 1..Len(c)
      /\ \A n \in 1..Len(c) : \E i \in 1..Len(c) : s[n] = c[i]
  BY SortedType
<1>2. ReadBack(c) = IF bad = {} THEN s ELSE SubSeq(s, 1, k - 1)
  BY DEF ReadBack
<1> HIDE DEF s
<1>3. CASE bad = {}
  <2>1. ReadBack(c) = s
    BY <1>2, <1>3
  <2>2. \A i \in DOMAIN s : Readable(s[i])
    BY <1>3
  <2>3. \A i \in DOMAIN s : s[i][1] >= 0
    BY <2>2, RangeAssumption DEF Readable
  <2>4. QED
    BY <1>1, <2>1, <2>3 DEF s
<1>4. CASE bad # {}
  <2>1. Len(c) \in Nat /\ DOMAIN c = 1..Len(c)
    OBVIOUS
  <2>2. bad \subseteq Nat /\ bad \subseteq 1..Len(c)
    BY <1>1, <2>1
  <2>3. k \in bad /\ \A i \in bad : k <= i
    BY <1>4, <2>2, MinIsThere
  <2> HIDE DEF k
  <2>4. k \in 1..Len(c) /\ ~Readable(s[k])
    BY <1>1, <2>3
  <2>5. ReadBack(c) = SubSeq(s, 1, k - 1)
    BY <1>2, <1>4
  <2> DEFINE r == [i \in 1..(k - 1) |-> s[i]]
  <2>6. SubSeq(s, 1, k - 1) = r /\ DOMAIN r = 1..(k - 1)
    BY <1>1, <2>1, <2>4
  <2>7. ASSUME NEW i \in 1..(k - 1) PROVE s[i] \in Nodes /\ Readable(s[i])
    <3>1. i \in 1..Len(c) /\ ~(k <= i)
      BY <2>1, <2>4
    <3>2. i \in DOMAIN s /\ i \notin bad
      BY <1>1, <2>3, <3>1
    <3>3. s[i] \in Nodes
      BY <1>1, <3>1
    <3>4. QED
      BY <3>2, <3>3
  <2>8. r \in Seq(Nodes)
    <3>1. k - 1 \in Nat /\ r \in [1..(k - 1) -> Nodes]
      BY <2>4, <2>7
    <3>2. QED
      BY <3>1
  <2>9. \A i \in DOMAIN r : r[i][1] >= 0
    BY <2>7, RangeAssumption DEF Readable
  <2>10. ~(\A i \in DOMAIN c : Readable(c[i]))
    BY <1>1, <2>1, <2>4
  <2>11. QED
    BY <2>5, <2>6, <2>8, <2>9, <2>10
<1>5. QED
  BY <1>3, <1>4

(* The highest speed up to a point *)
LEMMA RisingFacts ==
  ASSUME NEW c \in Seq(Nodes)
  PROVE  /\ Rising(c) \in Seq(Nodes) /\ Len(Rising(c)) = Len(c) /\ DOMAIN Rising(c) = 1..Len(c)
         /\ \A i \in 1..Len(c) : /\ Rising(c)[i][1] = c[i][1]
                                /\ \E k \in 1..i : Rising(c)[i][2] = c[k][2]
                                /\ \A j \in 1..i : c[j][2] <= Rising(c)[i][2]
<1> DEFINE V(i) == {c[j][2] : j \in 1..i}
           r    == [i \in 1..Len(c) |-> <<c[i][1], Max(V(i))>>]
<1>1. Len(c) \in Nat /\ DOMAIN c = 1..Len(c) /\ \A i \in 1..Len(c) : c[i] \in Nodes
  BY IsCurve
<1>2. ASSUME NEW i \in 1..Len(c)
      PROVE  Max(V(i)) \in V(i) /\ \A y \in V(i) : y <= Max(V(i))
  <2>1. V(i) # {} /\ V(i) \subseteq 0..SpeedMax
    BY <1>1, <1>2, NodesFacts
  <2>2. SpeedMax \in Nat
    BY NodesFacts
  <2> HIDE DEF V
  <2>3. QED
    BY <2>1, <2>2, MaxIsThere
<1>3. Rising(c) = r
  BY <1>1 DEF Rising
<1>4. ASSUME NEW i \in 1..Len(c)
      PROVE  /\ r[i][1] = c[i][1] /\ r[i] \in Nodes
             /\ \E k \in 1..i : r[i][2] = c[k][2]
             /\ \A j \in 1..i : c[j][2] <= r[i][2]
  <2>1. r[i] = <<c[i][1], Max(V(i))>>
    OBVIOUS
  <2>2. PICK j \in 1..i : Max(V(i)) = c[j][2]
    BY <1>2
  <2>3. \A n \in 1..i : c[n][2] <= Max(V(i))
    BY <1>2
  <2>4. c[i] \in Nodes /\ c[j] \in Nodes
    BY <1>1, <1>4
  <2> HIDE DEF r, V
  <2>5. <<c[i][1], c[j][2]>> \in Nodes
    BY <2>4, NodesFacts
  <2>6. QED
    BY <2>1, <2>2, <2>3, <2>5
<1> HIDE DEF r
<1>5. r \in [1..Len(c) -> Nodes]
  BY <1>4 DEF r
<1>6. r \in Seq(Nodes) /\ Len(r) = Len(c) /\ DOMAIN r = 1..Len(c)
  BY <1>1, <1>5
<1>7. QED
  BY <1>3, <1>4, <1>6

(* A table that a driver takes *)
Sound(t) ==
  \A i, j \in DOMAIN t : i < j => t[i][1] <= t[j][1] /\ t[i][2] <= t[j][2]

OnDial(t) == t \in Seq(Nodes) /\ \A i \in DOMAIN t : t[i][1] >= 0

GoodTable(t) == OnDial(t) /\ Len(t) <= PairCount /\ Sound(t)

LEMMA RisingSorted ==
  ASSUME NEW c \in Seq(Nodes)
  PROVE  /\ Rising(Sorted(c)) \in Seq(Nodes) /\ Len(Rising(Sorted(c))) = Len(c)
         /\ DOMAIN Rising(Sorted(c)) = 1..Len(c)
         /\ \A i \in 1..Len(c) : Rising(Sorted(c))[i][1] = Sorted(c)[i][1]
         /\ Sound(Rising(Sorted(c)))
<1> DEFINE s == Sorted(c)
           r == Rising(s)
<1>1. s \in Seq(Nodes) /\ Len(s) = Len(c) /\ DOMAIN s = 1..Len(c)
  BY SortedType
<1>2. \A i, j \in 1..Len(c) : i <= j => s[i][1] <= s[j][1]
  BY IsCurve, SortedFacts
<1>3. Curve(s)
  BY IsCurve, SortedFacts
<1> HIDE DEF s
<1>4. /\ r \in Seq(Nodes) /\ Len(r) = Len(c) /\ DOMAIN r = 1..Len(c)
      /\ \A i \in 1..Len(c) : /\ r[i][1] = s[i][1]
                             /\ \E k \in 1..i : r[i][2] = s[k][2]
                             /\ \A j \in 1..i : s[j][2] <= r[i][2]
  BY <1>1, RisingFacts
<1> HIDE DEF r
<1>5. ASSUME NEW i \in 1..Len(c), NEW j \in 1..Len(c), i < j
      PROVE  r[i][1] <= r[j][1] /\ r[i][2] <= r[j][2]
  <2>1. PICK n \in 1..i : r[i][2] = s[n][2]
    BY <1>4
  <2>2. n \in 1..j
    BY <1>5, <2>1
  <2>3. s[n][2] <= r[j][2]
    BY <1>4, <2>2
  <2>4. s[i][1] <= s[j][1]
    BY <1>2, <1>5
  <2>5. QED
    BY <1>4, <2>1, <2>3, <2>4
<1>6. Sound(r)
  BY <1>4, <1>5 DEF Sound
<1>7. QED
  BY <1>4, <1>6 DEF r, s

LEMMA SetCurveGood ==
  ASSUME NEW c, OnDial(c), NEW old, GoodTable(old)
  PROVE  GoodTable(SetCurve(c, old))
<1>1. CASE ~Fits(c)
  BY <1>1 DEF SetCurve
<1>2. CASE Fits(c)
  <2> DEFINE r == Rising(Sorted(c))
  <2>1. c \in Seq(Nodes) /\ Len(c) <= PairCount /\ DOMAIN c = 1..Len(c)
    BY <1>2 DEF Fits, OnDial
  <2>2. /\ r \in Seq(Nodes) /\ Len(r) = Len(c) /\ DOMAIN r = 1..Len(c)
        /\ \A i \in 1..Len(c) : r[i][1] = Sorted(c)[i][1]
        /\ Sound(r)
    BY <2>1, RisingSorted
  <2>3. \A i \in 1..Len(c) : \E n \in 1..Len(c) : Sorted(c)[i] = c[n]
    BY <2>1, SortedType
  <2>4. \A i \in DOMAIN r : r[i][1] >= 0
    BY <2>1, <2>2, <2>3 DEF OnDial
  <2>5. SetCurve(c, old) = r
    BY <1>2 DEF SetCurve
  <2> HIDE DEF r
  <2>6. QED
    BY <2>1, <2>2, <2>4, <2>5 DEF GoodTable, OnDial
<1>3. QED
  BY <1>1, <1>2

LEMMA AppliedGood ==
  ASSUME NEW p \in Profiles, OnDial(p.curve), NEW old, GoodTable(old)
  PROVE  GoodTable(Applied(p, old))
<1>1. p.mode \in Modes
  BY DEF Profiles
<1>2. CASE p.mode = "auto"
  <2>1. OnDial(StockTable)
    <3>1. StockTable \in Seq(Spots) /\ StockTable \in Seq(Nodes)
      BY RangeAssumption, NodesFacts
    <3>2. \A i \in DOMAIN StockTable : StockTable[i] \in Spots
      BY <3>1
    <3>3. QED
      BY <3>1, <3>2, NodesFacts DEF OnDial
  <2>2. QED
    BY <1>2, <2>1, SetCurveGood DEF Applied
<1>3. CASE p.mode = "max"
  <2> DEFINE flat == [i \in DOMAIN FlatTemps |-> <<FlatTemps[i], SpeedMax>>]
  <2>1. FlatTemps \in Seq(Temps) /\ Len(FlatTemps) \in Nat /\ DOMAIN FlatTemps = 1..Len(FlatTemps)
        /\ \A i \in DOMAIN FlatTemps : FlatTemps[i] \in Temps
    BY RangeAssumption
  <2>2. \A i \in DOMAIN FlatTemps : FlatTemps[i] >= 0 /\ <<FlatTemps[i], SpeedMax>> \in Spots
    BY <2>1, NodesFacts, RangeAssumption DEF Spots, Temps
  <2>3. flat \in [1..Len(FlatTemps) -> Nodes]
    BY <2>1, <2>2, NodesFacts
  <2>4. flat \in Seq(Nodes) /\ \A i \in DOMAIN flat : flat[i][1] >= 0
    <3>1. \A i \in DOMAIN flat : flat[i][1] = FlatTemps[i] /\ i \in DOMAIN FlatTemps
      OBVIOUS
    <3>2. \A i \in DOMAIN flat : flat[i][1] >= 0
      BY <2>2, <3>1
    <3> HIDE DEF flat
    <3>3. flat \in Seq(Nodes)
      BY <2>1, <2>3
    <3>4. QED
      BY <3>2, <3>3
  <2>5. Applied(p, old) = SetCurve(flat, old)
    BY <1>3 DEF Applied
  <2> HIDE DEF flat
  <2>6. QED
    BY <2>4, <2>5, SetCurveGood DEF OnDial
<1>4. CASE p.mode = "curve"
  BY <1>4, SetCurveGood DEF Applied
<1>5. CASE p.mode = "none"
  BY <1>5 DEF Applied
<1>6. QED
  BY <1>1, <1>2, <1>3, <1>4, <1>5 DEF Modes

(* What a fan runs that was given a curve: each of its points is one of the *)
(* curve's, at the highest speed that the curve has up to there.            *)
LEMMA RunsWhatIsDrawn ==
  ASSUME NEW c \in Seq(Nodes)
  PROVE  Follows(Rising(Sorted(c)), c)
<1> DEFINE s == Sorted(c)
           r == Rising(s)
<1>1. Curve(c) /\ DOMAIN c = 1..Len(c) /\ Len(c) \in Nat
  BY IsCurve
<1>2. /\ s \in Seq(Nodes) /\ Len(s) = Len(c) /\ DOMAIN s = 1..Len(c)
      /\ \A n \in 1..Len(c) : s[n] = c[Place(c, n)] /\ Place(c, n) \in 1..Len(c)
      /\ \A i \in 1..Len(c) : c[i] = s[Rank(c, i)] /\ Rank(c, i) \in 1..Len(c)
      /\ \A m, n \in 1..Len(c) : m <= n => s[m][1] <= s[n][1]
      /\ \A n \in 1..Len(c) : s[n][1] \in Int /\ s[n][2] \in Nat
  BY <1>1, SortedType, SortedFacts, PlaceFacts DEF Curve
<1>3. \A v : At(s, v) = At(c, v)
  BY <1>1, SortedTemps
<1> HIDE DEF s
<1>4. /\ r \in Seq(Nodes) /\ Len(r) = Len(c) /\ DOMAIN r = 1..Len(c)
      /\ \A i \in 1..Len(c) : /\ r[i][1] = s[i][1]
                             /\ \E k \in 1..i : r[i][2] = s[k][2]
                             /\ \A j \in 1..i : s[j][2] <= r[i][2]
  BY <1>2, RisingFacts
<1> HIDE DEF r
<1>5. ASSUME NEW i \in 1..Len(c)
      PROVE  \E j \in DOMAIN c : c[j][1] <= r[i][1] /\ c[j][2] = r[i][2]
  <2>1. PICK m \in 1..i : r[i][2] = s[m][2]
    BY <1>4
  <2>2. m \in 1..Len(c) /\ m <= i
    BY <1>1, <1>5, <2>1
  <2>3. s[m][1] <= s[i][1] /\ s[m] = c[Place(c, m)] /\ Place(c, m) \in 1..Len(c)
    BY <1>2, <1>5, <2>2
  <2>4. QED
    BY <1>1, <1>4, <2>1, <2>3
<1>6. ASSUME NEW i \in 1..Len(c), NEW j \in 1..Len(c), c[j][1] < r[i][1]
      PROVE  c[j][2] <= r[i][2]
  <2> DEFINE m == Rank(c, j)
  <2>1. m \in 1..Len(c) /\ c[j] = s[m]
    BY <1>2
  <2> HIDE DEF m
  <2>2. ~(i <= m)
    <3>1. SUFFICES ASSUME i <= m PROVE FALSE
      OBVIOUS
    <3>2. s[i][1] <= s[m][1] /\ s[i][1] \in Int /\ s[m][1] \in Int
      BY <1>2, <2>1, <3>1
    <3>3. s[m][1] < s[i][1]
      BY <1>4, <1>6, <2>1
    <3>4. QED
      BY <3>2, <3>3
  <2>3. m \in 1..i
    BY <1>1, <2>1, <2>2
  <2>4. QED
    BY <1>4, <2>1, <2>3
<1>7. ASSUME NEW v PROVE At(r, v) = At(c, v)
  <2>1. {i \in DOMAIN r : r[i][1] = v} = {n \in DOMAIN s : s[n][1] = v}
    BY <1>2, <1>4
  <2>2. QED
    BY <1>3, <2>1 DEF At
<1>8. Follows(r, c)
  BY <1>1, <1>4, <1>5, <1>6, <1>7 DEF Follows, At
<1>9. QED
  BY <1>8 DEF r, s

(* To follow a sorted curve is to follow the curve *)
LEMMA FollowsSorted ==
  ASSUME NEW c \in Seq(Nodes), NEW t, Follows(t, Sorted(c))
  PROVE  Follows(t, c)
<1> DEFINE s == Sorted(c)
<1>1. Curve(c) /\ DOMAIN c = 1..Len(c)
  BY IsCurve
<1>2. /\ Len(s) = Len(c) /\ DOMAIN s = 1..Len(c)
      /\ \A n \in 1..Len(c) : s[n] = c[Place(c, n)] /\ Place(c, n) \in 1..Len(c)
      /\ \A i \in 1..Len(c) : c[i] = s[Rank(c, i)] /\ Rank(c, i) \in 1..Len(c)
  BY <1>1, SortedFacts, PlaceFacts
<1>3. \A v : At(s, v) = At(c, v)
  BY <1>1, SortedTemps
<1> HIDE DEF s
<1>4. /\ Len(t) = Len(s)
      /\ \A i \in DOMAIN t :
           /\ \E j \in DOMAIN s : s[j][1] <= t[i][1] /\ s[j][2] = t[i][2]
           /\ \A j \in DOMAIN s : s[j][1] < t[i][1] => s[j][2] <= t[i][2]
      /\ \A v \in Temps : At(t, v) = At(s, v)
  BY DEF Follows, At, s
<1>5. ASSUME NEW i \in DOMAIN t
      PROVE  /\ \E j \in DOMAIN c : c[j][1] <= t[i][1] /\ c[j][2] = t[i][2]
             /\ \A j \in DOMAIN c : c[j][1] < t[i][1] => c[j][2] <= t[i][2]
  <2>1. PICK j \in DOMAIN s : s[j][1] <= t[i][1] /\ s[j][2] = t[i][2]
    BY <1>4
  <2>2. Place(c, j) \in DOMAIN c /\ c[Place(c, j)] = s[j]
    BY <1>1, <1>2, <2>1
  <2>3. ASSUME NEW k \in DOMAIN c, c[k][1] < t[i][1] PROVE c[k][2] <= t[i][2]
    <3>1. Rank(c, k) \in DOMAIN s /\ c[k] = s[Rank(c, k)]
      BY <1>1, <1>2
    <3>2. s[Rank(c, k)][1] < t[i][1]
      BY <2>3, <3>1
    <3>3. s[Rank(c, k)][2] <= t[i][2]
      BY <1>4, <3>1, <3>2
    <3>4. QED
      BY <3>1, <3>3
  <2>4. QED
    BY <2>1, <2>2, <2>3
<1>6. Len(t) = Len(c) /\ \A v \in Temps : At(t, v) = At(c, v)
  BY <1>2, <1>3, <1>4
<1>7. QED
  BY <1>5, <1>6 DEF Follows, At
-----------------------------------------------------------------------------
(* The fields that the controls and the history have *)
Shape ==
  /\ gui = [ready |-> gui.ready, view |-> gui.view, card |-> gui.card, curve |-> gui.curve,
            drag |-> gui.drag]
  /\ history = [drawn |-> history.drawn, applied |-> history.applied, edits |-> history.edits,
                saves |-> history.saves]

(* The types, the fans' tables, and what the file has of an applied curve   *)
GuiOK ==
  /\ gui.ready \in BOOLEAN /\ gui.view \in Views /\ gui.card \in Cards
  /\ gui.curve \in Seq(Nodes) /\ gui.drag \in Nat
  /\ gui.view = "fan" => Len(gui.curve) >= 2

FileOK == file \in [Keys -> Profiles \cup {Absent}]

TableOK == table \in [Cards -> Seq(Nodes)] /\ \A c \in Cards : GoodTable(table[c])

SavedOK ==
  /\ history.applied \in [Keys -> Seq(Nodes) \cup {Nothing}]
  /\ \A k \in Keys : LET x == history.applied[k]
                     IN x # Nothing => Len(x) >= 2 /\ file[k] = [mode |-> "curve", curve |-> x]

TabInv == Shape /\ GuiOK /\ FileOK /\ TableOK /\ SavedOK

LEMMA InvTypes == TabInv => TypeOK
<1> SUFFICES ASSUME TabInv PROVE TypeOK
  OBVIOUS
<1>1. \A c \in Cards : table[c] \in Seq(Nodes) /\ Len(table[c]) <= PairCount
                      /\ \A i \in DOMAIN table[c] : table[c][i][1] >= 0
  BY DEF TabInv, TableOK, GoodTable, OnDial
<1>2. QED
  BY <1>1 DEF TabInv, GuiOK, FileOK, TypeOK

LEMMA KeyType == ASSUME NEW c \in Cards PROVE Key[c] \in Keys /\ Key[c] # Default
  BY KeyAssumption

LEMMA EmptySeq == <<>> \in Seq(Nodes) /\ Len(<<>>) = 0 /\ DOMAIN <<>> = {}
  OBVIOUS

LEMMA FindType == ASSUME FileOK, NEW k \in Keys PROVE Find(k) \in Profiles
<1>1. file[k] \in Profiles \cup {Absent} /\ file[Default] \in Profiles \cup {Absent}
  BY KeyAssumption DEF FileOK
<1>2. NoProfile \in Profiles
  BY EmptySeq DEF NoProfile, Profiles, Modes
<1>3. QED
  BY <1>1, <1>2 DEF Find

LEMMA LoadType ==
  ASSUME FileOK, NEW k \in Keys
  PROVE  Load(k) \in Profiles /\ OnDial(Load(k).curve)
<1>1. Find(k) \in Profiles
  BY FindType
<1> DEFINE f == Find(k)
<1>2. f.mode \in Modes /\ f.curve \in Seq(Nodes) /\ f = [mode |-> f.mode, curve |-> f.curve]
  BY <1>1 DEF Profiles
<1>3. Load(k) = [f EXCEPT !.curve = ReadBack(f.curve)]
  BY DEF Load
<1> HIDE DEF f
<1>4. Load(k) = [mode |-> f.mode, curve |-> ReadBack(f.curve)]
  BY <1>2, <1>3
<1>5. OnDial(ReadBack(f.curve)) /\ ReadBack(f.curve) \in Seq(Nodes)
  BY <1>2, ReadBackType DEF OnDial
<1>6. QED
  BY <1>2, <1>4, <1>5 DEF Profiles

(* An applied curve that lies on the graph is read back whole               *)
LEMMA AppliedRead ==
  ASSUME TabInv, NEW k \in Keys, history.applied[k] # Nothing, OnGraph(history.applied[k])
  PROVE  /\ history.applied[k] \in Seq(Nodes) /\ Len(history.applied[k]) >= 2
         /\ Load(k).mode = "curve" /\ Load(k).curve = Sorted(history.applied[k])
<1> DEFINE x == history.applied[k]
<1>1. x \in Seq(Nodes) /\ Len(x) >= 2 /\ file[k] = [mode |-> "curve", curve |-> x]
  BY DEF TabInv, SavedOK
<1>2. \A i \in DOMAIN x : Readable(x[i])
  BY NodesFacts DEF OnGraph
<1> HIDE DEF x
<1>3. [mode |-> "curve", curve |-> x] \in Profiles
  BY <1>1 DEF Profiles, Modes
<1>4. Find(k) = [mode |-> "curve", curve |-> x]
  BY <1>1, <1>3, FileAssumption DEF Find
<1>5. ReadBack(x) = Sorted(x)
  BY <1>1, <1>2, ReadBackType
<1>6. Load(k) = [[mode |-> "curve", curve |-> x] EXCEPT !.curve = ReadBack(x)]
  BY <1>4 DEF Load
<1>7. Load(k).mode = "curve" /\ Load(k).curve = Sorted(x)
  BY <1>5, <1>6
<1>8. QED
  BY <1>1, <1>7 DEF x

LEMMA EditorCurvesType ==
  ASSUME TabInv, NEW c \in Cards, NEW x \in EditorCurves(c)
  PROVE  x \in Seq(Nodes) /\ Len(x) >= 2
<1> DEFINE p == Load(Key[c])
           Y == IF p.mode = "curve" /\ Len(p.curve) >= 2 THEN {p.curve}
                ELSE {DefaultCurve} \cup (IF Len(table[c]) >= 2 THEN {table[c]} ELSE {})
<1>1. p.curve \in Seq(Nodes)
  BY KeyType, LoadType DEF TabInv, Profiles
<1>2. table[c] \in Seq(Nodes)
  BY DEF TabInv, TableOK
<1>3. DefaultCurve \in Seq(Nodes) /\ Len(DefaultCurve) >= 2
  BY RangeAssumption, NodesFacts
<1>4. PICK y \in Y : x = Sorted(y)
  BY DEF EditorCurves
<1>5. y \in Seq(Nodes) /\ Len(y) >= 2
  BY <1>1, <1>2, <1>3, <1>4
<1>6. QED
  BY <1>4, <1>5, SortedType

-----------------------------------------------------------------------------
(* What the service reads is in order, with every point in range            *)
Whole(c) == Ordered(c) /\ \A i \in 1..Len(c) : Readable(c[i])

LEMMA ReadBackWholly ==
  ASSUME NEW c \in Seq(Nodes)
  PROVE  Whole(ReadBack(c))
<1> DEFINE s   == Sorted(c)
           bad == {i \in DOMAIN s : ~Readable(s[i])}
           k   == Min(bad)
<1>1. s \in Seq(Nodes) /\ Len(s) = Len(c) /\ DOMAIN s = 1..Len(c) /\ Len(c) \in Nat
  BY SortedType
<1>2. Ordered(s)
  BY <1>1, IsCurve, SortedFacts DEF Ordered
<1>3. ReadBack(c) = IF bad = {} THEN s ELSE SubSeq(s, 1, k - 1)
  BY DEF ReadBack
<1> HIDE DEF s
<1>4. CASE bad = {}
  <2>1. \A i \in 1..Len(s) : Readable(s[i])
    BY <1>1, <1>4
  <2>2. QED
    BY <1>2, <1>3, <1>4, <2>1 DEF Whole
<1>5. CASE bad # {}
  <2>1. bad \subseteq Nat
    BY <1>1
  <2>2. k \in bad /\ \A i \in bad : k <= i
    BY <1>5, <2>1, MinIsThere
  <2> HIDE DEF k
  <2>3. k \in 1..Len(c)
    BY <1>1, <2>2
  <2> DEFINE r == SubSeq(s, 1, k - 1)
  <2>4. Len(r) = k - 1 /\ \A i \in 1..(k - 1) : r[i] = s[i]
    BY <1>1, <2>3
  <2>5. \A i \in 1..(k - 1) : Readable(s[i])
    <3> SUFFICES ASSUME NEW i \in 1..(k - 1) PROVE Readable(s[i])
      OBVIOUS
    <3>1. i \in DOMAIN s /\ ~(k <= i)
      BY <1>1, <2>3
    <3>2. QED
      BY <2>2, <3>1
  <2>6. 1..(k - 1) \subseteq 1..Len(s)
    BY <1>1, <2>3
  <2> HIDE DEF r
  <2>7. Ordered(r)
    BY <1>2, <2>4, <2>6 DEF Ordered
  <2>8. Whole(r)
    BY <2>4, <2>5, <2>7 DEF Whole
  <2>9. QED
    BY <1>3, <1>5, <2>8 DEF r
<1>6. QED
  BY <1>4, <1>5

LEMMA LoadWhole ==
  ASSUME FileOK, NEW k \in Keys
  PROVE  Load(k).curve \in Seq(Nodes) /\ Whole(Load(k).curve)
<1>1. Find(k) \in Profiles
  BY FindType
<1> DEFINE f == Find(k)
<1>2. f.curve \in Seq(Nodes) /\ f = [mode |-> f.mode, curve |-> f.curve]
  BY <1>1 DEF Profiles
<1>3. Load(k) = [f EXCEPT !.curve = ReadBack(f.curve)]
  BY DEF Load
<1> HIDE DEF f
<1>4. Load(k).curve = ReadBack(f.curve)
  BY <1>2, <1>3
<1>5. QED
  BY <1>2, <1>4, ReadBackWholly, ReadBackType

(* The steps *)
LEMMA TabInit == Init => TabInv
<1> SUFFICES ASSUME Init PROVE TabInv
  OBVIOUS
<1>1. PICK r \in BOOLEAN, c \in {CHOOSE d \in Cards : TRUE} :
        gui = [ready |-> r, view |-> "other", card |-> c, curve |-> <<>>, drag |-> 0]
  BY DEF Init
<1>2. gui.view = "other" /\ gui.ready = r /\ gui.card = c /\ gui.curve = <<>> /\ gui.drag = 0
  BY <1>1
<1>3. c \in Cards
  BY <1>1, KeyAssumption
<1>4. GuiOK
  BY <1>1, <1>2, <1>3, EmptySeq DEF GuiOK, Views
<1>5. FileOK
  BY FileAssumption DEF Init, FileOK
<1>6. TableOK
  <2>1. table = [d \in Cards |-> <<>>]
    BY DEF Init
  <2>2. table \in [Cards -> Seq(Nodes)] /\ \A d \in Cards : table[d] = <<>>
    BY <2>1, EmptySeq
  <2>3. GoodTable(<<>>)
    BY EmptySeq, RangeAssumption DEF GoodTable, OnDial, Sound
  <2>4. QED
    BY <2>2, <2>3 DEF TableOK
<1>7. SavedOK
  <2>1. history.applied = [k \in Keys |-> Nothing]
    BY DEF Init
  <2>2. QED
    BY <2>1 DEF SavedOK
<1>8. Shape
  <2>1. history = [drawn |-> FALSE, applied |-> [k \in Keys |-> Nothing], edits |-> 0, saves |-> 0]
    BY DEF Init
  <2>2. QED
    BY <1>1, <1>2, <2>1 DEF Shape
<1>9. QED
  BY <1>4, <1>5, <1>6, <1>7, <1>8 DEF TabInv

(* A step that changes nothing but what the window shows                    *)
LEMMA WindowOnly ==
  ASSUME TabInv, Shape', GuiOK', UNCHANGED <<file, table>>, history'.applied = history.applied
  PROVE  TabInv'
<1>1. FileOK' /\ TableOK'
  BY DEF TabInv, FileOK, TableOK
<1>2. SavedOK'
  BY DEF TabInv, SavedOK
<1>3. QED
  BY <1>1, <1>2 DEF TabInv

LEMMA ShowTypes ==
  ASSUME TabInv, NEW v \in Views, NEW c \in Cards, Show(v, c), UNCHANGED <<file, table>>
  PROVE  TabInv'
<1>0. gui = [ready |-> gui.ready, view |-> gui.view, card |-> gui.card, curve |-> gui.curve,
             drag |-> gui.drag]
      /\ history = [drawn |-> history.drawn, applied |-> history.applied,
                    edits |-> history.edits, saves |-> history.saves]
  BY DEF TabInv, Shape
<1>1. history' = [history EXCEPT !.drawn = FALSE]
  BY DEF Show
<1>2. history' = [drawn |-> FALSE, applied |-> history.applied, edits |-> history.edits,
                  saves |-> history.saves]
  BY <1>0, <1>1
<1>3. CASE v = "fan"
  <2>1. PICK x \in EditorCurves(c) : gui' = [gui EXCEPT !.view = v, !.card = c, !.curve = x]
    BY <1>3 DEF Show
  <2>2. x \in Seq(Nodes) /\ Len(x) >= 2
    BY EditorCurvesType
  <2>3. gui' = [ready |-> gui.ready, view |-> v, card |-> c, curve |-> x, drag |-> gui.drag]
    BY <1>0, <2>1
  <2>4. Shape' /\ GuiOK' /\ history'.applied = history.applied
    BY <1>2, <2>2, <2>3 DEF Shape, GuiOK, TabInv
  <2>5. QED
    BY <2>4, WindowOnly
<1>4. CASE v # "fan"
  <2>1. gui' = [gui EXCEPT !.view = v, !.card = c]
    BY <1>4 DEF Show
  <2>2. gui' = [ready |-> gui.ready, view |-> v, card |-> c, curve |-> gui.curve, drag |-> gui.drag]
    BY <1>0, <2>1
  <2>3. Shape' /\ GuiOK' /\ history'.applied = history.applied
    BY <1>2, <1>4, <2>2 DEF Shape, GuiOK, TabInv
  <2>4. QED
    BY <2>3, WindowOnly
<1>5. QED
  BY <1>3, <1>4

LEMMA EditTypes ==
  ASSUME TabInv, NEW new \in Seq(Nodes), Len(new) >= 2, Edit(new)
  PROVE  TabInv'
<1>1. gui' = [gui EXCEPT !.curve = new] /\ UNCHANGED <<file, table>>
      /\ history' = [history EXCEPT !.edits = @ + 1, !.drawn = TRUE]
  BY DEF Edit
<1>2. Shape' /\ history'.applied = history.applied
  BY <1>1 DEF TabInv, Shape
<1>3. gui'.view = gui.view /\ gui'.ready = gui.ready /\ gui'.card = gui.card
      /\ gui'.drag = gui.drag /\ gui'.curve = new
  BY <1>1 DEF TabInv, Shape
<1>4. GuiOK'
  BY <1>3 DEF TabInv, GuiOK
<1>5. QED
  BY <1>1, <1>2, <1>4, WindowOnly

LEMMA DragTypes ==
  ASSUME TabInv, NEW i \in Nat, gui' = [gui EXCEPT !.drag = i], UNCHANGED <<file, table, history>>
  PROVE  TabInv'
<1>1. Shape'
  BY DEF TabInv, Shape
<1>2. gui'.view = gui.view /\ gui'.ready = gui.ready /\ gui'.card = gui.card
      /\ gui'.curve = gui.curve /\ gui'.drag = i
  BY DEF TabInv, Shape
<1>3. GuiOK'
  BY <1>2 DEF TabInv, GuiOK
<1>4. QED
  BY <1>1, <1>3, WindowOnly

LEMMA SaveTypes ==
  ASSUME TabInv, NEW k \in Keys, NEW mode \in Modes, NEW curve \in Seq(Nodes),
         mode = "curve" => Len(curve) >= 2, SaveFanProfile(k, mode, curve)
  PROVE  TabInv'
<1> DEFINE a == IF mode = "curve" THEN curve ELSE Nothing
           n == history.saves + 1
           applied == [history.applied EXCEPT ![k] = a]
           f == Load(k)
           y == IF mode = "curve" THEN curve ELSE f.curve
<1>1. gui' = gui /\ table' = table /\ history' = [history EXCEPT !.saves = n, !.applied[k] = a]
      /\ file' = [file EXCEPT ![k] = [f EXCEPT !.mode = mode, !.curve = y]]
  BY DEF SaveFanProfile
<1>2. f \in Profiles
  BY LoadType DEF TabInv
<1> HIDE DEF n, a, f, y
<1>3. ASSUME NEW z, z = [history EXCEPT !.saves = n]
      PROVE  z = [drawn |-> history.drawn, applied |-> history.applied, edits |-> history.edits,
                  saves |-> n]
  BY <1>3 DEF TabInv, Shape
<1>4. ASSUME NEW z, z = [drawn |-> history.drawn, applied |-> history.applied,
                         edits |-> history.edits, saves |-> n]
      PROVE  [z EXCEPT !.applied[k] = a] =
               [drawn |-> history.drawn, applied |-> applied, edits |-> history.edits, saves |-> n]
  BY <1>4
<1>5. history' = [drawn |-> history.drawn, applied |-> applied, edits |-> history.edits, saves |-> n]
  BY <1>1, <1>3, <1>4
<1>6. [f EXCEPT !.mode = mode, !.curve = y] = [mode |-> mode, curve |-> y]
  <2>1. f = [mode |-> f.mode, curve |-> f.curve]
    BY <1>2 DEF Profiles
  <2>2. ASSUME NEW z, z = [f EXCEPT !.mode = mode]
        PROVE  z = [mode |-> mode, curve |-> f.curve]
    BY <2>1, <2>2
  <2>3. ASSUME NEW z, z = [mode |-> mode, curve |-> f.curve]
        PROVE  [z EXCEPT !.curve = y] = [mode |-> mode, curve |-> y]
    BY <2>3
  <2>4. QED
    BY <2>2, <2>3
<1>7. y \in Seq(Nodes)
  BY <1>2 DEF y, Profiles
<1>8. file' = [file EXCEPT ![k] = [mode |-> mode, curve |-> y]]
  BY <1>1, <1>6
<1>9. FileOK'
  <2>1. [mode |-> mode, curve |-> y] \in Profiles
    BY <1>7 DEF Profiles
  <2>2. QED
    BY <1>8, <2>1 DEF TabInv, FileOK
<1>10. history'.applied = applied
  BY <1>5
<1>11. SavedOK'
  <2>1. a \in Seq(Nodes) \cup {Nothing}
    BY DEF a
  <2>2. history.applied \in [Keys -> Seq(Nodes) \cup {Nothing}]
    BY DEF TabInv, SavedOK
  <2>3. applied \in [Keys -> Seq(Nodes) \cup {Nothing}]
    BY <2>1, <2>2
  <2>4. ASSUME NEW j \in Keys, applied[j] # Nothing
        PROVE  Len(applied[j]) >= 2 /\ file'[j] = [mode |-> "curve", curve |-> applied[j]]
    <3>1. CASE j = k
      <4>1. applied[j] = a
        BY <2>2, <3>1
      <4>2. mode = "curve" /\ a = curve /\ y = curve
        BY <2>4, <4>1 DEF a, y
      <4>3. file'[j] = [mode |-> mode, curve |-> y]
        BY <1>8, <3>1 DEF TabInv, FileOK
      <4>4. QED
        BY <4>1, <4>2, <4>3
    <3>2. CASE j # k
      <4>1. applied[j] = history.applied[j] /\ file'[j] = file[j]
        BY <1>8, <2>2, <3>2 DEF TabInv, FileOK
      <4>2. QED
        BY <2>4, <4>1 DEF TabInv, SavedOK
    <3>3. QED
      BY <3>1, <3>2
  <2>5. QED
    BY <1>10, <2>3, <2>4 DEF SavedOK
<1>12. Shape'
  BY <1>1, <1>5 DEF TabInv, Shape
<1>13. GuiOK' /\ TableOK'
  BY <1>1 DEF TabInv, GuiOK, TableOK
<1>14. QED
  BY <1>9, <1>11, <1>12, <1>13 DEF TabInv

LEMMA ServiceTypes ==
  ASSUME TabInv, NEW c \in Cards, Service(c)
  PROVE  TabInv' /\ table'[c] = Applied(Load(Key[c]), table[c])
<1> DEFINE p == Load(Key[c])
           t == Applied(p, table[c])
<1>1. table' = [table EXCEPT ![c] = t] /\ UNCHANGED <<gui, file, history>>
  BY DEF Service
<1>2. p \in Profiles /\ OnDial(p.curve)
  BY KeyType, LoadType DEF TabInv
<1>3. GoodTable(t)
  BY <1>2, AppliedGood DEF TabInv, TableOK
<1> HIDE DEF t
<1>4. table'[c] = t /\ TableOK'
  BY <1>1, <1>3 DEF TabInv, TableOK, GoodTable, OnDial
<1>5. Shape' /\ GuiOK' /\ FileOK' /\ SavedOK'
  BY <1>1 DEF TabInv, Shape, GuiOK, FileOK, SavedOK
<1>6. QED
  BY <1>4, <1>5 DEF TabInv, t

LEMMA MoveTypes == TabInv /\ OnMouseMove => TabInv'
<1> SUFFICES ASSUME TabInv, OnMouseMove PROVE TabInv'
  OBVIOUS
<1> DEFINE c == gui.curve
           i == gui.drag
<1>1. PICK p \in Spots : Edit([c EXCEPT ![i] = Dragged(i, p)])
  BY DEF OnMouseMove
<1>2. i \in DOMAIN c /\ c \in Seq(Nodes) /\ Len(c) >= 2 /\ i \in 1..Len(c)
      /\ c \in [1..Len(c) -> Nodes]
  BY DEF OnMouseMove, InEditor, TabInv, GuiOK
<1> DEFINE lo == IF i > 1 THEN c[i - 1][1] + 1 ELSE 0
           hi == IF i < Len(c) THEN c[i + 1][1] - 1 ELSE TempMax
           m  == Min({hi, Max({lo, p[1]})})
<1>3. Dragged(i, p) = <<m, p[2]>>
  BY DEF Dragged
<1> HIDE DEF c, i
<1>4. hi \in Int /\ hi <= ParseMax
  <2>1. CASE i < Len(c)
    <3>1. c[i + 1] \in Nodes
      BY <1>2, <2>1
    <3>2. c[i + 1][1] \in Int /\ c[i + 1][1] <= ParseMax
      BY <3>1, NodesFacts
    <3>3. hi = c[i + 1][1] - 1
      BY <2>1
    <3>4. QED
      BY <3>2, <3>3, RangeAssumption
  <2>2. CASE ~(i < Len(c))
    BY <2>2, RangeAssumption
  <2>3. QED
    BY <2>1, <2>2
<1>5. lo \in Int
  <2>1. CASE i > 1
    <3>1. c[i - 1] \in Nodes
      BY <1>2, <2>1
    <3>2. QED
      BY <2>1, <3>1, NodesFacts
  <2>2. CASE ~(i > 1)
    BY <2>2
  <2>3. QED
    BY <2>1, <2>2
<1>6. p[1] \in Int /\ p[2] \in Speeds
  BY NodesFacts
<1> HIDE DEF hi, lo
<1>7. m \in Int /\ m <= ParseMax
  <2>1. Max({lo, p[1]}) \in Int
    BY <1>5, <1>6, MinOfTwo
  <2> DEFINE x == Max({lo, p[1]})
  <2> HIDE DEF x
  <2>2. Min({hi, x}) \in Int /\ Min({hi, x}) <= hi
    BY <1>4, <2>1, MinOfTwo DEF x
  <2>3. QED
    BY <1>4, <2>2, RangeAssumption DEF x
<1> HIDE DEF m
<1>8. Dragged(i, p) \in Nodes
  BY <1>3, <1>6, <1>7, NodesFacts
<1> DEFINE d == Dragged(i, p)
           new == [c EXCEPT ![i] = d]
<1> HIDE DEF d
<1>9. new \in Seq(Nodes) /\ Len(new) >= 2
  BY <1>2, <1>8 DEF d
<1> HIDE DEF new
<1>10. Edit(new)
  BY <1>1 DEF new, d, c, i
<1>11. QED
  BY <1>9, <1>10, EditTypes

LEMMA ClickTypes == TabInv /\ (OnDblClick \/ OnRDown \/ ResetCurve) => TabInv'
<1> SUFFICES ASSUME TabInv, OnDblClick \/ OnRDown \/ ResetCurve PROVE TabInv'
  OBVIOUS
<1> DEFINE c == gui.curve
<1>1. c \in Seq(Nodes) /\ Len(c) >= 2 /\ Len(c) \in Nat /\ DOMAIN c = 1..Len(c)
      /\ \A i \in 1..Len(c) : c[i] \in Nodes
  BY DEF OnDblClick, OnRDown, ResetCurve, InEditor, TabInv, GuiOK
<1>2. CASE OnDblClick
  <2>1. PICK p \in Spots : Edit(Sorted(Append(c, p)))
    BY <1>2 DEF OnDblClick
  <2> HIDE DEF c
  <2>2. Append(c, p) \in Seq(Nodes) /\ Len(Append(c, p)) = Len(c) + 1
    BY <1>1, NodesFacts
  <2> DEFINE d == Append(c, p)
  <2> HIDE DEF d
  <2>3. Sorted(d) \in Seq(Nodes) /\ Len(Sorted(d)) >= 2
    <3>1. d \in Seq(Nodes) /\ Len(d) = Len(c) + 1
      BY <2>2 DEF d
    <3>2. Sorted(d) \in Seq(Nodes) /\ Len(Sorted(d)) = Len(d)
      BY <3>1, SortedType
    <3>3. QED
      BY <1>1, <3>1, <3>2
  <2>4. QED
    BY <2>1, <2>3, EditTypes DEF d
<1>3. CASE OnRDown
  <2> DEFINE new(i) == [j \in 1..(Len(c) - 1) |-> IF j < i THEN c[j] ELSE c[j + 1]]
  <2>1. PICK i \in DOMAIN c : Edit(new(i))
    BY <1>3 DEF OnRDown
  <2>2. Len(c) > 2
    BY <1>3 DEF OnRDown
  <2> HIDE DEF c
  <2>3. \A j \in 1..(Len(c) - 1) : c[j] \in Nodes /\ c[j + 1] \in Nodes
    BY <1>1
  <2>4. new(i) \in [1..(Len(c) - 1) -> Nodes] /\ Len(c) - 1 \in Nat
    BY <1>1, <2>3
  <2> DEFINE x == new(i)
  <2> HIDE DEF new
  <2>5. x \in Seq(Nodes) /\ Len(x) = Len(c) - 1
    BY <2>4
  <2>6. Len(x) >= 2
    BY <1>1, <2>2, <2>5
  <2>7. QED
    BY <2>1, <2>5, <2>6, EditTypes
<1>4. CASE ResetCurve
  BY <1>4, NodesFacts, RangeAssumption, EditTypes DEF ResetCurve
<1>5. QED
  BY <1>2, <1>3, <1>4

LEMMA TabStep == TabInv /\ [Next]_vars => TabInv'
<1> SUFFICES ASSUME TabInv, [Next]_vars PROVE TabInv'
  OBVIOUS
<1>1. CASE SetView
  BY <1>1, ShowTypes DEF SetView, TabInv, GuiOK
<1>2. CASE Reselect
  BY <1>2, ShowTypes DEF Reselect, TabInv, GuiOK
<1>3. CASE OnLDown
  <2>1. PICK i \in DOMAIN gui.curve : gui' = [gui EXCEPT !.drag = i]
    BY <1>3 DEF OnLDown
  <2>2. i \in Nat /\ UNCHANGED <<file, table, history>>
    BY <1>3 DEF OnLDown, TabInv, GuiOK
  <2>3. QED
    BY <2>1, <2>2, DragTypes
<1>4. CASE OnLUp
  BY <1>4, DragTypes DEF OnLUp
<1>5. CASE ApplyCurve
  <2>1. Key[gui.card] \in Keys /\ gui.curve \in Seq(Nodes) /\ Len(gui.curve) >= 2
    BY <1>5, KeyType DEF ApplyCurve, InEditor, TabInv, GuiOK
  <2>2. "curve" \in Modes
    BY DEF Modes
  <2>3. QED
    BY <1>5, <2>1, <2>2, SaveTypes DEF ApplyCurve
<1>6. CASE AutoOrMax
  <2>1. PICK m \in {"auto", "max"} : SaveFanProfile(Key[gui.card], m, <<>>)
    BY <1>6 DEF AutoOrMax
  <2>2. m \in Modes /\ m # "curve" /\ Key[gui.card] \in Keys
    BY KeyType DEF Modes, TabInv, GuiOK
  <2>3. QED
    BY <2>1, <2>2, EmptySeq, SaveTypes
<1>7. CASE Tray
  <2> DEFINE k == IF gui.ready THEN Key[gui.card] ELSE Default
  <2>1. PICK m \in {"auto", "max"} : SaveFanProfile(k, m, <<>>)
    BY <1>7 DEF Tray
  <2>2. m \in Modes /\ m # "curve" /\ k \in Keys
    BY KeyType, KeyAssumption DEF Modes, TabInv, GuiOK
  <2> HIDE DEF k
  <2>3. QED
    BY <2>1, <2>2, EmptySeq, SaveTypes
<1>8. ASSUME NEW c \in Cards, Service(c) PROVE TabInv'
  BY <1>8, ServiceTypes
<1>9. CASE UNCHANGED vars
  BY <1>9 DEF vars, TabInv, Shape, GuiOK, FileOK, TableOK, SavedOK
<1>10. QED
  BY <1>1, <1>2, <1>3, <1>4, <1>5, <1>6, <1>7, <1>8, <1>9, MoveTypes, ClickTypes DEF Next

-----------------------------------------------------------------------------
(* An editor that nobody has drawn on: in order and in range, and the curve *)
(* of the selected card where that has one                                  *)
ShowsSaved(x, p) == p.mode = "curve" /\ Len(p.curve) >= 2 => x = p.curve

EditorOK ==
  InEditor /\ ~history.drawn => Whole(gui.curve) /\ ShowsSaved(gui.curve, Load(Key[gui.card]))

LEMMA ShowLoads ==
  ASSUME TabInv, NEW c \in Cards, NEW x \in EditorCurves(c)
  PROVE  Whole(x) /\ ShowsSaved(x, Load(Key[c]))
<1> DEFINE p == Load(Key[c])
           Y == IF p.mode = "curve" /\ Len(p.curve) >= 2 THEN {p.curve}
                ELSE {DefaultCurve} \cup (IF Len(table[c]) >= 2 THEN {table[c]} ELSE {})
<1>1. p.curve \in Seq(Nodes) /\ Whole(p.curve)
  BY KeyType, LoadWhole DEF TabInv
<1>2. table[c] \in Seq(Nodes) /\ \A i \in 1..Len(table[c]) : Readable(table[c][i])
  <2>1. table[c] \in Seq(Nodes) /\ \A i \in DOMAIN table[c] : table[c][i][1] >= 0
    BY DEF TabInv, TableOK, GoodTable, OnDial
  <2>2. ASSUME NEW i \in 1..Len(table[c]) PROVE Readable(table[c][i])
    <3>1. table[c][i] \in Nodes /\ table[c][i][1] >= 0
      BY <2>1
    <3>2. table[c][i][1] \in Int /\ table[c][i][1] <= ParseMax /\ table[c][i][2] \in Speeds
      BY <3>1, NodesFacts
    <3>3. QED
      BY <3>1, <3>2, RangeAssumption DEF Readable
  <2>3. QED
    BY <2>1, <2>2
<1>3. DefaultCurve \in Seq(Nodes) /\ \A i \in 1..Len(DefaultCurve) : Readable(DefaultCurve[i])
  <2>1. DefaultCurve \in Seq(Spots)
    BY RangeAssumption
  <2>2. \A i \in 1..Len(DefaultCurve) : DefaultCurve[i] \in Spots
    BY <2>1
  <2>3. DefaultCurve \in Seq(Nodes)
    BY <2>1, NodesFacts
  <2>4. QED
    BY <2>2, <2>3, NodesFacts
<1>4. PICK y \in Y : x = Sorted(y)
  BY DEF EditorCurves
<1>5. y \in Seq(Nodes) /\ \A i \in 1..Len(y) : Readable(y[i])
  BY <1>1, <1>2, <1>3, <1>4 DEF Whole
<1>6. Len(x) = Len(y) /\ \A n \in 1..Len(y) : \E i \in 1..Len(y) : x[n] = y[i]
  BY <1>4, <1>5, SortedType
<1>7. Ordered(x)
  BY <1>4, <1>5, IsCurve, SortedFacts DEF Ordered
<1>8. ASSUME p.mode = "curve", Len(p.curve) >= 2 PROVE x = p.curve
  <2>1. x = Sorted(p.curve)
    BY <1>4, <1>8
  <2>2. QED
    BY <1>1, <2>1, IsCurve, SortedSelf DEF Whole
<1>9. QED
  BY <1>5, <1>6, <1>7, <1>8 DEF Whole, ShowsSaved

LEMMA ShowKeeps ==
  ASSUME TabInv, NEW v \in Views, NEW c \in Cards, Show(v, c), UNCHANGED <<file, table>>
  PROVE  EditorOK'
<1>1. CASE v = "fan"
  <2>1. PICK x \in EditorCurves(c) : gui' = [gui EXCEPT !.view = v, !.card = c, !.curve = x]
    BY <1>1 DEF Show
  <2>2. gui'.card = c /\ gui'.curve = x
    BY <2>1 DEF TabInv, Shape
  <2>3. Whole(x) /\ ShowsSaved(x, Load(Key[c]))
    BY ShowLoads
  <2>4. Load(Key[c])' = Load(Key[c])
    BY DEF Load, Find
  <2>5. Whole(gui'.curve) /\ ShowsSaved(gui'.curve, Load(Key[gui.card])')
    BY <2>2, <2>3, <2>4 DEF Load, Find
  <2>6. QED
    BY <2>5 DEF EditorOK, Whole, Ordered, Readable, ShowsSaved
<1>2. CASE v # "fan"
  <2>1. gui' = [gui EXCEPT !.view = v, !.card = c]
    BY <1>2 DEF Show
  <2>2. gui'.view # "fan"
    BY <1>2, <2>1 DEF TabInv, Shape
  <2>3. QED
    BY <2>2 DEF EditorOK, InEditor
<1>3. QED
  BY <1>1, <1>2

LEMMA SaveKeeps ==
  ASSUME TabInv, EditorOK, NEW k, NEW mode \in Modes, NEW curve,
         InEditor => k = Key[gui.card], mode = "curve" => curve = gui.curve,
         SaveFanProfile(k, mode, curve), gui' = gui, history'.drawn = history.drawn
  PROVE  EditorOK'
<1> SUFFICES ASSUME InEditor, ~history.drawn PROVE EditorOK'
  BY DEF EditorOK, InEditor
<1>1. k = Key[gui.card] /\ k \in Keys
  BY KeyType DEF TabInv, GuiOK
<1> DEFINE f == Load(k)
           y == IF mode = "curve" THEN curve ELSE f.curve
           p == [mode |-> mode, curve |-> y]
<1>2. f \in Profiles
  BY <1>1, LoadType DEF TabInv
<1>3. file' = [file EXCEPT ![k] = [f EXCEPT !.mode = mode, !.curve = y]]
  BY DEF SaveFanProfile
<1>4. y \in Seq(Nodes)
  BY <1>2 DEF Profiles, TabInv, GuiOK
<1>5. [f EXCEPT !.mode = mode, !.curve = y] = p
  <2>1. f = [mode |-> f.mode, curve |-> f.curve]
    BY <1>2 DEF Profiles
  <2>2. ASSUME NEW z, z = [f EXCEPT !.mode = mode]
        PROVE  z = [mode |-> mode, curve |-> f.curve]
    BY <2>1, <2>2
  <2>3. ASSUME NEW z, z = [mode |-> mode, curve |-> f.curve]
        PROVE  [z EXCEPT !.curve = y] = [mode |-> mode, curve |-> y]
    BY <2>3
  <2>4. QED
    BY <2>2, <2>3
<1>6. p \in Profiles
  BY <1>4 DEF Profiles
<1> HIDE DEF f, y, p
<1>7. file'[k] = p /\ p # Absent
  BY <1>1, <1>3, <1>5, <1>6, FileAssumption DEF TabInv, FileOK
<1>8. Load(Key[gui.card])' = [p EXCEPT !.curve = ReadBack(p.curve)]
  BY <1>1, <1>7 DEF Load, Find
<1>9. Load(Key[gui.card])' = [mode |-> mode, curve |-> ReadBack(y)]
  BY <1>8 DEF p
<1>10. Whole(gui.curve) /\ gui.curve \in Seq(Nodes)
  BY DEF EditorOK, TabInv, GuiOK
<1>11. ASSUME mode = "curve" PROVE ReadBack(y) = gui.curve
  <2>1. y = gui.curve
    BY <1>11 DEF y
  <2>2. \A i \in DOMAIN gui.curve : Readable(gui.curve[i])
    BY <1>10 DEF Whole
  <2>3. ReadBack(gui.curve) = Sorted(gui.curve)
    BY <1>10, <2>2, ReadBackType
  <2>4. QED
    BY <1>10, <2>1, <2>3, IsCurve, SortedSelf DEF Whole
<1>12. ShowsSaved(gui.curve, Load(Key[gui.card])')
  BY <1>9, <1>11 DEF ShowsSaved
<1>13. QED
  BY <1>10, <1>12 DEF EditorOK, Whole, Ordered, Readable, ShowsSaved

LEMMA EditorStep == TabInv /\ EditorOK /\ [Next]_vars => EditorOK'
<1> SUFFICES ASSUME TabInv, EditorOK, [Next]_vars PROVE EditorOK'
  OBVIOUS
<1>1. CASE SetView \/ Reselect
  BY <1>1, ShowKeeps DEF SetView, Reselect, TabInv, GuiOK
<1>2. ASSUME gui'.ready = gui.ready, gui'.view = gui.view, gui'.card = gui.card,
             gui'.curve = gui.curve, UNCHANGED <<file, history>>
      PROVE  EditorOK'
  <2>1. Load(Key[gui.card])' = Load(Key[gui.card])
    BY <1>2 DEF Load, Find
  <2>2. QED
    BY <1>2, <2>1 DEF EditorOK, InEditor, Whole, Ordered, Readable, ShowsSaved
<1>3. CASE OnLDown \/ OnLUp
  <2>1. PICK i : gui' = [gui EXCEPT !.drag = i]
    BY <1>3 DEF OnLDown, OnLUp
  <2>2. UNCHANGED <<file, history>>
    BY <1>3 DEF OnLDown, OnLUp
  <2>3. QED
    BY <1>2, <2>1, <2>2 DEF TabInv, Shape
<1>4. CASE OnMouseMove \/ OnDblClick \/ OnRDown \/ ResetCurve
  <2>1. history' = [history EXCEPT !.edits = @ + 1, !.drawn = TRUE]
    BY <1>4 DEF OnMouseMove, OnDblClick, OnRDown, ResetCurve, Edit
  <2>2. history'.drawn = TRUE
    BY <2>1 DEF TabInv, Shape
  <2>3. QED
    BY <2>2 DEF EditorOK
<1>5. ASSUME NEW k, NEW mode \in Modes, NEW curve, SaveFanProfile(k, mode, curve),
             InEditor => k = Key[gui.card], mode = "curve" => curve = gui.curve
      PROVE  EditorOK'
  <2>1. gui' = gui /\ history'.drawn = history.drawn
    BY <1>5 DEF SaveFanProfile, TabInv, Shape
  <2>2. QED
    BY <1>5, <2>1, SaveKeeps
<1>6. CASE ApplyCurve
  BY <1>5, <1>6 DEF ApplyCurve, Modes
<1>7. CASE AutoOrMax
  <2>1. PICK m \in {"auto", "max"} : SaveFanProfile(Key[gui.card], m, <<>>)
    BY <1>7 DEF AutoOrMax
  <2>2. QED
    BY <1>5, <2>1 DEF Modes
<1>8. CASE Tray
  <2> DEFINE k == IF gui.ready THEN Key[gui.card] ELSE Default
  <2>1. PICK m \in {"auto", "max"} : SaveFanProfile(k, m, <<>>)
    BY <1>8 DEF Tray
  <2>2. InEditor => k = Key[gui.card]
    BY DEF InEditor
  <2> HIDE DEF k
  <2>3. QED
    BY <1>5, <2>1, <2>2 DEF Modes
<1>9. ASSUME NEW c \in Cards, Service(c) PROVE EditorOK'
  BY <1>2, <1>9 DEF Service
<1>10. CASE UNCHANGED vars
  BY <1>2, <1>10 DEF vars
<1>11. QED
  BY <1>1, <1>3, <1>4, <1>6, <1>7, <1>8, <1>9, <1>10 DEF Next

(* Until somebody draws on it, the Fan tab's curve is point for point the   *)
(* one that the service reads for the selected card: applying it gives no   *)
(* card the curve of another, and takes nothing from its own.               *)
THEOREM UntouchedIsSaved == Spec => []ShownIsSaved
<1>1. Init => TabInv /\ EditorOK
  BY TabInit DEF Init, EditorOK, InEditor
<1>2. TabInv /\ EditorOK /\ [Next]_vars => (TabInv /\ EditorOK)'
  BY TabStep, EditorStep
<1>3. EditorOK => ShownIsSaved
  BY DEF EditorOK, ShowsSaved, ShownIsSaved
<1>4. QED
  BY <1>1, <1>2, <1>3, PTL DEF Spec

(* The window, the file and the fans keep their types: at most PairCount    *)
(* points are in a table, none of them below 0 degrees, whatever was drawn  *)
(* and dragged.                                                             *)
THEOREM TabTypes == Spec => []TypeOK
  BY TabInit, TabStep, InvTypes, PTL DEF Spec

(* Whatever was drawn, dragged and saved: a fan's table is in order of      *)
(* temperature and never slower at a higher one.                            *)
THEOREM TablesSound == Spec => []TableSound
<1>1. TabInv => TableSound
  BY DEF TabInv, TableOK, GoodTable, Sound, TableSound
<1>2. QED
  BY <1>1, TabInit, TabStep, PTL DEF Spec

(* Only opening the tab and selecting a card show another card's curve      *)
LEMMA OpenedBy ==
  ASSUME TabInv, Next, NEW c \in Cards, Opened(c)
  PROVE  Show("fan", c)
<1>1. gui' # gui /\ gui'.view = "fan" /\ (gui.view # "fan" \/ gui.card # c) /\ gui'.card = c
  BY DEF Opened
<1>2. ASSUME NEW v \in Views, NEW d \in Cards, Show(v, d) PROVE Show("fan", c)
  <2>1. v = "fan" /\ d = c
    <3>1. CASE v = "fan"
      <4>1. PICK x \in EditorCurves(d) : gui' = [gui EXCEPT !.view = v, !.card = d, !.curve = x]
        BY <1>2, <3>1 DEF Show
      <4>2. gui'.card = d
        BY <4>1 DEF TabInv, Shape
      <4>3. QED
        BY <1>1, <3>1, <4>2
    <3>2. CASE v # "fan"
      <4>1. gui' = [gui EXCEPT !.view = v, !.card = d]
        BY <1>2, <3>2 DEF Show
      <4>2. gui'.view = v
        BY <4>1 DEF TabInv, Shape
      <4>3. QED
        BY <1>1, <3>2, <4>2
    <3>3. QED
      BY <3>1, <3>2
  <2>2. QED
    BY <1>2, <2>1
<1>3. CASE SetView \/ Reselect
  BY <1>2, <1>3 DEF SetView, Reselect, TabInv, GuiOK
<1>4. ASSUME gui'.view = gui.view, gui'.card = gui.card PROVE FALSE
  BY <1>1, <1>4
<1>5. CASE OnLDown \/ OnLUp
  <2>1. PICK i : gui' = [gui EXCEPT !.drag = i]
    BY <1>5 DEF OnLDown, OnLUp
  <2>2. QED
    BY <1>4, <2>1 DEF TabInv, Shape
<1>6. CASE OnMouseMove \/ OnDblClick \/ OnRDown \/ ResetCurve
  <2>1. PICK x : gui' = [gui EXCEPT !.curve = x]
    BY <1>6 DEF OnMouseMove, OnDblClick, OnRDown, ResetCurve, Edit
  <2>2. QED
    BY <1>4, <2>1 DEF TabInv, Shape
<1>7. CASE ApplyCurve \/ AutoOrMax \/ Tray \/ \E d \in Cards : Service(d)
  BY <1>1, <1>7 DEF ApplyCurve, AutoOrMax, Tray, SaveFanProfile, Service
<1>8. QED
  BY <1>3, <1>5, <1>6, <1>7 DEF Next

(* A curve that was applied, with every point on the graph, is what the tab *)
(* shows when it is opened for that card again.                             *)
THEOREM ComesBack == Spec => AppliedComesBack
<1>1. ASSUME TabInv, [Next]_vars, NEW c \in Cards, Opened(c),
             history.applied[Key[c]] # Nothing, OnGraph(history.applied[Key[c]])
      PROVE  SamePoints(gui'.curve, history.applied[Key[c]])
  <2> DEFINE x == history.applied[Key[c]]
  <2>1. Key[c] \in Keys
    BY KeyType
  <2>2. x \in Seq(Nodes) /\ Len(x) >= 2 /\ Load(Key[c]).mode = "curve"
        /\ Load(Key[c]).curve = Sorted(x)
    BY <1>1, <2>1, AppliedRead
  <2>3. Show("fan", c)
    <3>1. Next
      BY <1>1 DEF Opened, vars
    <3>2. QED
      BY <1>1, <3>1, OpenedBy
  <2>4. PICK z \in EditorCurves(c) : gui' = [gui EXCEPT !.view = "fan", !.card = c, !.curve = z]
    BY <2>3 DEF Show
  <2>5. gui'.curve = z
    BY <1>1, <2>4 DEF TabInv, Shape
  <2> HIDE DEF x
  <2>6. Len(Sorted(x)) >= 2
    BY <2>2, SortedType
  <2>7. z = Sorted(Sorted(x))
    BY <2>2, <2>4, <2>6 DEF EditorCurves
  <2>8. SamePoints(z, x)
    BY <2>2, <2>7, IsCurve, SortedTwice
  <2>9. QED
    BY <2>5, <2>8 DEF x
<1>2. TabInv /\ [Next]_vars =>
        [\A c \in Cards :
           LET x == history.applied[Key[c]]
           IN Opened(c) /\ x # Nothing => (OnGraph(x) => SamePoints(gui'.curve, x))]_vars
  BY <1>1
<1>3. QED
  BY <1>2, TabInit, TabStep, PTL DEF Spec, AppliedComesBack

(* The service makes a curve that was applied the fan's, point for point in *)
(* order of temperature, at the highest speed that was drawn up to there:   *)
(* what DrawnIsRun says of the end, said of the step that brings it about.  *)
DrawnRunsNext ==
  [][\A c \in Cards :
       LET x == history.applied[Key[c]]
       IN Service(c) /\ Usable(x) => Follows(table'[c], x)]_vars
THEOREM DrawnRuns == Spec => DrawnRunsNext
<1>1. ASSUME TabInv, NEW c \in Cards, Service(c), Usable(history.applied[Key[c]])
      PROVE  Follows(table'[c], history.applied[Key[c]])
  <2> DEFINE x == history.applied[Key[c]]
             s == Sorted(x)
             t == Rising(Sorted(s))
  <2>1. Key[c] \in Keys /\ x # Nothing /\ OnGraph(x) /\ Len(x) <= PairCount
    BY <1>1, KeyType DEF Usable
  <2>2. x \in Seq(Nodes) /\ Len(x) >= 2 /\ Load(Key[c]).mode = "curve" /\ Load(Key[c]).curve = s
    BY <1>1, <2>1, AppliedRead
  <2>3. table'[c] = Applied(Load(Key[c]), table[c])
    BY <1>1, ServiceTypes
  <2> HIDE DEF x
  <2>4. s \in Seq(Nodes) /\ Len(s) = Len(x)
    BY <2>2, SortedType
  <2> HIDE DEF s
  <2>5. Fits(s)
    BY <2>1, <2>2, <2>4 DEF Fits
  <2>6. table'[c] = t
    BY <2>2, <2>3, <2>5 DEF Applied, SetCurve
  <2>7. Follows(t, s)
    BY <2>4, RunsWhatIsDrawn
  <2>8. Follows(t, x)
    BY <2>2, <2>7, FollowsSorted DEF s
  <2>9. QED
    BY <2>6, <2>8 DEF x
<1>2. TabInv /\ [Next]_vars =>
        [\A c \in Cards :
           LET x == history.applied[Key[c]]
           IN Service(c) /\ Usable(x) => Follows(table'[c], x)]_vars
  BY <1>1
<1>3. QED
  BY <1>2, TabInit, TabStep, PTL DEF Spec, DrawnRunsNext
===============================================================================
