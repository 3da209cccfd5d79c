---------------------------- MODULE FanHwmonProofs ----------------------------
(***************************************************************************)
(* Proofs about FanHwmon, for any number of points, any stock table, any    *)
(* minimum speed, any set of processes and any inputs (of which no          *)
(* temperature rounds to 0 degrees where the speed floor is concerned).     *)
(***************************************************************************)
EXTENDS FanHwmon, TLAPS

(* The driver's own part of the inductive invariant, a property of the pair *)
(* that the helpers of FanDriver work on.                                   *)
CacheAboveMin(i) == i.count = N => \A p \in Slots : i.user[p].speed >= i.min

Sound(s) ==
  /\ s.fi \in FanInfo
  /\ s.fw \in Firmware
  /\ s.fi.mode = AUTO <=> ~s.fw.userActive
  /\ s.fi.mode # AUTO => s.fi.count = N
  /\ s.fi.full => \A p \in Slots : s.fw.table[p].speed = 100

Floored(s) ==
  /\ CacheAboveMin(s.fi)
  /\ s.fw.userActive => \A p \in Slots : s.fw.table[p].speed >= s.fi.min

Settled(s) == s.fi.full <=> s.fi.mode = FULL

(* What every helper guarantees of its result r, started from a sound s     *)
Keeps(s, r) ==
  /\ Sound(r)
  /\ r.fi.min = s.fi.min
  /\ s.fi.count = N => r.fi.count = N
  /\ \/ r.fw = s.fw
     \/ r.fw = RunStock
     \/ r.fw.userActive /\ (r.fi.full \/ (Floored(s) => r.fw.table = r.fi.user))

LEMMA DriverFacts ==
  /\ N \in Nat /\ N >= 1 /\ N # 0
  /\ Stock \in Table
  /\ MinPwm \in Nat /\ MinPwm <= 100
  /\ N \in Slots
  /\ AllWrites = N + 1
BY DriverAssumption DEF Slots, AllWrites

LEMMA MinInU8 ==
  ASSUME NEW i \in FanInfo, NEW speed \in U8
  PROVE  /\ AtLeastMin(speed, i) \in U8
         /\ AtLeastMin(speed, i) >= i.min
BY DriverAssumption DEF AtLeastMin, FanInfo, U8

LEMMA UserPoint ==
  ASSUME NEW i \in FanInfo, NEW p \in Slots
  PROVE  i.user[p] \in Point /\ i.user[p].speed \in Int /\ i.min \in Int
<1>1. i.user[p] \in Point
  BY DEF FanInfo, Table
<1>2. i.min \in Int
  BY DriverFacts DEF FanInfo
<1>3. QED
  BY <1>1, <1>2 DEF Point, U8

LEMMA ActivatedPoint ==
  ASSUME NEW i \in FanInfo, NEW full \in BOOLEAN, NEW p \in Slots
  PROVE  /\ Activated(i, full)[p] \in Point
         /\ Activated(i, full)[p].speed >= i.min
         /\ full => Activated(i, full)[p].speed = 100
<1>1. ActiveTable(i)[p] \in Point
  BY DEF ActiveTable, FanInfo, Table
<1>2. /\ AtLeastMin(ActiveTable(i)[p].speed, i) \in U8
      /\ AtLeastMin(ActiveTable(i)[p].speed, i) >= i.min
  BY <1>1, MinInU8 DEF Point
<1>3. 100 \in U8 /\ 100 >= i.min
  BY DriverFacts DEF U8, FanInfo
<1>4. QED
  BY <1>1, <1>2, <1>3 DEF Activated, Point

(* A write that was not cut short leaves a copy of the stock table above    *)
(* the minimum, and a user table as it was.                                 *)
LEMMA CopiedFloor ==
  ASSUME NEW i \in FanInfo, NEW full \in BOOLEAN, NEW k \in Writes, ~(k < AllWrites),
         NEW p \in Slots
  PROVE  \/ CopiedUser(i, full, k)[p].speed >= i.min
         \/ i.mode # AUTO /\ CopiedUser(i, full, k)[p] = i.user[p]
<1>1. p <= k
  BY DriverFacts DEF Slots, Writes
<1>2. CASE i.mode = AUTO
  BY <1>1, <1>2, ActivatedPoint DEF CopiedUser, FromStock
<1>3. CASE i.mode # AUTO
  BY <1>3 DEF CopiedUser, FromStock
<1>4. QED
  BY <1>2, <1>3

LEMMA ActivatedFacts ==
  ASSUME NEW i \in FanInfo, NEW full \in BOOLEAN, NEW k \in Writes
  PROVE  /\ ActiveCount(i) \in {0, N}
         /\ Activated(i, full) \in Table
         /\ CopiedUser(i, full, k) \in Table
         /\ \A p \in Slots : Activated(i, full)[p].speed >= i.min
         /\ CacheAboveMin(i) => CacheAboveMin([i EXCEPT !.user = CopiedUser(i, full, k)])
<1>1. ActiveCount(i) \in {0, N}
  BY DEF ActiveCount, FanInfo
<1>2. \A p \in Slots : /\ Activated(i, full)[p] \in Point
                       /\ Activated(i, full)[p].speed >= i.min
  BY ActivatedPoint
<1>3. Activated(i, full) \in Table
  BY <1>2 DEF Activated, Table
<1>4. CopiedUser(i, full, k) \in Table
  BY <1>3 DEF CopiedUser, Table, FanInfo
<1>5. \A p \in Slots : \/ CopiedUser(i, full, k)[p].speed >= i.min
                       \/ CopiedUser(i, full, k)[p] = i.user[p]
  BY <1>2 DEF CopiedUser
<1>6. CacheAboveMin(i) => CacheAboveMin([i EXCEPT !.user = CopiedUser(i, full, k)])
  BY <1>5 DEF CacheAboveMin, FanInfo
<1>7. QED
  BY <1>1, <1>2, <1>3, <1>4, <1>6

(* A helper that leaves fields and firmware alone                           *)
LEMMA SameKeeps ==
  ASSUME NEW s, Sound(s), NEW r, r.fi = s.fi, r.fw = s.fw
  PROVE  /\ Keeps(s, r) /\ Sound(r)
         /\ Floored(s) => Floored(r)
         /\ Settled(s) => Settled(r)
<1>1. Sound(r)
  BY DEF Sound
<1>2. (Floored(s) => Floored(r)) /\ (Settled(s) => Settled(r))
  BY DEF Floored, Settled
<1>3. QED
  BY <1>1, <1>2 DEF Keeps

LEMMA ActivateKeeps ==
  ASSUME NEW s, Sound(s), NEW full \in BOOLEAN, NEW k \in Writes
  PROVE  LET r == Activate(s, full, k)
         IN /\ Keeps(s, r)
            /\ Floored(s) => Floored(r)
            /\ r.ok \in BOOLEAN
            /\ r.ok => r.fi.mode = MANUAL /\ r.fi.full = full /\ r.fi.count = N
            /\ ~r.ok => r.fi.mode = s.fi.mode /\ r.fi.full = s.fi.full
<1> DEFINE r == Activate(s, full, k)
           out == Activated(s.fi, full)
           copied == CopiedUser(s.fi, full, k)
<1> SUFFICES /\ Keeps(s, r)
             /\ Floored(s) => Floored(r)
             /\ r.ok \in BOOLEAN
             /\ r.ok => r.fi.mode = MANUAL /\ r.fi.full = full /\ r.fi.count = N
             /\ ~r.ok => r.fi.mode = s.fi.mode /\ r.fi.full = s.fi.full
  OBVIOUS
<1>0. s.fi \in FanInfo /\ s.fw \in Firmware
  BY DEF Sound
<1>1. CASE ActiveCount(s.fi) = 0
  <2>1. r.fi = s.fi /\ r.fw = s.fw /\ r.ok = FALSE
    BY <1>1 DEF Activate, Failed
  <2> HIDE DEF r, out, copied
  <2>2. QED
    BY <2>1, SameKeeps
<1>2. CASE ActiveCount(s.fi) # 0 /\ k < AllWrites
  <2>1. /\ r.fi = [s.fi EXCEPT !.user = copied]
        /\ r.fw = s.fw
        /\ r.ok = FALSE
    BY <1>2 DEF Activate, Failed
  <2>2. copied \in Table /\ (CacheAboveMin(s.fi) => CacheAboveMin([s.fi EXCEPT !.user = copied]))
    BY <1>0, ActivatedFacts
  <2> HIDE DEF r, copied
  <2>3. r.fi \in FanInfo /\ r.fi.mode = s.fi.mode /\ r.fi.full = s.fi.full
        /\ r.fi.count = s.fi.count /\ r.fi.min = s.fi.min
    BY <1>0, <2>1, <2>2 DEF FanInfo
  <2>4. Sound(r)
    BY <2>1, <2>3 DEF Sound
  <2>5. Floored(s) => Floored(r)
    BY <2>1, <2>2, <2>3 DEF Floored
  <2>6. QED
    BY <2>1, <2>3, <2>4, <2>5 DEF Keeps
<1>3. CASE ActiveCount(s.fi) # 0 /\ ~(k < AllWrites)
  <2>0. ActiveCount(s.fi) = N
    BY <1>0, <1>3, ActivatedFacts
  <2>1. /\ r.fi = [s.fi EXCEPT !.user = copied, !.count = N, !.mode = MANUAL, !.full = full]
        /\ r.fw = [userActive |-> TRUE, table |-> out]
        /\ r.ok = TRUE
    BY <1>3, <2>0 DEF Activate, Succeeded, Run
  <2>2. /\ out \in Table /\ copied \in Table
        /\ full => \A p \in Slots : out[p].speed = 100
        /\ \A p \in Slots : out[p].speed >= s.fi.min
        /\ \A p \in Slots : copied[p].speed >= s.fi.min
                            \/ (s.fi.mode # AUTO /\ copied[p] = s.fi.user[p])
    <3>1. out \in Table /\ copied \in Table
      BY <1>0, ActivatedFacts
    <3>a. full => \A p \in Slots : out[p].speed = 100
      BY DEF Activated
    <3>b. \A p \in Slots : out[p].speed >= s.fi.min
      BY <1>0, ActivatedFacts
    <3>2. \A p \in Slots : copied[p].speed >= s.fi.min
                          \/ (s.fi.mode # AUTO /\ copied[p] = s.fi.user[p])
      <4>1. ~(k < AllWrites)
        BY <1>3
      <4>2. QED
        BY <1>0, <4>1, CopiedFloor
    <3>3. QED
      BY <3>1, <3>a, <3>b, <3>2
  <2>3. Floored(s) => (full \/ out = copied)
    <3> SUFFICES ASSUME Floored(s), ~full
                 PROVE  out = copied
      OBVIOUS
    <3>1. CASE s.fi.mode = AUTO
      <4>1. \A p \in Slots : copied[p] = out[p]
        BY <3>1, <1>3, DriverFacts DEF CopiedUser, FromStock, Slots, Writes
      <4>2. QED
        BY <4>1 DEF CopiedUser, Activated
    <3>2. CASE s.fi.mode # AUTO
      <4>1. ASSUME NEW p \in Slots
            PROVE  copied[p] = out[p]
        <5>1. copied[p] = s.fi.user[p] /\ s.fi.user[p] \in Point
          BY <3>2, <1>0 DEF CopiedUser, FromStock, FanInfo, Table
        <5>2. s.fi.user[p].speed >= s.fi.min
          BY <3>2 DEF Floored, CacheAboveMin, Sound
        <5>3. AtLeastMin(s.fi.user[p].speed, s.fi) = s.fi.user[p].speed
          <6>1. s.fi.user[p].speed \in Int /\ s.fi.min \in Int
            BY <1>0, UserPoint
          <6>2. QED
            BY <5>2, <6>1 DEF AtLeastMin
        <5>4. QED
          BY <5>1, <5>3, <3>2 DEF Activated, ActiveTable, FromStock, Point
      <4>2. QED
        BY <4>1 DEF CopiedUser, Activated
    <3>3. QED
      BY <3>1, <3>2
  <2> HIDE DEF r, out, copied
  <2>4. r.fi \in FanInfo
    BY <1>0, <2>1, <2>2 DEF FanInfo, Modes
  <2>5. /\ r.fi.mode = MANUAL /\ r.fi.full = full /\ r.fi.count = N
        /\ r.fi.min = s.fi.min /\ r.fi.user = copied
    BY <1>0, <2>1 DEF FanInfo
  <2>6. Sound(r)
    BY <2>1, <2>2, <2>4, <2>5 DEF Sound, Firmware, MANUAL, AUTO
  <2>7. Floored(s) => Floored(r)
    BY <2>1, <2>2, <2>5 DEF Floored, CacheAboveMin, Sound
  <2>8. r.fw.userActive /\ (r.fi.full \/ (Floored(s) => r.fw.table = r.fi.user))
    BY <2>1, <2>3, <2>5
  <2>9. Keeps(s, r)
    BY <2>5, <2>6, <2>8 DEF Keeps
  <2>10. QED
    BY <2>1, <2>5, <2>7, <2>9
<1>4. QED
  BY <1>1, <1>2, <1>3

LEMMA CommitKeeps ==
  ASSUME NEW s, Sound(s), NEW k \in Writes
  PROVE  LET r == Commit(s, k)
         IN /\ Keeps(s, r)
            /\ Floored(s) => Floored(r)
            /\ r.ok \in BOOLEAN
            /\ Settled(s) => Settled(r)
            /\ r.fw = s.fw \/ r.fw.table = r.fi.user
<1> DEFINE r == Commit(s, k)
<1> SUFFICES /\ Keeps(s, r)
             /\ Floored(s) => Floored(r)
             /\ r.ok \in BOOLEAN
             /\ Settled(s) => Settled(r)
             /\ r.fw = s.fw \/ r.fw.table = r.fi.user
  OBVIOUS
<1>1. CASE r = Failed(s.fi, s.fw)
  <2>1. r.fi = s.fi /\ r.fw = s.fw /\ r.ok = FALSE
    BY <1>1 DEF Failed
  <2> HIDE DEF r
  <2>2. QED
    BY <2>1, SameKeeps
<1>2. CASE r # Failed(s.fi, s.fw)
  <2>1. /\ s.fi.count # 0
        /\ r.fi = [s.fi EXCEPT !.mode = MANUAL, !.full = FALSE]
        /\ r.fw = [userActive |-> TRUE, table |-> s.fi.user]
        /\ r.ok = TRUE
    BY <1>2 DEF Commit, Succeeded, Run
  <2> HIDE DEF r
  <2>0. s.fi \in FanInfo /\ s.fi.count = N /\ s.fi.user \in Table
    BY <2>1 DEF Sound, FanInfo
  <2>a. r.fi \in FanInfo
    BY <2>0, <2>1 DEF FanInfo, Modes
  <2>b. r.fw \in Firmware
    BY <2>0, <2>1 DEF Firmware
  <2>2. /\ r.fi \in FanInfo /\ r.fw \in Firmware
        /\ r.fi.mode = MANUAL /\ r.fi.full = FALSE /\ r.fi.count = N
        /\ s.fi.count = N /\ r.fi.user = s.fi.user /\ r.fi.min = s.fi.min
    BY <2>0, <2>1, <2>a, <2>b DEF FanInfo
  <2>3. Sound(r)
    BY <2>1, <2>2 DEF Sound, MANUAL, AUTO
  <2>4. Floored(s) => Floored(r)
    BY <2>1, <2>2 DEF Floored, CacheAboveMin
  <2>5. Keeps(s, r)
    BY <2>1, <2>2, <2>3 DEF Keeps
  <2>6. Settled(r)
    BY <2>2 DEF Settled, MANUAL, FULL
  <2>7. r.fw.table = r.fi.user
    BY <2>1, <2>2
  <2>8. r.ok \in BOOLEAN
    BY <2>1
  <2>9. QED
    BY <2>4, <2>5, <2>6, <2>7, <2>8
<1>3. QED
  BY <1>1, <1>2

LEMMA SetUserPwmKeeps ==
  ASSUME NEW s, Sound(s), NEW pwm \in U8, NEW k \in Writes
  PROVE  LET r == SetUserPwm(s, pwm, k)
         IN /\ Keeps(s, r)
            /\ Floored(s) => Floored(r)
            /\ Settled(s) => Settled(r)
<1> DEFINE flat == AtLeastMin((pwm * 100) \div 255, s.fi)
           written == [p \in Slots |-> IF p <= k THEN [s.fi.user[p] EXCEPT !.speed = flat]
                                                 ELSE s.fi.user[p]]
           r == SetUserPwm(s, pwm, k)
<1> SUFFICES /\ Keeps(s, r)
             /\ Floored(s) => Floored(r)
             /\ Settled(s) => Settled(r)
  OBVIOUS
<1>0. s.fi \in FanInfo /\ s.fw \in Firmware
  BY DEF Sound
<1>1. flat \in U8 /\ flat >= s.fi.min
  <2>1. (pwm * 100) \div 255 \in U8
    BY DEF U8
  <2>2. QED
    BY <1>0, <2>1, MinInU8
<1>2. written \in Table
  <2>1. ASSUME NEW p \in Slots
        PROVE  written[p] \in Point
    BY <1>0, <1>1 DEF FanInfo, Table, Point
  <2>2. QED
    BY <2>1 DEF Table
<1>3. CacheAboveMin(s.fi) => CacheAboveMin([s.fi EXCEPT !.user = written])
  <2>1. \A p \in Slots : written[p].speed = flat \/ written[p].speed = s.fi.user[p].speed
    BY <1>0 DEF FanInfo, Table, Point
  <2> HIDE DEF written, flat
  <2>2. QED
    BY <1>0, <1>1, <2>1 DEF CacheAboveMin, FanInfo
<1>4. CASE r = Failed(s.fi, s.fw)
  <2>1. r.fi = s.fi /\ r.fw = s.fw
    BY <1>4 DEF Failed
  <2>2. QED
    BY <2>1 DEF Keeps, Sound, Floored, Settled
<1>5. CASE r = Failed([s.fi EXCEPT !.user = written], s.fw)
  <2>1. r.fi = [s.fi EXCEPT !.user = written] /\ r.fw = s.fw
    BY <1>5 DEF Failed
  <2> HIDE DEF r, written
  <2>2. r.fi \in FanInfo /\ r.fi.mode = s.fi.mode /\ r.fi.full = s.fi.full
        /\ r.fi.count = s.fi.count /\ r.fi.min = s.fi.min
    BY <1>0, <1>2, <2>1 DEF FanInfo
  <2>3. Sound(r)
    BY <2>1, <2>2 DEF Sound
  <2>4. QED
    BY <1>3, <2>1, <2>2, <2>3 DEF Keeps, Floored, Settled
<1>6. CASE s.fi.mode # AUTO /\ r = Succeeded([s.fi EXCEPT !.user = written, !.mode = MANUAL,
                                                     !.full = FALSE], Run(written))
  <2>1. /\ r.fi = [s.fi EXCEPT !.user = written, !.mode = MANUAL, !.full = FALSE]
        /\ r.fw = [userActive |-> TRUE, table |-> written]
    BY <1>6 DEF Succeeded, Run
  <2> HIDE DEF r, written
  <2>2. r.fi \in FanInfo
    BY <1>0, <1>2, <2>1 DEF FanInfo, Modes
  <2>3. /\ r.fi.mode = MANUAL /\ r.fi.full = FALSE /\ r.fi.user = written
        /\ r.fi.count = s.fi.count /\ r.fi.min = s.fi.min
    BY <1>0, <2>1 DEF FanInfo
  <2>4. s.fi.count = N
    BY <1>6 DEF Sound
  <2>5. r.fw \in Firmware
    BY <1>2, <2>1 DEF Firmware
  <2>6. Sound(r)
    BY <2>1, <2>2, <2>3, <2>4, <2>5 DEF Sound, MANUAL, AUTO
  <2>7. Floored(s) => Floored(r)
    <3>1. CacheAboveMin(s.fi) => CacheAboveMin(r.fi)
      BY <1>0, <1>3, <2>1, <2>3 DEF CacheAboveMin, FanInfo
    <3>2. QED
      BY <3>1, <2>1, <2>3, <2>4 DEF Floored, CacheAboveMin
  <2>8. Keeps(s, r)
    BY <2>1, <2>3, <2>6 DEF Keeps
  <2>9. Settled(r)
    BY <2>3 DEF Settled, MANUAL, FULL
  <2>10. QED
    BY <2>7, <2>8, <2>9
<1>7. QED
  BY <1>4, <1>5, <1>6 DEF SetUserPwm

(* Storing half of a point; a speed of 0 is stored when a temperature is 0  *)
LEMMA PointStoredKeeps ==
  ASSUME NEW s, Sound(s), NEW p \in Slots, NEW temp \in U8, NEW pwm \in U8
  PROVE  LET t == [fi |-> PointStored(s.fi, p, temp, pwm), fw |-> s.fw]
         IN /\ Sound(t)
            /\ t.fi.min = s.fi.min /\ t.fi.count = s.fi.count
            /\ t.fi.mode = s.fi.mode /\ t.fi.full = s.fi.full
            /\ Floored(s) /\ (temp # 0 \/ pwm >= s.fi.min) => Floored(t)
<1> DEFINE i == PointStored(s.fi, p, temp, pwm)
           t == [fi |-> i, fw |-> s.fw]
<1>0. s.fi \in FanInfo /\ s.fw \in Firmware
  BY DEF Sound
<1>1. CASE temp # 0
  <2>1. i = [s.fi EXCEPT !.user[p].temp = temp, !.tempValid = @ \/ p = N]
    BY <1>1 DEF PointStored, WithTemp
  <2> HIDE DEF i
  <2>2. /\ i.mode = s.fi.mode /\ i.full = s.fi.full /\ i.count = s.fi.count
        /\ i.min = s.fi.min
        /\ i.user = [s.fi.user EXCEPT ![p].temp = temp]
    BY <1>0, <2>1 DEF FanInfo
  <2>3. i.user \in Table /\ \A q \in Slots : i.user[q].speed = s.fi.user[q].speed
    BY <1>0, <2>2 DEF FanInfo, Table, Point
  <2>4. i \in FanInfo
    <3>1. i.tempValid \in BOOLEAN /\ i.speedValid = s.fi.speedValid
          /\ i.stock = s.fi.stock /\ i.stockCount = s.fi.stockCount
          /\ i = [mode |-> i.mode, full |-> i.full, count |-> i.count, user |-> i.user,
                  tempValid |-> i.tempValid, speedValid |-> i.speedValid, min |-> i.min,
                  stock |-> i.stock, stockCount |-> i.stockCount]
      BY <1>0, <2>1 DEF FanInfo
    <3>2. QED
      BY <1>0, <2>2, <2>3, <3>1 DEF FanInfo
  <2>5. t.fi = i /\ t.fw = s.fw
    OBVIOUS
  <2> HIDE DEF t
  <2>6. Sound(t)
    BY <1>0, <2>2, <2>4, <2>5 DEF Sound
  <2>7. Floored(s) /\ (temp # 0 \/ pwm >= s.fi.min) => Floored(t)
    BY <1>0, <2>2, <2>3, <2>5 DEF Floored, CacheAboveMin
  <2>8. QED
    BY <2>2, <2>5, <2>6, <2>7 DEF t, i
<1>2. CASE temp = 0
  <2>1. i = [s.fi EXCEPT !.user[p].speed = pwm, !.speedValid = @ \/ p = N]
    BY <1>2 DEF PointStored, WithSpeed
  <2> HIDE DEF i
  <2>2. /\ i.mode = s.fi.mode /\ i.full = s.fi.full /\ i.count = s.fi.count
        /\ i.min = s.fi.min
        /\ i.user = [s.fi.user EXCEPT ![p].speed = pwm]
    BY <1>0, <2>1 DEF FanInfo
  <2>3. i.user \in Table
        /\ \A q \in Slots : i.user[q].speed = s.fi.user[q].speed \/ i.user[q].speed = pwm
    BY <1>0, <2>2 DEF FanInfo, Table, Point
  <2>4. i \in FanInfo
    <3>1. i.speedValid \in BOOLEAN /\ i.tempValid = s.fi.tempValid
          /\ i.stock = s.fi.stock /\ i.stockCount = s.fi.stockCount
          /\ i = [mode |-> i.mode, full |-> i.full, count |-> i.count, user |-> i.user,
                  tempValid |-> i.tempValid, speedValid |-> i.speedValid, min |-> i.min,
                  stock |-> i.stock, stockCount |-> i.stockCount]
      BY <1>0, <2>1 DEF FanInfo
    <3>2. QED
      BY <1>0, <2>2, <2>3, <3>1 DEF FanInfo
  <2>5. t.fi = i /\ t.fw = s.fw
    OBVIOUS
  <2> HIDE DEF t
  <2>6. Sound(t)
    BY <1>0, <2>2, <2>4, <2>5 DEF Sound
  <2>7. Floored(s) /\ (temp # 0 \/ pwm >= s.fi.min) => Floored(t)
    BY <1>0, <1>2, <2>2, <2>3, <2>5 DEF Floored, CacheAboveMin
  <2>8. QED
    BY <2>2, <2>5, <2>6, <2>7 DEF t, i
<1>3. QED
  BY <1>1, <1>2

LEMMA UpdatePointKeeps ==
  ASSUME NEW s, Sound(s), NEW p \in Slots, NEW temp \in U8, NEW pwm \in U8, NEW k \in Writes
  PROVE  LET r == UpdatePoint(s, p, temp, pwm, k)
         IN /\ Keeps(s, r)
            /\ Floored(s) /\ (temp # 0 \/ pwm >= s.fi.min) => Floored(r)
            /\ Settled(s) => Settled(r)
<1> DEFINE i == PointStored(s.fi, p, temp, pwm)
           t == [fi |-> i, fw |-> s.fw]
           c == Commit(t, k)
           r == UpdatePoint(s, p, temp, pwm, k)
<1> SUFFICES /\ Keeps(s, r)
             /\ Floored(s) /\ (temp # 0 \/ pwm >= s.fi.min) => Floored(r)
             /\ Settled(s) => Settled(r)
  OBVIOUS
<1>1. /\ Sound(t)
      /\ t.fi = i /\ t.fw = s.fw
      /\ i.min = s.fi.min /\ i.count = s.fi.count
      /\ i.mode = s.fi.mode /\ i.full = s.fi.full
      /\ Floored(s) /\ (temp # 0 \/ pwm >= s.fi.min) => Floored(t)
  BY PointStoredKeeps
<1> HIDE DEF i
<1>2. Settled(s) => Settled(t)
  BY <1>1 DEF Settled
<1>3. /\ Keeps(t, c)
      /\ Floored(t) => Floored(c)
      /\ Settled(t) => Settled(c)
      /\ c.fw = s.fw \/ c.fw.table = c.fi.user
  BY <1>1, CommitKeeps
<1> HIDE DEF t, c
<1>4. CASE r = Succeeded(i, s.fw)
  <2>1. r.fi = t.fi /\ r.fw = t.fw
    BY <1>1, <1>4 DEF Succeeded
  <2>2. QED
    BY <1>1, <1>2, <2>1 DEF Keeps, Sound, Floored, Settled
<1>5. CASE r = c
  BY <1>1, <1>2, <1>3, <1>5 DEF Keeps
<1>6. CASE r = Succeeded([c.fi EXCEPT !.tempValid = FALSE, !.speedValid = FALSE], c.fw)
  <2>1. r.fi = [c.fi EXCEPT !.tempValid = FALSE, !.speedValid = FALSE] /\ r.fw = c.fw
    BY <1>6 DEF Succeeded
  <2>2. c.fi \in FanInfo
    BY <1>3 DEF Keeps, Sound
  <2>3. /\ r.fi \in FanInfo
        /\ r.fi.mode = c.fi.mode /\ r.fi.full = c.fi.full /\ r.fi.count = c.fi.count
        /\ r.fi.min = c.fi.min /\ r.fi.user = c.fi.user
    BY <2>1, <2>2 DEF FanInfo
  <2>4. /\ Sound(r)
        /\ Floored(c) => Floored(r)
        /\ Settled(c) => Settled(r)
    BY <1>3, <2>1, <2>3 DEF Keeps, Sound, Floored, Settled, CacheAboveMin
  <2>5. Keeps(s, r)
    BY <1>1, <1>3, <2>1, <2>3, <2>4 DEF Keeps
  <2>6. QED
    BY <1>1, <1>2, <1>3, <2>4, <2>5
<1>7. QED
  BY <1>1, <1>4, <1>5, <1>6 DEF UpdatePoint, i, t, c

LEMMA UserCountHere ==
  ASSUME NEW s, s.fi.count = N, NEW k
  PROVE  UserCount(s, k) = Succeeded(s.fi, s.fw)
BY DriverFacts DEF UserCount

LEMMA StorePointKeeps ==
  ASSUME NEW s, Sound(s), s.fi.count = N,
         NEW p \in Slots, NEW temp \in U8, NEW pwm \in U8, NEW k \in Writes
  PROVE  LET r == StorePoint(s, p, temp, pwm, k)
         IN /\ Keeps(s, r)
            /\ Floored(s) /\ (temp # 0 \/ pwm >= s.fi.min) => Floored(r)
            /\ Settled(s) => Settled(r)
<1> DEFINE t == [fi |-> s.fi, fw |-> s.fw]
<1>1. t.fi = s.fi /\ t.fw = s.fw
  OBVIOUS
<1>2. StorePoint(s, p, temp, pwm, k) = UpdatePoint(t, p, temp, pwm, k)
  BY UserCountHere, DriverFacts DEF StorePoint, Succeeded, Slots
<1> HIDE DEF t
<1>3. Sound(t)
  BY <1>1 DEF Sound
<1>4. /\ Keeps(t, UpdatePoint(t, p, temp, pwm, k))
      /\ Floored(t) /\ (temp # 0 \/ pwm >= t.fi.min) => Floored(UpdatePoint(t, p, temp, pwm, k))
      /\ Settled(t) => Settled(UpdatePoint(t, p, temp, pwm, k))
  BY <1>3, UpdatePointKeeps
<1>5. QED
  BY <1>1, <1>2, <1>4 DEF Keeps, Floored, Settled

LEMMA EnableStockKeeps ==
  ASSUME NEW s, Sound(s), NEW k
  PROVE  LET r == EnableStock(s, k)
         IN /\ Keeps(s, r)
            /\ Floored(s) => Floored(r)
            /\ Settled(s) => Settled(r)
<1> DEFINE r == EnableStock(s, k)
<1> SUFFICES /\ Keeps(s, r)
             /\ Floored(s) => Floored(r)
             /\ Settled(s) => Settled(r)
  OBVIOUS
<1>1. CASE k = 0
  <2>1. r.fi = s.fi /\ r.fw = s.fw
    BY <1>1 DEF EnableStock, Failed
  <2>2. QED
    BY <2>1 DEF Keeps, Sound, Floored, Settled
<1>2. CASE k # 0
  <2>1. /\ r.fi = [s.fi EXCEPT !.mode = AUTO, !.full = FALSE]
        /\ r.fw = [userActive |-> FALSE, table |-> Stock]
    BY <1>2 DEF EnableStock, Succeeded, RunStock
  <2>2. s.fi \in FanInfo
    BY DEF Sound
  <2> HIDE DEF r
  <2>3. /\ r.fi \in FanInfo
        /\ r.fi.mode = AUTO /\ r.fi.full = FALSE /\ r.fi.count = s.fi.count
        /\ r.fi.min = s.fi.min /\ r.fi.user = s.fi.user
    BY <2>1, <2>2 DEF FanInfo, Modes
  <2>4. r.fw \in Firmware
    BY <2>1, DriverFacts DEF Firmware
  <2>5. Sound(r)
    BY <2>1, <2>3, <2>4 DEF Sound
  <2>6. Keeps(s, r)
    BY <2>1, <2>3, <2>5 DEF Keeps, RunStock
  <2>7. Floored(s) => Floored(r)
    BY <2>1, <2>3 DEF Floored, CacheAboveMin
  <2>8. Settled(r)
    BY <2>3 DEF Settled, FULL, AUTO
  <2>9. QED
    BY <2>6, <2>7, <2>8
<1>3. QED
  BY <1>1, <1>2

(* Loading the driver on a card that runs its stock table                   *)
LEMMA ProbeSound ==
  ASSUME NEW unread \in SUBSET Slots, NEW countOk \in BOOLEAN, NEW minOk \in BOOLEAN,
         NEW k \in Writes
  PROVE  LET r == Probe(RunStock, unread, countOk, minOk, k)
         IN Sound(r) /\ Floored(r) /\ Settled(r) /\ r.fi.mode # FULL
            /\ (r.fw.userActive \/ r.fw = RunStock)
<1> DEFINE i == Probed(unread, countOk, minOk)
           s == [fi |-> i, fw |-> RunStock]
           r == Probe(RunStock, unread, countOk, minOk, k)
<1> SUFFICES Sound(r) /\ Floored(r) /\ Settled(r) /\ r.fi.mode # FULL
            /\ (r.fw.userActive \/ r.fw = RunStock)
  OBVIOUS
<1>1. Blank \in Table
  BY DEF Blank, Table, Point, U8
<1>2. i \in FanInfo
  <2>1. [p \in Slots |-> IF countOk /\ p \notin unread THEN Stock[p] ELSE Blank[p]] \in Table
    BY <1>1, DriverFacts DEF Table
  <2>2. QED
    BY <1>1, <2>1 DEF Probed, FanInfo, Modes
<1>3. /\ i.mode = AUTO /\ i.full = FALSE /\ i.count = 0
      /\ s.fi = i /\ s.fw = RunStock
  BY DEF Probed
<1> HIDE DEF i
<1>4. Sound(s)
  BY <1>2, <1>3, DriverFacts DEF Sound, RunStock, Firmware
<1>5. Floored(s) /\ Settled(s)
  BY <1>3, DriverFacts DEF Floored, Settled, CacheAboveMin, RunStock, FULL, AUTO
<1>6. CASE minOk
  <2>1. r = Activate(s, FALSE, k)
    BY <1>6 DEF Probe, i
  <2> HIDE DEF s, r
  <2>2. /\ Keeps(s, r)
        /\ Floored(r)
        /\ r.ok \in BOOLEAN
        /\ r.ok => r.fi.mode = MANUAL /\ r.fi.full = FALSE
        /\ ~r.ok => r.fi.mode = s.fi.mode /\ r.fi.full = s.fi.full
    BY <1>4, <1>5, <2>1, ActivateKeeps
  <2>3. Settled(r) /\ r.fi.mode # FULL
    BY <1>3, <1>5, <2>2 DEF Settled, MANUAL, FULL, AUTO
  <2>4. r.fw.userActive \/ r.fw = RunStock
    BY <1>3, <2>2 DEF Keeps
  <2>5. QED
    BY <2>2, <2>3, <2>4 DEF Keeps
<1>7. CASE ~minOk
  <2>1. r.fi = s.fi /\ r.fw = s.fw
    BY <1>7 DEF Probe, Failed, i
  <2>2. QED
    BY <1>3, <1>4, <1>5, <2>1 DEF Sound, Floored, Settled, FULL, AUTO
<1>8. QED
  BY <1>6, <1>7
-----------------------------------------------------------------------------
(* The inductive invariant of FanHwmon: the pair is sound; between the two  *)
(* steps of pwmN_enable = 0 the lock is held and the flag runs ahead of the *)
(* mode; a store is on its way only when there is a user table.             *)
IInv ==
  /\ Sound(Current)
  /\ lock \in Procs \cup {Free}
  /\ pending \in [Procs -> Store \cup {Idle}]
  /\ lock = Free => Settled(Current)
  /\ lock # Free => fi.full /\ fi.mode # AUTO
  /\ \A w \in Procs : pending[w] # Idle => fi.count = N

LEMMA BecomesFacts ==
  ASSUME NEW STATE r, Becomes(r)
  PROVE  /\ Sound(r) => Sound(Current)'
         /\ Settled(r) => Settled(Current)'
         /\ Floored(r) => Floored(Current)'
         /\ Keeps(Current, r) => Keeps(Current, Current')
         /\ fi' = r.fi /\ fw' = r.fw
<1>1. fi' = r.fi /\ fw' = r.fw /\ Current'.fi = r.fi /\ Current'.fw = r.fw
  BY DEF Becomes, Current
<1> HIDE DEF Current
<1>2. QED
  BY <1>1 DEF Sound, Settled, Floored, Keeps

LEMMA CurrentFacts == Current.fi = fi /\ Current.fw = fw
BY DEF Current

LEMMA IInvInit == Init => IInv
<1> SUFFICES ASSUME Init PROVE IInv
  OBVIOUS
<1>1. PICK unread \in SUBSET Slots, countOk \in BOOLEAN, minOk \in BOOLEAN, k \in Writes :
        LET r == Probe(RunStock, unread, countOk, minOk, k)
        IN fi = r.fi /\ fw = r.fw
  BY DEF Init
<1>2. Sound(Probe(RunStock, unread, countOk, minOk, k))
      /\ Settled(Probe(RunStock, unread, countOk, minOk, k))
  BY ProbeSound
<1>3. Sound(Current) /\ Settled(Current)
  BY <1>1, <1>2 DEF Sound, Settled, Current
<1>4. QED
  BY <1>3 DEF Init, IInv

LEMMA ActivatePlain ==
  ASSUME NEW s, Sound(s), Settled(s), NEW k \in Writes
  PROVE  LET r == Activate(s, FALSE, k)
         IN Keeps(s, r) /\ Settled(r) /\ (Floored(s) => Floored(r))
<1> DEFINE r == Activate(s, FALSE, k)
<1>1. /\ Keeps(s, r)
      /\ Floored(s) => Floored(r)
      /\ r.ok \in BOOLEAN
      /\ r.ok => r.fi.mode = MANUAL /\ r.fi.full = FALSE
      /\ ~r.ok => r.fi.mode = s.fi.mode /\ r.fi.full = s.fi.full
  BY ActivateKeeps
<1> HIDE DEF r
<1>2. Settled(r)
  BY <1>1 DEF Settled, MANUAL, FULL
<1>3. QED
  BY <1>1, <1>2 DEF r

LEMMA UserCountKeeps ==
  ASSUME NEW s, Sound(s), Settled(s), NEW k \in Writes
  PROVE  LET r == UserCount(s, k)
         IN Keeps(s, r) /\ Settled(r) /\ (Floored(s) => Floored(r))
<1> DEFINE r == UserCount(s, k)
<1>1. CASE s.fi.count = 0
  <2>1. r = Activate(s, FALSE, k)
    BY <1>1 DEF UserCount
  <2>2. QED
    BY <2>1, ActivatePlain
<1>2. CASE s.fi.count # 0
  <2>1. r.fi = s.fi /\ r.fw = s.fw
    BY <1>2 DEF UserCount, Succeeded
  <2>2. QED
    BY <2>1 DEF Keeps, Sound, Floored, Settled
<1>3. QED
  BY <1>1, <1>2

(* The handlers that run under the lock from their first look at the fan    *)
LEMMA HandlerStep ==
  ASSUME IInv, NEW w \in Procs,
         ShowPoint(w) \/ WritePwm(w) \/ WriteEnableManual(w) \/ WriteEnableAuto(w)
  PROVE  /\ Keeps(Current, Current') /\ Settled(Current)'
         /\ Floored(Current) => Floored(Current)'
<1>1. Sound(Current) /\ Settled(Current)
  BY DEF IInv, ShowPoint, WritePwm, WriteEnableManual, WriteEnableAuto, Locks
<1>2. CASE ShowPoint(w)
  <2>1. PICK k \in Writes : Becomes(UserCount(Current, k))
    BY <1>2 DEF ShowPoint
  <2>2. QED
    BY <1>1, <2>1, UserCountKeeps, BecomesFacts
<1>3. CASE WritePwm(w)
  <2>1. PICK v \in U8, k \in Writes : Becomes(SetUserPwm(Current, v, k))
    BY <1>3 DEF WritePwm
  <2>2. QED
    BY <1>1, <2>1, SetUserPwmKeeps, BecomesFacts
<1>4. CASE WriteEnableManual(w)
  <2>1. PICK k \in Writes : Becomes(Activate(Current, FALSE, k))
    BY <1>4 DEF WriteEnableManual
  <2>2. QED
    BY <1>1, <2>1, ActivatePlain, BecomesFacts
<1>5. CASE WriteEnableAuto(w)
  <2>1. PICK k \in Writes : Becomes(EnableStock(Current, k))
    BY <1>5 DEF WriteEnableAuto
  <2>2. QED
    BY <1>1, <2>1, EnableStockKeeps, BecomesFacts
<1>6. QED
  BY <1>2, <1>3, <1>4, <1>5

LEMMA ApplyStoreStep ==
  ASSUME IInv, NEW w \in Procs, ApplyStore(w)
  PROVE  /\ Keeps(Current, Current') /\ Settled(Current)'
         /\ Floored(Current) /\ (pending[w].kind = "temp" => pending[w].val # 0)
              => Floored(Current)'
<1>1. Sound(Current) /\ Settled(Current) /\ Current.fi.count = N
  BY CurrentFacts DEF IInv, ApplyStore
<1>2. /\ pending[w].kind \in {"temp", "speed"}
      /\ pending[w].point \in Slots /\ pending[w].val \in U8
  BY DEF IInv, ApplyStore, Store
<1>3. 0 \in U8
  BY DEF U8
<1>4. CASE pending[w].kind = "temp"
  <2>1. PICK k \in Writes :
          Becomes(StorePoint(Current, pending[w].point, pending[w].val, 0, k))
    BY <1>4 DEF ApplyStore, StoreTemp
  <2>2. QED
    BY <1>1, <1>2, <1>3, <1>4, <2>1, StorePointKeeps, BecomesFacts
<1>5. CASE pending[w].kind = "speed"
  <2> DEFINE speed == AtLeastMin(pending[w].val, Current.fi)
  <2>1. PICK k \in Writes : Becomes(StorePoint(Current, pending[w].point, 0, speed, k))
    BY <1>5 DEF ApplyStore, StoreSpeed
  <2>2. speed \in U8 /\ speed >= Current.fi.min
    BY <1>1, <1>2, MinInU8 DEF Sound
  <2> HIDE DEF speed
  <2>3. QED
    BY <1>1, <1>2, <1>3, <1>5, <2>1, <2>2, StorePointKeeps, BecomesFacts
<1>6. QED
  BY <1>2, <1>4, <1>5

LEMMA EnableFullStep ==
  ASSUME IInv, NEW w \in Procs, WriteEnableFull(w)
  PROVE  /\ Keeps(Current, Current')
         /\ Floored(Current) => Floored(Current)'
         /\ lock' \in {w, Free}
         /\ lock' = Free => Settled(Current)'
         /\ lock' # Free => fi'.full /\ fi'.mode # AUTO
<1>1. Sound(Current) /\ Settled(Current)
  BY DEF IInv, WriteEnableFull, Locks
<1>2. PICK k \in Writes :
        LET r == Activate(Current, TRUE, k)
        IN Becomes(r) /\ lock' = IF r.ok THEN w ELSE Free
  BY DEF WriteEnableFull
<1> DEFINE r == Activate(Current, TRUE, k)
<1>3. /\ Keeps(Current, r)
      /\ Floored(Current) => Floored(r)
      /\ r.ok \in BOOLEAN
      /\ r.ok => r.fi.mode = MANUAL /\ r.fi.full = TRUE
      /\ ~r.ok => r.fi.mode = Current.fi.mode /\ r.fi.full = Current.fi.full
  BY <1>1, ActivateKeeps
<1>4. Becomes(r) /\ lock' = IF r.ok THEN w ELSE Free
  BY <1>2
<1> HIDE DEF r
<1>5. w # Free
  BY InputsAssumption
<1>6. ~r.ok => Settled(r)
  BY <1>1, <1>3 DEF Settled
<1>7. /\ Keeps(Current, r) => Keeps(Current, Current')
      /\ Settled(r) => Settled(Current)'
      /\ Floored(r) => Floored(Current)'
      /\ fi' = r.fi
  BY <1>4, BecomesFacts
<1>8. /\ Keeps(Current, Current')
      /\ Floored(Current) => Floored(Current)'
  BY <1>3, <1>7
<1>9. CASE r.ok
  <2>1. lock' = w /\ fi'.full /\ fi'.mode # AUTO
    BY <1>3, <1>4, <1>7, <1>9 DEF MANUAL, AUTO
  <2>2. QED
    BY <2>1, <1>5, <1>8
<1>10. CASE ~r.ok
  <2>1. lock' = Free /\ Settled(Current)'
    BY <1>4, <1>6, <1>7, <1>10
  <2>2. QED
    BY <2>1, <1>8
<1>11. QED
  BY <1>3, <1>9, <1>10

(* The second half of pwmN_enable = 0: firmware and tables stay as they are *)
LEMMA FinishStep ==
  ASSUME IInv, NEW w \in Procs, FinishEnableFull(w)
  PROVE  /\ Sound(Current)' /\ Settled(Current)'
         /\ fw' = fw /\ fi'.user = fi.user /\ fi'.min = fi.min /\ fi'.count = fi.count
         /\ fi.full /\ fi'.full
<1>1. w # Free /\ lock = w
  BY InputsAssumption DEF FinishEnableFull
<1>2. Sound(Current) /\ fi.full /\ fi.mode # AUTO
  BY <1>1 DEF IInv
<1>3. /\ fi \in FanInfo /\ fw \in Firmware /\ fi.count = N /\ fw.userActive
      /\ \A p \in Slots : fw.table[p].speed = 100
  BY <1>2, CurrentFacts DEF Sound, Firmware
<1>4. /\ fi' = [fi EXCEPT !.mode = FULL, !.full = TRUE]
      /\ fw' = fw
  BY DEF FinishEnableFull
<1>5. /\ fi' \in FanInfo /\ fi'.mode = FULL /\ fi'.full = TRUE
      /\ fi'.user = fi.user /\ fi'.min = fi.min /\ fi'.count = fi.count
  BY <1>3, <1>4 DEF FanInfo, Modes
<1>6. Current'.fi = fi' /\ Current'.fw = fw
  BY <1>4 DEF Current
<1>7. Sound(Current')
  BY <1>3, <1>5, <1>6 DEF Sound, FULL, AUTO
<1>8. Settled(Current')
  BY <1>5, <1>6 DEF Settled
<1>9. QED
  BY <1>2, <1>4, <1>5, <1>7, <1>8

(* The unlocked look at the mode: nothing but the caller's own store moves  *)
LEMMA CheckStep ==
  ASSUME IInv, NEW w \in Procs, CheckTempStore(w) \/ CheckSpeedStore(w)
  PROVE  /\ UNCHANGED <<fi, fw, lock>>
         /\ fi.count = N
         /\ \E kind \in {"temp", "speed"}, p \in Slots, v \in U8 :
              /\ pending' = [pending EXCEPT ![w] = [kind |-> kind, point |-> p, val |-> v]]
              /\ kind = "temp" => \E t \in TempInputs : v = Degrees(t)
<1>1. fi.mode = MANUAL => fi.count = N
  BY CurrentFacts DEF IInv, Sound, MANUAL, AUTO
<1>2. CASE CheckTempStore(w)
  <2>1. PICK t \in TempInputs : CheckStore(w, "temp", Degrees(t))
    BY <1>2 DEF CheckTempStore
  <2>2. QED
    BY <1>1, <2>1 DEF CheckStore
<1>3. CASE CheckSpeedStore(w)
  <2>1. PICK t \in PwmInputs : CheckStore(w, "speed", Percent(t))
    BY <1>3 DEF CheckSpeedStore
  <2>2. QED
    BY <1>1, <2>1 DEF CheckStore
<1>4. QED
  BY <1>2, <1>3

LEMMA IInvNext == IInv /\ [Next]_vars => IInv'
<1> SUFFICES ASSUME IInv, [Next]_vars PROVE IInv'
  OBVIOUS
<1>0. Sound(Current) /\ pending \in [Procs -> Store \cup {Idle}]
  BY DEF IInv
<1>1. CASE UNCHANGED vars
  BY <1>1 DEF vars, IInv, Sound, Settled, Current
<1>2. ASSUME NEW w \in Procs, CheckTempStore(w) \/ CheckSpeedStore(w)
      PROVE  IInv'
  <2>1. PICK kind \in {"temp", "speed"}, p \in Slots, v \in U8 :
          pending' = [pending EXCEPT ![w] = [kind |-> kind, point |-> p, val |-> v]]
    BY <1>2, CheckStep
  <2>2. UNCHANGED <<fi, fw, lock>> /\ fi.count = N
    BY <1>2, CheckStep
  <2>3. [kind |-> kind, point |-> p, val |-> v] \in Store
    BY DEF Store
  <2>4. pending' \in [Procs -> Store \cup {Idle}]
    BY <1>0, <2>1, <2>3
  <2>5. QED
    BY <2>2, <2>4 DEF IInv, Sound, Settled, Current
<1>3. ASSUME NEW w \in Procs, ApplyStore(w)
      PROVE  IInv'
  <2>1. Keeps(Current, Current') /\ Settled(Current)'
    BY <1>3, ApplyStoreStep
  <2>2. lock = Free /\ lock' = lock /\ pending' = [pending EXCEPT ![w] = Idle] /\ fi.count = N
    BY <1>3 DEF ApplyStore, IInv
  <2>3. Sound(Current)' /\ fi'.count = N
    BY <2>1, <2>2 DEF Keeps, Current
  <2>4. QED
    BY <1>0, <2>1, <2>2, <2>3 DEF IInv
<1>4. ASSUME NEW w \in Procs,
             ShowPoint(w) \/ WritePwm(w) \/ WriteEnableManual(w) \/ WriteEnableAuto(w)
      PROVE  IInv'
  <2>1. Keeps(Current, Current') /\ Settled(Current)'
    BY <1>4, HandlerStep
  <2>2. lock = Free /\ lock' = lock /\ pending' = pending
    BY <1>4 DEF ShowPoint, WritePwm, WriteEnableManual, WriteEnableAuto, Locks
  <2>3. Sound(Current)' /\ (fi.count = N => fi'.count = N)
    BY <2>1 DEF Keeps, Current
  <2>4. QED
    BY <2>1, <2>2, <2>3 DEF IInv
<1>5. ASSUME NEW w \in Procs, WriteEnableFull(w)
      PROVE  IInv'
  <2>1. /\ Keeps(Current, Current')
        /\ lock' \in {w, Free}
        /\ lock' = Free => Settled(Current)'
        /\ lock' # Free => fi'.full /\ fi'.mode # AUTO
    BY <1>5, EnableFullStep
  <2>2. Sound(Current)' /\ (fi.count = N => fi'.count = N)
    BY <2>1 DEF Keeps, Current
  <2>3. pending' = pending
    BY <1>5 DEF WriteEnableFull
  <2>4. QED
    BY <2>1, <2>2, <2>3 DEF IInv
<1>6. ASSUME NEW w \in Procs, FinishEnableFull(w)
      PROVE  IInv'
  <2>1. Sound(Current)' /\ Settled(Current)' /\ fi'.count = fi.count
    BY <1>6, FinishStep
  <2>2. lock' = Free /\ pending' = pending
    BY <1>6 DEF FinishEnableFull
  <2>3. QED
    BY <2>1, <2>2 DEF IInv
<1>7. QED
  BY <1>1, <1>2, <1>3, <1>4, <1>5, <1>6 DEF Next

LEMMA Invariance == Spec => []IInv
BY IInvInit, IInvNext, PTL DEF Spec

(* Every field of the driver, the firmware's table, the lock and the stores *)
(* on their way stay in their ranges: no store leaves a speed or a          *)
(* temperature that does not fit the u8 the source keeps it in.             *)
THEOREM TypeCorrect == Spec => []TypeOK
<1>1. IInv => TypeOK
  BY CurrentFacts DEF IInv, TypeOK, Sound
<1>2. QED
  BY Invariance, <1>1, PTL

(* The mode the driver reports is the mode the firmware is in, whatever     *)
(* PCODE writes fail and however the handlers interleave.                   *)
THEOREM ModeTrue == Spec => []ModeMatchesFirmware
<1>1. IInv => ModeMatchesFirmware
  BY CurrentFacts DEF IInv, ModeMatchesFirmware, Sound, Settled
<1>2. QED
  BY Invariance, <1>1, PTL

(* No handler works on a user table that was never built, even when the     *)
(* store was let through before another process changed the mode.           *)
THEOREM TableAlwaysPresent == Spec => []TablePresent
<1>1. IInv => TablePresent
  BY CurrentFacts DEF IInv, TablePresent, Sound
<1>2. QED
  BY Invariance, <1>1, PTL
-----------------------------------------------------------------------------
(* The speed floor needs more: the driver's copy of the table is above the  *)
(* minimum too, and no temperature on its way is one the driver would take  *)
(* for a speed.                                                             *)
FInv ==
  /\ IInv
  /\ Floored(Current)
  /\ \A w \in Procs : pending[w].kind = "temp" => pending[w].val # 0
  /\ fw.userActive \/ fw = RunStock

NoZeroDegrees == \A t \in TempInputs : Degrees(t) # 0

(* What a step may do to the firmware and to the minimum                    *)
Follows ==
  /\ fi'.min = fi.min
  /\ \/ fw' = fw
     \/ fw' = RunStock
     \/ fw'.userActive /\ (fi'.full \/ fw'.table = fi'.user)

LEMMA FollowsFacts ==
  ASSUME Keeps(Current, Current'), Floored(Current)
  PROVE  Follows
<1>1. /\ Current.fi = fi /\ Current.fw = fw
      /\ Current'.fi = fi' /\ Current'.fw = fw'
  BY DEF Current
<1> HIDE DEF Current
<1>2. QED
  BY <1>1 DEF Keeps, Follows

LEMMA NotFullAtFirst == Init => fi.mode # FULL
BY ProbeSound DEF Init

LEMMA FInvInit == Init => FInv
<1> SUFFICES ASSUME Init PROVE FInv
  OBVIOUS
<1>1. PICK unread \in SUBSET Slots, countOk \in BOOLEAN, minOk \in BOOLEAN, k \in Writes :
        LET r == Probe(RunStock, unread, countOk, minOk, k)
        IN fi = r.fi /\ fw = r.fw
  BY DEF Init
<1> DEFINE r == Probe(RunStock, unread, countOk, minOk, k)
<1>2. Floored(r) /\ (r.fw.userActive \/ r.fw = RunStock)
  BY ProbeSound
<1>3. fi = r.fi /\ fw = r.fw
  BY <1>1
<1> HIDE DEF r
<1>4. Floored(Current) /\ (fw.userActive \/ fw = RunStock)
  BY <1>2, <1>3 DEF Floored, Current
<1>5. \A w \in Procs : pending[w].kind # "temp"
  BY DEF Init, Idle
<1>6. QED
  BY <1>4, <1>5, IInvInit DEF FInv

LEMMA FInvNext ==
  ASSUME NoZeroDegrees, FInv, [Next]_vars
  PROVE  FInv' /\ Follows
<1>1. IInv /\ IInv' /\ Floored(Current) /\ pending \in [Procs -> Store \cup {Idle}]
  BY IInvNext DEF FInv, IInv
<1> SUFFICES /\ Follows
             /\ Floored(Current)'
             /\ \A u \in Procs : pending'[u].kind = "temp" => pending'[u].val # 0
  BY <1>1 DEF FInv, Follows
<1>2. CASE UNCHANGED vars
  BY <1>1, <1>2 DEF vars, FInv, Follows, Floored, Current
<1>3. ASSUME NEW w \in Procs, CheckTempStore(w) \/ CheckSpeedStore(w)
      PROVE  /\ Follows
             /\ Floored(Current)'
             /\ \A u \in Procs : pending'[u].kind = "temp" => pending'[u].val # 0
  <2>1. UNCHANGED <<fi, fw>>
    BY <1>1, <1>3, CheckStep
  <2>2. PICK kind \in {"temp", "speed"}, p \in Slots, v \in U8 :
          /\ pending' = [pending EXCEPT ![w] = [kind |-> kind, point |-> p, val |-> v]]
          /\ kind = "temp" => \E t \in TempInputs : v = Degrees(t)
    BY <1>1, <1>3, CheckStep
  <2>3. kind = "temp" => v # 0
    BY <2>2 DEF NoZeroDegrees
  <2>4. \A u \in Procs : pending'[u].kind = "temp" => pending'[u].val # 0
    BY <1>1, <2>2, <2>3 DEF FInv
  <2>5. QED
    BY <1>1, <2>1, <2>4 DEF Follows, Floored, Current
<1>4. ASSUME NEW w \in Procs, ApplyStore(w)
      PROVE  /\ Follows
             /\ Floored(Current)'
             /\ \A u \in Procs : pending'[u].kind = "temp" => pending'[u].val # 0
  <2>1. Keeps(Current, Current') /\ Floored(Current)'
    BY <1>1, <1>4, ApplyStoreStep DEF FInv
  <2>2. \A u \in Procs : pending'[u].kind = "temp" => pending'[u].val # 0
    BY <1>1, <1>4 DEF ApplyStore, FInv, Idle
  <2>3. QED
    BY <1>1, <2>1, <2>2, FollowsFacts
<1>5. ASSUME NEW w \in Procs,
             ShowPoint(w) \/ WritePwm(w) \/ WriteEnableManual(w) \/ WriteEnableAuto(w)
      PROVE  /\ Follows
             /\ Floored(Current)'
             /\ pending' = pending
  <2>1. Keeps(Current, Current') /\ Floored(Current)'
    BY <1>1, <1>5, HandlerStep
  <2>2. pending' = pending
    BY <1>5 DEF ShowPoint, WritePwm, WriteEnableManual, WriteEnableAuto
  <2>3. QED
    BY <1>1, <2>1, <2>2, FollowsFacts
<1>6. ASSUME NEW w \in Procs, WriteEnableFull(w)
      PROVE  /\ Follows
             /\ Floored(Current)'
             /\ pending' = pending
  <2>1. Keeps(Current, Current') /\ Floored(Current)'
    BY <1>1, <1>6, EnableFullStep
  <2>2. QED
    BY <1>1, <1>6, <2>1, FollowsFacts DEF WriteEnableFull
<1>7. ASSUME NEW w \in Procs, FinishEnableFull(w)
      PROVE  /\ Follows
             /\ Floored(Current)'
             /\ pending' = pending
  <2>1. fw' = fw /\ fi'.user = fi.user /\ fi'.min = fi.min /\ fi'.count = fi.count
    BY <1>1, <1>7, FinishStep
  <2>2. Floored(Current)'
    BY <1>1, <2>1 DEF Floored, CacheAboveMin, Current
  <2>3. QED
    BY <1>7, <2>1, <2>2 DEF Follows, FinishEnableFull
<1>8. (\A u \in Procs : pending[u].kind = "temp" => pending[u].val # 0)
  BY DEF FInv
<1>9. QED
  BY <1>2, <1>3, <1>4, <1>5, <1>6, <1>7, <1>8 DEF Next

LEMMA FloorInvariance ==
  ASSUME NoZeroDegrees
  PROVE  Spec => []FInv
<1>1. FInv /\ [Next]_vars => FInv'
  BY FInvNext
<1>2. QED
  BY FInvInit, <1>1, PTL DEF Spec

(* As long as no process writes a temperature that rounds to 0 degrees, the *)
(* fan never runs below the minimum speed the driver read, by any table.    *)
THEOREM FloorKept ==
  ASSUME NoZeroDegrees
  PROVE  Spec => []SpeedFloor
<1>1. FInv => SpeedFloor
  BY CurrentFacts DEF FInv, Floored, SpeedFloor
<1>2. QED
  BY FloorInvariance, <1>1, PTL

(* Under the same assumption the table that comes into force is always the  *)
(* one the point files show, the stock table, or full speed.                *)
THEOREM RunsWhatIsShown ==
  ASSUME NoZeroDegrees
  PROVE  Spec => FirmwareFollowsCache
<1>1. FInv /\ [Next]_vars =>
        [fw' # fw => fw' = RunStock \/ fw'.table = fi'.user \/ fi'.full]_vars
  BY FInvNext DEF Follows
<1>2. QED
  BY FloorInvariance, <1>1, PTL DEF Spec, FirmwareFollowsCache

(* Every step of a handler hands the fan back to the stock table, follows a *)
(* curve above the minimum, runs it at full speed, or changes nothing that  *)
(* the promise speaks of; so the driver implements its promise.             *)
THEOREM ImplementsPromise ==
  ASSUME NoZeroDegrees
  PROVE  Spec => KeepsPromise
<1>1. Init => Promise!Init
  <2> SUFFICES ASSUME Init PROVE Promise!Init
    OBVIOUS
  <2>1. FInv
    BY FInvInit
  <2>2. /\ fi \in FanInfo /\ fw \in Firmware
        /\ fi.mode = AUTO <=> ~fw.userActive
        /\ fw.userActive => \A p \in Slots : fw.table[p].speed >= fi.min
        /\ fw.userActive \/ fw = RunStock
    BY <2>1, CurrentFacts DEF FInv, IInv, Sound, Floored
  <2>3. fi.mode # FULL /\ lock = Free /\ (fi.full <=> fi.mode = FULL)
    BY <2>1, NotFullAtFirst, CurrentFacts DEF Init, FInv, IInv, Settled
  <2>4. fi.min \in 0..100 /\ fw.table \in Table
    BY <2>2, DriverFacts DEF FanInfo, Firmware
  <2>5. CASE fi.mode = AUTO
    BY <2>2, <2>3, <2>4, <2>5 DEF Promise!Init, ReportedMode, RunStock
  <2>6. CASE fi.mode # AUTO
    BY <2>2, <2>3, <2>4, <2>6 DEF Promise!Init, ReportedMode
  <2>7. QED
    BY <2>5, <2>6
<1>2. FInv /\ FInv' /\ Follows /\ [Next]_vars => [Promise!Next]_Promise!avars
  <2> SUFFICES ASSUME FInv, FInv', Follows
               PROVE  Promise!Next
    OBVIOUS
  <2>1. fi.min' = fi.min
    BY DEF Follows
  <2>0. /\ Current'.fi = fi' /\ Current'.fw = fw'
        /\ Sound(Current') /\ Floored(Current')
        /\ fw'.userActive \/ fw' = RunStock
    BY DEF FInv, IInv, Current
  <2> HIDE DEF Current
  <2>2. /\ fw' \in Firmware
        /\ fi'.mode = AUTO <=> ~fw'.userActive
        /\ fi'.full => \A p \in Slots : fw'.table[p].speed = 100
        /\ fw'.userActive => \A p \in Slots : fw'.table[p].speed >= fi'.min
        /\ fw'.userActive \/ fw' = RunStock
    BY <2>0 DEF Sound, Floored
  <2>3. fw'.table \in Table
    BY <2>2 DEF Firmware
  <2>4. CASE fi'.full
    BY <2>1, <2>2, <2>3, <2>4 DEF Promise!Next, Promise!FullSpeed, ReportedMode
  <2>5. CASE ~fi'.full /\ fi'.mode = AUTO
    BY <2>1, <2>2, <2>3, <2>5 DEF Promise!Next, Promise!HandBack, ReportedMode, RunStock
  <2>6. CASE ~fi'.full /\ fi'.mode # AUTO
    BY <2>1, <2>2, <2>3, <2>6 DEF Promise!Next, Promise!Follow, ReportedMode
  <2>7. QED
    BY <2>4, <2>5, <2>6
<1>3. FInv /\ [Next]_vars => FInv' /\ Follows
  BY FInvNext
<1>4. QED
  BY FloorInvariance, <1>1, <1>2, <1>3, PTL DEF Spec, KeepsPromise, Promise!Spec
=============================================================================
