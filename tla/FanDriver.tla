------------------------------ MODULE FanDriver ------------------------------
(***************************************************************************)
(* One fan of the xe hwmon driver as the fan-control patch leaves it: the   *)
(* fields of struct xe_hwmon_fan_info that the fan tables use, the table    *)
(* the card's firmware (PCODE mailbox FAN_SPEED_CONTROL) is running, and    *)
(* what every helper that runs with hwmon_lock held does to the two.        *)
(*                                                                         *)
(* The module has no variables: a helper takes the pair s = [fi, fw] and    *)
(* the number k of PCODE writes the firmware accepts before one fails, and  *)
(* returns the pair it leaves and whether it succeeded.  The modules that   *)
(* run the driver (FanHwmon, FanCurve) turn them into actions.              *)
(*                                                                         *)
(* Firmware (external): points are staged by FSC_WRITE_FAN_TABLE and come   *)
(* into force, all together, with FSC_WRITE_NUM_FAN_CONTROL_POINTS; a count *)
(* of 0 returns to the stock table; a sequence given up half-way is never   *)
(* put in force; a write that reports failure had no effect.                *)
(***************************************************************************)
EXTENDS Integers

CONSTANTS N,        \* points of the card's stock table (at most 10 are used)
          Stock,    \* the stock table in the firmware
          MinPwm    \* the smallest fan speed the firmware reports, in percent

Slots == 1..N
U8    == 0..255
Point == [temp : U8, speed : U8]
Table == [Slots -> Point]

ASSUME DriverAssumption ==
  /\ N \in 1..10
  /\ Stock \in Table
  /\ MinPwm \in 0..100

(* enum xe_fan_pwm_enable_mode *)
FULL   == 0
MANUAL == 1
AUTO   == 2
Modes  == {FULL, MANUAL, AUTO}

FanInfo == [mode       : Modes,
            full       : BOOLEAN,       \* is_full_speed
            count      : {0, N},        \* points of the user table
            user       : Table,         \* the driver's copy of the user table
            tempValid  : BOOLEAN,       \* last_point_temp_valid
            speedValid : BOOLEAN,       \* last_point_speed_valid
            min        : {0, MinPwm},
            stock      : Table,         \* the driver's copy of the stock table
            stockCount : {0, N}]

Firmware == [userActive : BOOLEAN, table : Table]
Driver   == [fi : FanInfo, fw : Firmware]
Outcome  == [fi : FanInfo, fw : Firmware, ok : BOOLEAN]

RunStock == [userActive |-> FALSE, table |-> Stock]
Run(t)   == [userActive |-> TRUE,  table |-> t]

Writes    == 0..(N + 1)   \* how many PCODE writes of a sequence are accepted
AllWrites == N + 1        \* N points and the count

Failed(fi, fw)    == [fi |-> fi, fw |-> fw, ok |-> FALSE]
Succeeded(fi, fw) == [fi |-> fi, fw |-> fw, ok |-> TRUE]
-----------------------------------------------------------------------------
AtLeastMin(speed, fi) == IF speed < fi.min THEN fi.min ELSE speed

(* DIV_ROUND_CLOSEST of xe_hwmon_get_u8_from_sysfs (non-negative input)     *)
Degrees(millidegrees) == (millidegrees + 500) \div 1000
Percent(pwm)          == (pwm * 100 + 127) \div 255

(* The order xe_hwmon_commit_user_fan_table demands of the table            *)
Ordered(t) ==
  \A p \in Slots \ {1} : /\ t[p - 1].temp  <= t[p].temp
                         /\ t[p - 1].speed <= t[p].speed

(* A slip: the full-speed flag survives the commit *)
CommitKeepingFull(s, k) ==
  IF s.fi.count = 0 \/ ~Ordered(s.fi.user) \/ k < AllWrites
  THEN Failed(s.fi, s.fw)
  ELSE Succeeded([s.fi EXCEPT !.mode = MANUAL], Run(s.fi.user))

(* Commit: no table, a table out of order and a failing PCODE write all end *)
(* with the firmware and the driver as they were.                           *)
Commit(s, k) ==
  IF s.fi.count = 0 \/ ~Ordered(s.fi.user) \/ k < AllWrites
  THEN Failed(s.fi, s.fw)
  ELSE Succeeded([s.fi EXCEPT !.mode = MANUAL, !.full = FALSE], Run(s.fi.user))

FromStock(fi)   == fi.mode = AUTO
ActiveTable(fi) == IF FromStock(fi) THEN fi.stock ELSE fi.user

(* A slip: one point too many *)
ActiveCountPlusOne(fi) == IF FromStock(fi) THEN fi.stockCount + 1 ELSE fi.count

ActiveCount(fi) == IF FromStock(fi) THEN fi.stockCount ELSE fi.count

(* What activation sends to the firmware for the active table *)
Activated(fi, full) ==
  [p \in Slots |->
     [temp  |-> ActiveTable(fi)[p].temp,
      speed |-> IF full THEN 100 ELSE AtLeastMin(ActiveTable(fi)[p].speed, fi)]]

(* A slip: the stock table is activated and not copied *)
CopiedNowhere(fi, full, k) == fi.user

(* The user table after k accepted writes: only activation out of AUTO copies *)
CopiedUser(fi, full, k) ==
  [p \in Slots |-> IF FromStock(fi) /\ p <= k
                   THEN Activated(fi, full)[p] ELSE fi.user[p]]

(* A slip: the user table is there but not counted *)
ActivateUncounted(s, full, k) ==
  IF ActiveCount(s.fi) = 0
  THEN Failed(s.fi, s.fw)
  ELSE IF k < AllWrites
       THEN Failed([s.fi EXCEPT !.user = CopiedUser(s.fi, full, k)], s.fw)
       ELSE Succeeded([s.fi EXCEPT !.user = CopiedUser(s.fi, full, k),
                                   !.mode = MANUAL, !.full = full],
                      Run(Activated(s.fi, full)))

Activate(s, full, k) ==
  IF ActiveCount(s.fi) = 0
  THEN Failed(s.fi, s.fw)
  ELSE IF k < AllWrites
       THEN Failed([s.fi EXCEPT !.user = CopiedUser(s.fi, full, k)], s.fw)
       ELSE Succeeded([s.fi EXCEPT !.user  = CopiedUser(s.fi, full, k),
                                   !.count = ActiveCount(s.fi),
                                   !.mode  = MANUAL,
                                   !.full  = full],
                      Run(Activated(s.fi, full)))

(* xe_hwmon_set_user_fan_pwm: one speed for every point, truncating        *)
SetUserPwm(s, pwm, k) ==
  LET flat    == AtLeastMin((pwm * 100) \div 255, s.fi)
      written == [p \in Slots |-> IF p <= k THEN [s.fi.user[p] EXCEPT !.speed = flat]
                                            ELSE s.fi.user[p]]
  IN IF s.fi.mode = AUTO \/ s.fi.count = 0
     THEN Failed(s.fi, s.fw)
     ELSE IF k < AllWrites
          THEN Failed([s.fi EXCEPT !.user = written], s.fw)
          ELSE Succeeded([s.fi EXCEPT !.user = written, !.mode = MANUAL,
                                      !.full = FALSE], Run(written))

(* xe_hwmon_get_user_fan_point_count: builds the user table on first use    *)
UserCount(s, k) ==
  IF s.fi.count = 0 THEN Activate(s, FALSE, k) ELSE Succeeded(s.fi, s.fw)

(* xe_hwmon_update_user_fan_point: temp # 0 stores a temperature, temp = 0  *)
(* stores the speed; the last point's two halves together commit.           *)
WithTemp(fi, p, temp) ==
  [fi EXCEPT !.user[p].temp = temp, !.tempValid = @ \/ p = N]
WithSpeed(fi, p, pwm) ==
  [fi EXCEPT !.user[p].speed = pwm, !.speedValid = @ \/ p = N]
PointStored(fi, p, temp, pwm) ==
  IF temp # 0 THEN WithTemp(fi, p, temp) ELSE WithSpeed(fi, p, pwm)

UpdatePoint(s, p, temp, pwm, k) ==
  LET stored    == PointStored(s.fi, p, temp, pwm)
      committed == Commit([fi |-> stored, fw |-> s.fw], k)
  IN IF ~(p = N /\ stored.tempValid /\ stored.speedValid)
     THEN Succeeded(stored, s.fw)
     ELSE IF ~committed.ok
          THEN committed
          ELSE Succeeded([committed.fi EXCEPT !.tempValid = FALSE,
                                              !.speedValid = FALSE], committed.fw)

(* The part of the two point store handlers that holds the lock            *)
StorePoint(s, p, temp, pwm, k) ==
  LET counted == UserCount(s, k)
  IN IF ~counted.ok \/ p > counted.fi.count
     THEN Failed(counted.fi, counted.fw)
     ELSE UpdatePoint([fi |-> counted.fi, fw |-> counted.fw], p, temp, pwm, k)

StoreTemp(s, p, temp, k) == StorePoint(s, p, temp, 0, k)

(* A slip: the speed is not raised to the minimum *)
StoreSpeedBelowMin(s, p, pwm, k) == StorePoint(s, p, 0, pwm, k)

StoreSpeed(s, p, pwm, k) == StorePoint(s, p, 0, AtLeastMin(pwm, s.fi), k)

(* A slip: the mode is set before the write is known to have succeeded *)
EnableStockTooSoon(s, k) ==
  IF k = 0 THEN Failed([s.fi EXCEPT !.mode = AUTO, !.full = FALSE], s.fw)
  ELSE Succeeded([s.fi EXCEPT !.mode = AUTO, !.full = FALSE], RunStock)

(* pwmN_enable = 2: a count of 0 *)
EnableStock(s, k) ==
  IF k = 0 THEN Failed(s.fi, s.fw)
  ELSE Succeeded([s.fi EXCEPT !.mode = AUTO, !.full = FALSE], RunStock)
-----------------------------------------------------------------------------
Blank == [p \in Slots |-> [temp |-> 0, speed |-> 0]]

(* xe_hwmon_read_fan_control_info: the tables as the driver loads.  unread  *)
(* are the stock points whose read failed; countOk and minOk tell whether   *)
(* the stock count and the minimum speed were read.                         *)
Probed(unread, countOk, minOk) ==
  [mode |-> AUTO, full |-> FALSE, count |-> 0, user |-> Blank,
   tempValid |-> FALSE, speedValid |-> FALSE,
   min |-> IF minOk THEN MinPwm ELSE 0,
   stock |-> [p \in Slots |-> IF countOk /\ p \notin unread THEN Stock[p] ELSE Blank[p]],
   stockCount |-> IF countOk THEN N ELSE 0]

Probe(fw, unread, countOk, minOk, k) ==
  LET s == [fi |-> Probed(unread, countOk, minOk), fw |-> fw]
  IN IF minOk THEN Activate(s, FALSE, k) ELSE Failed(s.fi, s.fw)
=============================================================================
