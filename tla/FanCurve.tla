------------------------------- MODULE FanCurve -------------------------------
(***************************************************************************)
(* scripts/xe-fan-curve.sh: the sequences of sysfs accesses by which `set`, *)
(* `stock-read`, `auto` and `max` drive one fan, run by the desktop, by     *)
(* xe-fan-curve.service (`boot` is `set` with the curve of the conf, or     *)
(* `auto` without one; ExecStop is `auto`) or by hand.                      *)
(*                                                                         *)
(* Each access is one step; reading all points of the curve is one step.    *)
(* A step that fails ends the script (set -e) where the script does not     *)
(* tolerate it.                                                            *)
(***************************************************************************)
EXTENDS FanDriver, Sequences

CONSTANTS Scripts,    \* scripts that may run at the same time
          Curves,     \* the T:PWM lists given to `set`
          Failures,   \* PCODE writes may fail
          None        \* no curve asked for

ASSUME CurvesAssumption ==
  /\ Failures \in BOOLEAN
  /\ \A c \in Curves : c # <<>>

VARIABLES fi, fw,     \* the driver and the firmware
          run,        \* what each script is doing
          asked       \* the list `set` last went through; None after auto, max

vars == <<fi, fw, run, asked>>

Current    == [fi |-> fi, fw |-> fw]
Becomes(r) == fi' = r.fi /\ fw' = r.fw
Accepted   == IF Failures THEN Writes ELSE {AllWrites}

(* pwm1_enable as it reads *)
Enable(i) == IF i.full THEN FULL ELSE i.mode

(* The points of the user table as they read: pwm in 0..255 *)
PwmShown(speed) == (speed * 255 + 50) \div 100
Shown(table) == [p \in Slots |-> <<table[p].temp, PwmShown(table[p].speed)>>]
-----------------------------------------------------------------------------
(* A slip: the points are passed on as they were given *)
FilledAsGiven(c) == [p \in Slots |-> c[IF p <= Len(c) THEN p ELSE Len(c)]]

(* The slots `set` fills: the given points as far as there are slots for    *)
(* them, each temperature above the one before, no pwm below the one        *)
(* before, the last one repeated 1 C apart.                                 *)
Filled(c) ==
  LET slot[p \in Slots] ==
        LET given == c[IF p <= Len(c) THEN p ELSE Len(c)]
            before == slot[p - 1]
        IN IF p = 1 THEN given
           ELSE << IF p <= Len(c) /\ given[1] > before[1] THEN given[1] ELSE before[1] + 1,
                   IF given[2] >= before[2] THEN given[2] ELSE before[2] >>
  IN [p \in Slots |-> slot[p]]

(* The table those slots stand for *)
Wanted(c) ==
  [p \in Slots |-> [temp  |-> Filled(c)[p][1],
                    speed |-> AtLeastMin(Percent(Filled(c)[p][2]), fi)]]

Idle == [pc |-> "idle", curve |-> <<>>, slot |-> 1, applied |-> 0, clean |-> TRUE,
         reading |-> FALSE, saved |-> <<>>, enable |-> AUTO, stock |-> <<>>,
         before |-> [fi |-> None, fw |-> None]]

At(w, pc)       == run[w].pc = pc
Goes(w, pc)     == run' = [run EXCEPT ![w].pc = pc]
Ends(w)         == run' = [run EXCEPT ![w] = Idle]
NotDriver       == <<fi, fw>>

(* set, also called by stock-read to restore what it saved *)
BeginSet(rec, c) ==
  [rec EXCEPT !.pc = "mode", !.curve = c, !.slot = 1, !.applied = 0, !.clean = TRUE]

StartSet(w) ==
  /\ At(w, "idle")
  /\ \E c \in Curves : run' = [run EXCEPT ![w] = BeginSet(@, c)]
  /\ UNCHANGED <<fi, fw, asked>>

(* Manual mode first, unless the file reads 1 already *)
SetMode(w) ==
  /\ At(w, "mode")
  /\ IF Enable(fi) = MANUAL
     THEN UNCHANGED NotDriver /\ Goes(w, "temp")
     ELSE \E k \in Accepted :
            LET r == Activate(Current, FALSE, k)
            IN Becomes(r) /\ IF r.ok THEN Goes(w, "temp") ELSE Ends(w)
  /\ UNCHANGED asked

(* A store is rejected outside manual mode; one of temperature is allowed   *)
(* to fail, one of pwm ends the loop.                                       *)
Slot(w)     == Filled(run[w].curve)[run[w].slot]
Rejected(v) == fi.mode # MANUAL \/ v \notin U8

SetTemp(w) ==
  /\ At(w, "temp")
  /\ IF Rejected(Slot(w)[1])
     THEN UNCHANGED NotDriver /\ run' = [run EXCEPT ![w].pc = "pwm", ![w].clean = FALSE]
     ELSE \E k \in Accepted :
            LET r == StoreTemp(Current, run[w].slot, Slot(w)[1], k)
            IN Becomes(r) /\ run' = [run EXCEPT ![w].pc = "pwm", ![w].clean = @ /\ r.ok]
  /\ UNCHANGED asked

(* A slip: the loop runs past the last slot *)
NextSlotUnbounded(rec) ==
  [rec EXCEPT !.applied = rec.slot, !.slot = @ + 1,
              !.pc = IF rec.slot < N THEN "temp" ELSE "report"]

NextSlot(rec) ==
  [rec EXCEPT !.applied = rec.slot,
              !.slot = IF rec.slot < N THEN @ + 1 ELSE @,
              !.pc   = IF rec.slot < N THEN "temp" ELSE "report"]

(* A list with more points than slots is written as far as it goes, and     *)
(* then refused in words only.                                              *)
SaysApplied(rec) == rec.pc = "report" /\ rec.applied >= Len(rec.curve)
WentThrough(rec) == SaysApplied(rec) \/ (rec.pc = "report" /\ rec.applied = N)

StopAtSlot(rec) == [rec EXCEPT !.pc = "report", !.clean = FALSE]

SetPwm(w) ==
  /\ At(w, "pwm")
  /\ IF Rejected(Percent(Slot(w)[2]))
     THEN UNCHANGED NotDriver /\ run' = [run EXCEPT ![w] = StopAtSlot(@)]
     ELSE \E k \in Accepted :
            LET r == StoreSpeed(Current, run[w].slot, Percent(Slot(w)[2]), k)
            IN Becomes(r) /\ run' = [run EXCEPT ![w] = IF r.ok THEN NextSlot(@) ELSE StopAtSlot(@)]
  /\ asked' = IF WentThrough(run'[w]) /\ ~run[w].reading THEN run[w].curve ELSE asked

(* The script says "applied custom curve", or that too few points were      *)
(* accepted; stock-read goes on only after the former.                      *)
Report(w) ==
  /\ At(w, "report")
  /\ IF run[w].reading /\ SaysApplied(run[w]) THEN Goes(w, "restoreMode") ELSE Ends(w)
  /\ UNCHANGED <<fi, fw, asked>>
-----------------------------------------------------------------------------
(* stock-read: save the user's table and the mode, flip to stock and back   *)
(* to manual so that the driver copies the stock table, read it, restore.   *)
StartStockRead(w) ==
  /\ At(w, "idle")
  /\ \E k \in Accepted :
       LET r == UserCount(Current, k)
       IN /\ Becomes(r)
          /\ run' = [run EXCEPT ![w] =
               [Idle EXCEPT !.pc = "enable", !.reading = TRUE, !.before = Current,
                            !.saved = IF r.ok THEN Shown(r.fi.user) ELSE <<>>]]
  /\ UNCHANGED asked

SaveMode(w) ==
  /\ At(w, "enable")
  /\ run' = [run EXCEPT ![w].pc = "flipAuto", ![w].enable = Enable(fi)]
  /\ UNCHANGED <<fi, fw, asked>>

(* A slip: the detour through automatic mode is left out *)
FlipNothing(w) ==
  /\ At(w, "flipAuto")
  /\ Goes(w, "flipManual")
  /\ UNCHANGED <<fi, fw, asked>>

FlipAuto(w) ==
  /\ At(w, "flipAuto")
  /\ \E k \in Accepted :
       LET r == EnableStock(Current, k)
       IN Becomes(r) /\ IF r.ok THEN Goes(w, "flipManual") ELSE Ends(w)
  /\ UNCHANGED asked

FlipManual(w) ==
  /\ At(w, "flipManual")
  /\ \E k \in Accepted :
       LET r == Activate(Current, FALSE, k)
       IN Becomes(r) /\ IF r.ok THEN Goes(w, "readStock") ELSE Ends(w)
  /\ UNCHANGED asked

ReadStock(w) ==
  /\ At(w, "readStock")
  /\ LET read == [run[w] EXCEPT !.stock = Shown(fi.user)]
     IN run' = [run EXCEPT ![w] = IF read.saved = <<>> THEN [read EXCEPT !.pc = "restoreMode"]
                                  ELSE BeginSet(read, read.saved)]
  /\ UNCHANGED <<fi, fw, asked>>

(* Writing pwm1_enable *)
Full(s, k) ==
  LET r == Activate(s, TRUE, k)
  IN IF r.ok THEN [r EXCEPT !.fi.mode = FULL] ELSE r

WriteEnable(v, k) ==
  IF v = FULL THEN Full(Current, k)
  ELSE IF v = MANUAL THEN Activate(Current, FALSE, k) ELSE EnableStock(Current, k)

(* A slip: the mode is not put back *)
RestoreNothing(w) ==
  /\ At(w, "restoreMode")
  /\ Goes(w, "print")
  /\ UNCHANGED <<fi, fw, asked>>

RestoreMode(w) ==
  /\ At(w, "restoreMode")
  /\ IF run[w].enable = MANUAL
     THEN UNCHANGED NotDriver /\ Goes(w, "print")
     ELSE \E k \in Accepted :
            LET r == WriteEnable(run[w].enable, k)
            IN Becomes(r) /\ IF r.ok THEN Goes(w, "print") ELSE Ends(w)
  /\ UNCHANGED asked

PrintStock(w) ==
  /\ At(w, "print")
  /\ Ends(w)
  /\ UNCHANGED <<fi, fw, asked>>
-----------------------------------------------------------------------------
(* auto and max *)
HandOver(w, v) ==
  /\ At(w, "idle")
  /\ \E k \in Accepted : LET r == WriteEnable(v, k)
                         IN Becomes(r) /\ asked' = IF r.ok THEN None ELSE asked
  /\ UNCHANGED run

ToAuto(w) == HandOver(w, AUTO)
ToMax(w)  == HandOver(w, FULL)

Init ==
  /\ \E k \in Accepted : LET r == Probe(RunStock, {}, TRUE, TRUE, k) IN fi = r.fi /\ fw = r.fw
  /\ run = [w \in Scripts |-> Idle]
  /\ asked = None

Next ==
  \E w \in Scripts :
    \/ StartSet(w) \/ SetMode(w) \/ SetTemp(w) \/ SetPwm(w) \/ Report(w)
    \/ StartStockRead(w) \/ SaveMode(w) \/ FlipAuto(w) \/ FlipManual(w)
    \/ ReadStock(w) \/ RestoreMode(w) \/ PrintStock(w)
    \/ ToAuto(w) \/ ToMax(w)

Spec == Init /\ [][Next]_vars
-----------------------------------------------------------------------------
TypeOK ==
  /\ fi \in FanInfo
  /\ fw \in Firmware
  /\ \A w \in Scripts : run[w].slot \in Slots /\ run[w].applied \in 0..run[w].slot
  /\ asked \in Curves \cup {None}

(* The circumstances the three properties below are about: one script at a *)
(* time and no write that fails; a stock table in percent whose             *)
(* temperatures rise and whose speeds do not fall; lists in degrees and pwm *)
(* that leave the padding room below 256 C.  A temperature of 0 is left     *)
(* out: the driver takes it for a store of the speed (FanHwmon).            *)
Undisturbed == Failures = FALSE /\ \E w \in Scripts : Scripts = {w}
InRange ==
  /\ \A p \in Slots : Stock[p].temp >= 1 /\ Stock[p].speed <= 100
  /\ \A p \in Slots \ {1} : /\ Stock[p - 1].temp < Stock[p].temp
                            /\ Stock[p - 1].speed <= Stock[p].speed
  /\ \A c \in Curves : c \in Seq((1..(255 - N)) \X U8)

(* Once `set` has gone through its list, and as long as nobody runs `auto`  *)
(* or `max`, the fan follows that list, padded and raised to the minimum,   *)
(* whenever no script is at work: also after any stock-read, which prints   *)
(* the stock table "WITHOUT changing the applied curve", and also when      *)
(* `set` has said that only N of the list's points were accepted: then the  *)
(* fan follows the first N.                                                 *)
CurveRuns ==
  (\A w \in Scripts : At(w, "idle")) /\ asked # None => fw = Run(Wanted(asked))

(* A stock-read that runs to its end leaves firmware, mode and user table   *)
(* as it found them, from manual, automatic and full-speed mode alike.      *)
StockReadRestores ==
  \A w \in Scripts : At(w, "print") =>
    /\ fw = run[w].before.fw
    /\ Enable(fi) = Enable(run[w].before.fi)
    /\ fi.user = run[w].before.fi.user

(* ... and what it prints is the card's stock table, raised to the minimum. *)
PrintsStock ==
  \A w \in Scripts : At(w, "print") =>
    \A p \in Slots : /\ run[w].stock[p][1] = Stock[p].temp
                     /\ Percent(run[w].stock[p][2]) = AtLeastMin(Stock[p].speed, fi)
=============================================================================
