------------------------------- MODULE FanHwmon -------------------------------
(***************************************************************************)
(* The sysfs files of one fan used by several processes at once.            *)
(*                                                                         *)
(* Every handler works under hwmon_lock, so its locked part is one step,    *)
(* with two exceptions the source has: the point store handlers look at     *)
(* pwm_enable_mode before they take the lock, and pwmN_enable = 0 passes    *)
(* through MANUAL on its way to FULL, which such a look can see.            *)
(***************************************************************************)
EXTENDS FanDriver

CONSTANTS Procs,         \* processes using the files
          Free,          \* hwmon_lock is not held
          TempInputs,    \* millidegrees written to pwmN_auto_pointM_temp
          PwmInputs      \* values written to pwmN_auto_pointM_pwm and pwmN

ASSUME InputsAssumption ==
  /\ Free \notin Procs
  /\ TempInputs \subseteq Nat
  /\ PwmInputs \subseteq Nat

VARIABLES fi,       \* hwmon->fi[fan]
          fw,       \* the table the firmware runs
          lock,     \* holder of hwmon_lock between two steps
          pending   \* the store a process has checked and not yet applied

vars == <<fi, fw, lock, pending>>

Idle  == [kind |-> "idle", point |-> 1, val |-> 0]
Store == [kind : {"temp", "speed"}, point : Slots, val : U8]

Init ==
  /\ \E unread \in SUBSET Slots, countOk, minOk \in BOOLEAN, k \in Writes :
       LET r == Probe(RunStock, unread, countOk, minOk, k)
       IN fi = r.fi /\ fw = r.fw
  /\ lock = Free
  /\ pending = [w \in Procs |-> Idle]

Current == [fi |-> fi, fw |-> fw]

Becomes(r) == fi' = r.fi /\ fw' = r.fw

Locks(w) == lock = Free /\ pending[w] = Idle
-----------------------------------------------------------------------------
(* Point stores: the mode is checked and the number parsed without the lock *)
CheckStore(w, kind, val) ==
  /\ lock # w
  /\ pending[w] = Idle
  /\ fi.mode = MANUAL
  /\ val \in U8
  /\ \E p \in Slots : pending' = [pending EXCEPT ![w] = [kind |-> kind, point |-> p, val |-> val]]
  /\ UNCHANGED <<fi, fw, lock>>

CheckTempStore(w)  == \E v \in TempInputs : CheckStore(w, "temp", Degrees(v))
CheckSpeedStore(w) == \E v \in PwmInputs  : CheckStore(w, "speed", Percent(v))

ApplyStore(w) ==
  /\ lock = Free
  /\ pending[w] # Idle
  /\ \E k \in Writes :
       Becomes(IF pending[w].kind = "temp"
               THEN StoreTemp(Current, pending[w].point, pending[w].val, k)
               ELSE StoreSpeed(Current, pending[w].point, pending[w].val, k))
  /\ pending' = [pending EXCEPT ![w] = Idle]
  /\ UNCHANGED lock

(* Reading a point of the curve *)
ShowPoint(w) ==
  /\ Locks(w)
  /\ \E k \in Writes : Becomes(UserCount(Current, k))
  /\ UNCHANGED <<lock, pending>>

(* pwmN: flat speed, in manual mode only *)
WritePwm(w) ==
  /\ Locks(w)
  /\ fi.mode = MANUAL
  /\ ~fi.full
  /\ \E v \in PwmInputs \cap U8, k \in Writes : Becomes(SetUserPwm(Current, v, k))
  /\ UNCHANGED <<lock, pending>>

(* pwmN_enable = 0: the table is activated with the mode MANUAL ...         *)
WriteEnableFull(w) ==
  /\ Locks(w)
  /\ \E k \in Writes :
       LET r == Activate(Current, TRUE, k)
       IN Becomes(r) /\ lock' = IF r.ok THEN w ELSE Free
  /\ UNCHANGED pending

(* ... and the mode is set to FULL before the lock is released              *)
FinishEnableFull(w) ==
  /\ lock = w
  /\ fi' = [fi EXCEPT !.mode = FULL, !.full = TRUE]
  /\ lock' = Free
  /\ UNCHANGED <<fw, pending>>

WriteEnableManual(w) ==
  /\ Locks(w)
  /\ \E k \in Writes : Becomes(Activate(Current, FALSE, k))
  /\ UNCHANGED <<lock, pending>>

WriteEnableAuto(w) ==
  /\ Locks(w)
  /\ \E k \in Writes : Becomes(EnableStock(Current, k))
  /\ UNCHANGED <<lock, pending>>

Next ==
  \E w \in Procs : \/ CheckTempStore(w)
                   \/ CheckSpeedStore(w)
                   \/ ApplyStore(w)
                   \/ ShowPoint(w)
                   \/ WritePwm(w)
                   \/ WriteEnableFull(w)
                   \/ FinishEnableFull(w)
                   \/ WriteEnableManual(w)
                   \/ WriteEnableAuto(w)

Spec == Init /\ [][Next]_vars
-----------------------------------------------------------------------------
TypeOK ==
  /\ fi \in FanInfo
  /\ fw \in Firmware
  /\ lock \in Procs \cup {Free}
  /\ pending \in [Procs -> Store \cup {Idle}]

(* Whenever the lock is free the mode the driver remembers is the one the   *)
(* firmware is in: AUTO exactly when the firmware runs its own table, FULL  *)
(* exactly when the table it was given is at 100% everywhere and is_full_   *)
(* speed is set.  Every failing PCODE write in every handler is included.   *)
ModeMatchesFirmware ==
  /\ fi.mode = AUTO <=> ~fw.userActive
  /\ fi.full => \A p \in Slots : fw.table[p].speed = 100
  /\ lock = Free => (fi.full <=> fi.mode = FULL)

(* No process can make the fan run below the minimum speed the driver read, *)
(* whether by a curve, a flat speed, or a table activated from a cache that *)
(* a failed write left half-edited (temperatures of 0 degrees apart).       *)
SpeedFloor ==
  fw.userActive => \A p \in Slots : fw.table[p].speed >= fi.min

(* A mode other than AUTO, or a store still on its way, means the driver    *)
(* has a user table, however the loading of the driver went.                *)
TablePresent ==
  (fi.mode # AUTO \/ \E w \in Procs : pending[w] # Idle) => fi.count = N

(* Whenever what the firmware runs changes, it is the stock table, full     *)
(* speed, or the driver's user table as a whole, the one the point files    *)
(* show: never a table nobody can read back.  That user table may itself be *)
(* a mixture, of a flat speed that failed half-way with the curve it was to *)
(* replace; nothing keeps a later commit from putting it in force.          *)
FirmwareFollowsCache ==
  [][fw' # fw => \/ fw' = RunStock
                 \/ fw'.table = fi'.user
                 \/ fi'.full]_vars

(* The driver implements its promise *)
ReportedMode == IF fi.full THEN "full" ELSE IF fi.mode = AUTO THEN "stock" ELSE "curve"

Promise == INSTANCE FanControl WITH
  Points <- Slots, StockTable <- Stock, Curve <- Table,
  reported <- ReportedMode, table <- fw.table, floor <- fi.min

KeepsPromise == Promise!Spec
-----------------------------------------------------------------------------
(* Statements of the sources that the code does not keep                    *)

(* "auto_point writes are rejected otherwise" (scripts/xe-fan-curve.sh:89): *)
(* a point store has an effect in manual mode only.                         *)
StoresOnlyInManual ==
  [][\A w \in Procs : ApplyStore(w) => fi.mode = MANUAL]_vars

(* pwmN_auto_pointM_temp holds the "temperature in millidegree Celsius for  *)
(* each fan curve point" (the ABI text of the patch, line 47): writing it     *)
(* leaves the point's speed alone.                                          *)
TempStoreKeepsSpeed ==
  [][\A w \in Procs : ApplyStore(w) /\ pending[w].kind = "temp" =>
       \A p \in Slots : fi'.user[p].speed = fi.user[p].speed]_vars
=============================================================================
