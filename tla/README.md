# A verification development for intel-arc-pro-fan-control

TLA+ models of the parts of this repository that carry state, the TLC runs that
check them on small instances, and machine-checked proofs (TLAPS) of safety
properties of the fan driver and its curve script, the overclock script with its
watchdog, the overclocking files, the Windows service, and the tabs and dashboard of the Windows
GUI. `PROJECT.json` lists components, runs, mutants, findings, hazards, theorems,
and for every definition the source lines it stands for.

## 1. The system and its parts

| Part | State it keeps | Operations | Hard behaviour |
|---|---|---|---|
| Fan driver: `xe_hwmon.c` as patched (`patch/xe-fan-control-*.patch`) | per fan: mode, full-speed flag, user table and count, two "last point written" flags, minimum speed, copy of the stock table; in the card: the table the firmware runs | load; read/write `pwmN_auto_pointM_temp`, `_pwm`, `pwmN`, `pwmN_enable` | sequences of PCODE writes that fail half-way; several processes; a mode read outside the lock; tables cached in two places |
| Fan curve script `scripts/xe-fan-curve.sh` and `xe-fan-curve.service` | none of its own (the curve is in a conf that only an editor changes) | `set`, `stock-read`, `auto`, `max`, `show`, `boot` | each is a sequence of driver accesses that other scripts fall between; `set -e` |
| Overclock interface `kernel/xe_gt_oc.c` | the card's VF curve, memory speed, temperature limit | show and store of three files | a store is read-edit-write over BEGIN..END of PCODE, without a lock |
| Overclock script `scripts/xe-gpu-oc.sh`, `xe-gpu-oc.service`, `xe-gpu-oc-confirm.service` | conf, its `.tmp`, stock-curve, applied-curve, the boot-pending marker, profiles | `offset`, `curve`, `set`, `mem`, `temp`, `reset`, `boot`, `confirm`, `profile` | crash at any step, clean shutdown, retries, two commands at once, failing sysfs writes |
| Stability test `scripts/xe-gpu-stress.sh` | what it saved of fan and OC state before the test | transient apply, load, verdict, restore in an EXIT trap | a partial apply, restores over a concurrent change |
| Linux GUI `gui/xe-gpu-gui.py` | selected card, values loaded from it, settings being edited, commands under way | fan tab, OC tab, stress test, profiles | asynchronous `pkexec` commands whose results come back late, or for a card no longer selected |
| Windows service `windows/src/service`, `apply.cpp` | controller and handles, everApplied, the apply event | re-apply every 60 s, at once when nudged, every 5 s until the first success | late drivers, driver resets that invalidate handles, missed or early nudges |
| Windows settings `windows/src/config.cpp` | `config.ini`, one profile per adapter | load all, save one (read, replace, rewrite) | no lock between GUI, CLI and service; the file is truncated and rewritten in place |
| Windows CLI and GUI | adapter selected; fan curve being drawn; sliders, gating and voltage-frequency curve of the Overclock tab; last sample, rates, graphs and hidden tiles of the dashboard | direct writes to the card (CLI), profile edits, nudges (GUI), ticks every second | two owners of fan and OC state; controls loaded for one card and used for another; a menu whose own loop lets the timer in |
| Windows GPU layer `windows/src/arc.cpp` | adapters enumerated at init, current adapter, fan handle | select, fan table, OC setters with the waiver | handles of another adapter or of before a reset |
| Rebuild hook `scripts/xe-fan-rebuild.sh`, `kernel-hook/` | the installed module and its backup | skip check, patch, build, install | not atomic; runs per kernel |
| Tuning, VRAM daemon, temperature scripts | sysfs knobs, one JSON file | single writes; write-then-rename | little |

Interaction: on Linux the GUI, the units and the user all start the scripts, the
scripts write sysfs files, the drivers turn them into PCODE mailbox sequences; the
only memory shared between two scripts is the sysfs state and the files. On
Windows GUI and CLI write `config.ini`, the service reads it, and CLI and service
both write the card through IGCL.

What makes each part correct, in a sentence: the fan driver's remembered mode is
the firmware's mode, no table below the minimum speed takes force, and what takes force
is the stock table, full speed or the table that the point files show; a script
that says it applied a curve has, and a reading of the stock table disturbs
nothing; an overclock that brought the machine down is not applied again by the
next boot, while one that was confirmed does come back; whatever the user saved
last reaches the card although resets, failures and early or lost nudges occur; what a
tab or the dashboard shows, saves and applies belongs to the card it names.

## 2. The modules

| Modules | Model | Proofs |
|---|---|---|
| `FanDriver` (one fan, operators only), `FanHwmon` (its files under several processes), `FanControl` (the abstract promise) | fan driver | `FanHwmonProofs` |
| `FanCurve` (over `FanDriver`) | fan curve script | `FanCurveProofs` |
| `OcCard` (what the card's files store), `OcBoot` (over it) | overclock script, its units, crashes | `OcBootProofs` |
| `GtOc` (over `OcCard`) | overclocking files, call by call of the mailbox | `GtOcProofs` |
| `WinService` | settings file, service loop, CLI, GUI, driver resets | `WinServiceProofs` |
| `WinFanTab` | the Fan tab, from the mouse to the fan's table | `WinFanTabProofs` |
| `WinOcTab` | the Overclock tab beside CLI and service, all settings | `WinOcTabProofs` |
| `WinDashboard` | sampling, rates, graphs and tile menu | `WinDashboardProofs` |

`OcBoot` takes a store of the curve as one step (`Store` of `OcCard`); `GtOc` takes it apart
and shows, as `LoneStoreIsAtomic`, when that is right. `WinService` has the interleavings
of service and programs over one offset and one fan setting; the tab modules take a save
and a pass of the service as one step each and have all settings, values and controls.
## 3. What is modelled

### Fan driver: `FanDriver`, `FanHwmon`, `FanControl`

`FanDriver` has one operator for each helper that runs with `hwmon_lock` held:
`Commit` (`xe_hwmon_commit_user_fan_table`), `Activate`
(`..._activate_user_fan_table`), `SetUserPwm`, `UserCount`, `UpdatePoint`,
`StorePoint`, `EnableStock`, `Probe` (`xe_hwmon_read_fan_control_info`). Each takes
the driver's fields `fi`, the firmware's table `fw` and `k`, the number of PCODE
writes that succeed before one fails, and returns what is left. `FanHwmon` makes
them actions. A handler's locked part is one step; the two things another process
can see in between are separate steps: the point stores check the mode before they
take the lock (`CheckStore`, `ApplyStore`), and `pwmN_enable = 0` activates as MANUAL
before it is FULL (`WriteEnableFull`, `FinishEnableFull`, lock held).

Assumed of the firmware: a PCODE write that reports failure had no effect; staged
points come into force all together with the count; a sequence that is given up is
never in force; count 0 returns to the stock table. The user table may itself be half-made: a flat PWM
that fails at its second point leaves it part flat, part curve, and `FirmwareFollowsCache` says no
more than that what the firmware runs is what the point files show (section 6). Fans do not influence each other,
so one is modelled.

`FanControl` is the promise: the fan follows stock, a curve or full speed, a change
takes effect whole or not at all, the reported mode is the true one, and no curve goes
below the minimum. `KeepsPromise` is the refinement, reading FULL from `is_full_speed`.

### Fan curve script: `FanCurve`

Every sysfs access of `set`, `stock-read`, `auto` and `max` is a step; reading all
points of the curve is one step. `Filled` is the padding and clamping of `set`, a
recursive function over the slots. Lists may be longer than the table: the driver commits at its
last slot, the script reports that only so many points were accepted, and `CurveRuns` says that the
fan then follows those (`WentThrough`, `asked`).
`boot` and ExecStop are `set` or `auto`. A step that fails ends the script unless the
script tolerates it (`|| true` on temperatures, `break` on PWM).

### Overclock settings: `OcBoot`

A running command is the sequence of steps it has left, one per access to a file or
to the card; `set -e` drops the rest. Steps of the service and of users interleave.
`Crash` may happen between any two steps; `Shutdown` ends commands and runs ExecStop's
`reset`; `Confirm` is the other unit. A store of the card's files either takes
effect or fails without effect (`GtOc` looks inside). Disk writes succeed
and become durable in order. `Confirm` comes after the service has settled: its 45 s
exceed the service's tries (15, two seconds apart).
The script's idea of the number of points, `NPTS` (85), is a constant of its own beside the
driver's `OC_VF_NPTS` (86): the runs give both the same value, a card that exposes as many points
as the script expects; `MCOcBoot_count.cfg` (section 6) does not. `curve` saves the stock curve
first and then validates its list, entry by entry (`Valid`); `set` is a list of one point (it
validates before it saves).
A stock file that exists is taken for the stock curve, short or empty as it may be: an offset then
writes only the points it has, which may be none (`history.vain`).
`history` is what only the properties read: what users chose, whether a crash hit an
armed and unconfirmed boot, what was written to the card, which offsets were persisted although
nothing was written, and the two bounds.

### Overclocking files: `GtOc`

A process at a file is `call[c]`: its program counter, the list it was given, the points it
has read. `vf_curve`'s store reads point after point until a read fails or all are read, edits
what it has, begins a session, writes every point and ends; each is a step that the calls of
other processes fall between, and a failing one returns as the code does (`Fails`; a failing
END or COMMIT goes unnoticed). There is one session, as PCODE's mailbox has no notion of who
began it. Whether a point is in force when written or when its session ends the source does
not say: `pcode.deferred` is either, fixed for a behaviour. Nor does it say whether BEGIN discards
what a session that was never ended has staged: `pcode.discards` is either. That a lone store takes
effect in one step or not at all (`LoneStoreIsAtomic`), and so `OcBoot`'s store as one step, is
claimed where points wait for END and BEGIN discards; that it leaves unlisted points alone, also
where points are in force at once. If points wait and BEGIN keeps them, a store commits what a
failed one left: nothing in the repository rules that out. `mem_speed` and `temp_limit` are
checked, staged and committed.

### Windows: `WinService`

The service is its program counter `svc.pc` through `runLoop` and `applyOnce`: read the
file, take the adapters that have a profile one at a time (in any order: IGCL's is its
own), write fan, offset and curve through the controller's handles, renew the controller if
a fan failed, wait for the event or the timeout. A program (`job`) loads a profile, edits
it, writes the card (command line) or not (GUI), then saves in three steps -- read all
sections, truncate, write -- and the GUI signals the event. Each of these accesses
interleaves with all others. `DriverReset` puts a card back to stock and may invalidate the
handles made before (`gen`); `PowerCycle` may come anywhere, between truncating and writing
too; `DriverUp` lets the driver come up after the service.

Abstracted: of the overclock settings one offset (power, temperature, memory and frequency
are handled the same way) and the voltage-frequency curve, both seen as what the card's
`vf` follows; the length of waits (so `everApplied` is left out); the file under
rewriting is empty, never a prefix; a stop reaches the service while it waits; cards whose
firmware locks the overclock; a GUI without a selected adapter. IGCL calls of the service
fail exactly when the handle is stale, those of the short-lived programs may fail at will.
`history` holds what was asked for each key, what was saved last, and whether the command
line has touched the file since the service read it.

### Windows GUI: `WinFanTab`, `WinOcTab`, `WinDashboard`

`WinFanTab`: the editor (drag, double click, right click, reset of the curve), selection of
cards and views with `loadEditorCurve`, Apply, Auto and Max on the tab and in the tray, and the
service: `formatFanCurve` and `parseFanCurve` as sorting and cutting at the first point out of
range (`ReadBack`), `fanSetCurve` as sorting, raising (`Rising`) and refusing a table that is empty
or too long (`Fits`). A drag whose node a right click has removed writes past the vector's end;
the model lets that write go nowhere, as the vector keeps its room and nobody reads there.
`history.drawn` says whether the mouse has changed the curve since the tab last loaded one.

`WinOcTab`: what the tab shows for a card (`LoadOcFields`: saved, else live, else default, on a
slider's range; gating from what the card reports, each reading of which may fail), sliders,
presets, the curve mode and its anchors (`Reinterp`, with the rounding of `lround` for voltages,
none of which is negative), Apply and Reset, the command line's `oc` and `tune` commands (`oc reset`
changes the card alone) and named profiles, and the service, whose setters a locked card refuses.
The service's handles are good throughout: what a reset of the driver does to them, and that a
profile with an overclock alone is then not restored, is in `WinService` and `win_oconly`. Cards that share a device id share a profile, as in the code.
A drag is the press and one move of the mouse.

`WinDashboard`: a tick samples telemetry, fan and memory, each of which may fail, derives rates
from two samples (`Derived`), and feeds a graph per tile. A selection takes a sample of its own
first (`Reselect`, then `Tick`). While the menu of tiles is open its loop dispatches ticks; the
item picked comes back as an index into the tiles listed when the menu was opened (`ids`). Of a
value the model keeps the card it came from, of a counter also its size; driver resets put
counters and clocks back. Temperature, voltage and bandwidth tiles differ in nothing from those kept.

## 4. What the runs check

| Run | Instance | Shows |
|---|---|---|
| `fan` | 2 points, 2 processes, all handlers, any PCODE write failing, any read failing at load; symmetric processes | type; `ModeMatchesFirmware`; `SpeedFloor`; `TablePresent`; `FirmwareFollowsCache`; refinement of `FanControl` |
| `curve` | 3 points, a full list, a short, unordered one and one with a point too many, no failing write, 1 script | `CurveRuns`, `StockReadRestores`, `PrintsStock` |
| `oc_boot` | 2 curve points, one knob, late sysfs, short and failing reads, 1 user, 3 boots, 2 commands, fairness | type; `PersistedWasTaken`; `NoBootLoop`; `ComesBack`; `MarkerCleared` (liveness) |
| `win` | 2 cards (one with its own section, one on the default), 1 command line, 1 GUI, 1 command, 2 resets or power cycles, fairness | type; `NudgeNotLost`; `OwnProfileOnly`; `FanProfilesRestored` (liveness) |
| `gtoc` | 3 points, 2 processes, lists of one and two points, one of them above the ceiling, and of none; one knob, 3 calls | type; `PointsAccountedFor`; `LoneStoreIsAtomic` |
| `fantab` | 2 cards, one with a section and one on the default; a graph of 3 temperatures and 2 speeds, tables of 3 points; 2 edits, 1 save, fairness | type; `TableSound`; `ShownIsSaved`; `AppliedComesBack`; `DrawnIsRun` (liveness) |
| `octab` | 2 boards of one model, the second with locked settings; 4 knobs, curves of 4 points with 3 anchors; 2 edits, 2 saves, fairness | type; `CurvesSound`; `LockedUnsaved`; `DragMovesUpOnly`; `AppliedIsShown`; `SettingsInForce` (liveness) |
| `dash` | 2 cards, one with two memory modules; a rate, graphs of 2 values, 3 events among selections, menus, resets and changes of what fails | type; `RatesOfOneCard`; `ItemTogglesItsTile`; `CatchesUp` (liveness) |

The violation runs each check a statement of the sources that the model does not keep;
`PROJECT.json` "findings" quotes the statement and says what the trace shows:
`oc_reboot` (a clean shutdown persists stock),
`oc_retry` (a failed first try makes the second disable the settings), `win_oconly` (stale
handles are not renewed for a profile with an overclock alone), `win_lost` (two saves at
once drop a section).

One configuration beside the runs passes too: `tlc -config MCOcBoot_two.cfg MCOcBoot` lets two
users' commands interleave over the conf and its `.tmp` file (2 boots, symmetric users) and finds
`PersistedWasTaken`, `ComesBack` and `NoBootLoop` kept; the theorems of section 5 hold for any
set of users.

Bounds and why they suffice. Two points give a first and a last point (the last one
commits) and an order to get wrong; a third adds an inner one for padding. Two processes
give the one unlocked check something to race with. Two tries show a retry; fifteen
differ in nothing, as every try after a failed one finds the marker. Three boots are one
that arms, one that finds the marker, and one after that; two commands are one before and
one after. Two cards are what a fan handle, a section, a tab or a sample can be confused
between; with two resets handles are lost, renewed and lost again; that saves of several
programs meet is in the proofs, which bound nothing, and in `win_lost`. Three calls of the
overclocking files let two stores overlap after one that left its session open. Two edits
suffice to put two nodes on one another and drag one, or to switch to the curve and drag an
anchor; two saves are one of each of two tabs or programs. Curves of four points with three
anchors have anchors next to each other and a point between two. Three events on the dashboard
are a call that begins to fail, a selection or menu, and the end of the failure; a slider with one
position (frequency) keeps a setting that comes after the locked ones at small cost. Inputs are one value
per branch: below the minimum, in the middle, and out of range.

Fairness (`FairSpec` of `OcBoot`): systemd starts its units (`ServiceStep`), the scripts they
start run on (`ScriptStep(Svc)`: nothing blocks them), and a shutdown that has begun ends. Crashes,
commands, the steps of a user's command and the
sysfs directory appearing are not assumed to happen. Deadlock is not checked for `OcBoot`:
once the bounds on boots and commands are used up and the session is confirmed, an idle
machine has nothing to do. `FairSpec` of `WinService` has the service's steps (its wait ends
by timeout if by nothing else), the steps of a program that has begun, and that the driver
comes up after power-on; resets and commands need not happen, nor end other than by their
bounds. Deadlock is not checked there either: a service that was stopped stays stopped.
In `WinFanTab` and `WinOcTab` `WF(Service(c))` is that the service's loop comes to every card
again and again; in `WinDashboard` `WF(Tick)` is the window's timer. What the mouse, other
programs, drivers and PCODE do is never assumed to happen; the three runs without deadlock
checking end where their bounds do.

## 5. What is proved

`FanHwmonProofs` holds for every number of points up to ten, every stock table, minimum,
set of processes and inputs (`DriverAssumption`, `InputsAssumption`), 946 obligations:

- `TypeCorrect`, `ModeTrue`, `TableAlwaysPresent`: from the inductive invariant `IInv`.
  `ModeMatchesFirmware` alone is not inductive: it needs that whoever holds the lock is
  between the two steps of `pwmN_enable = 0` with a table at 100% in force, and that
  leaving AUTO always leaves a counted user table.
- `FloorKept`, `RunsWhatIsShown`, `ImplementsPromise`: from `FInv`, which adds that each entry
  of the user table that can come into force is at or above the minimum; these assume
  `NoZeroDegrees` (no temperature input that rounds to 0 degrees), the case that
  `MCFanHwmon_zero.cfg` of section 6 shows to break it.

The argument is the same throughout: one lemma per driver operator (what `Activate`, `Commit`,
`StorePoint`, ... leave, given what they find), then one step per action that cites it.

`FanCurveProofs` (2712 obligations) holds for every number of points up to ten, every stock
table, minimum and set of lists, none of them empty (`DriverAssumption`, `CurvesAssumption`):

- `CurveTypes`, from `TInv`, for any number of scripts at once and writes that fail anywhere.
- `CurveFollowed`, `ReadRestores` and `ReadPrintsStock` assume `Undisturbed`, one script at a
  time and no failing write, without which they are not true (section 6), and `InRange`: a stock
  table whose temperatures rise from at least 1 degree and whose speeds do not fall, and lists
  of any length, also longer than the table, that leave the padding room below 256 degrees. `MCFanCurve` has TLC evaluate both for the
  instance of the run. The invariant, `CInv`, says for each point of a command what is done and
  what is left (`Stage`): how many slots of the user table are those of the list, which of the two
  halves of a point has been written, and, in a stock-read, what it found and has to put back.
- The rest are lemmas about operators. `Fill` is `Filled` without the recursion: `FillStep` gives
  its equation, and that temperatures rise and speeds do not fall (`FillNext`, `FillType`) follows
  from looking at the least slot where they would not. `RoundTrip`: percent to pwm and back loses
  nothing. `StoreTempFan`, `StoreSpeedFan`, `ActivateFull`, `EnableStockFan`: what each access
  leaves of a fan in each mode.

`WinServiceProofs` (1215 obligations) holds for every set of cards, keys (also keys shared
by cards of one model), settings and programs, every first file and all bounds
(`WinAssumption`):

- `TypeCorrect`, from `TypeInv`: besides the types, that a job's setting fits its command
  and that the service at work on an adapter has it selected and a profile for it.
- `NudgesKept`: `NudgeNotLost` speaks of a service at rest; `NudgeInv` extends it back to the
  read of the file, `Loaded`. It survives because the event is reset by the wait only, before
  the read, and the GUI signals after it has written.
- `OwnProfiles`: `OwnInv` says of every copy of a profile -- in the file, in the service, in a
  program, loaded or about to be written back -- that it is own to its key, and that the
  cached fan handle is that of the adapter selected.

`GtOcProofs` (1339 obligations) holds for every number of points, limits, stock curve within
them, processes, lists and knobs (`RangeAssumption`, `CurveAssumption`, `InputAssumption`), with
points in force at once or at the end of a session, and a BEGIN that discards what is staged or not:

- `TypeCorrect`, from `TypeInv`: besides the types, that what a call has read is a prefix of a
  curve and that its next point is one of those.
- `AllPointsAccountedFor`: the invariant says of every copy of a voltage -- in force, staged in
  the session, read or edited by a call -- that it is stock or was listed for its point.
- `LoneStoresAtomic`: an action property. Its invariant follows one lone call: what it holds is
  the curve in force with its list applied, and what is staged is the part it has written,
  whatever session it found open; it is stated for the firmware that section 3 names.

`OcBootProofs` (1873 obligations) holds for every number of points, stock curve within the
limits, knobs, users, choices, tries and bounds (`VoltageAssumption`, `KnobAssumption`,
`ChoiceAssumption`, `MachineAssumption`):

- `TypeCorrect` and `OnlyTakenPersisted`, from `IInv`. A script is data, the steps it has left, so
  the invariant speaks of what is still to come: every `append` of a running script is `Backed`,
  its value stock, written to the card before, or written by an earlier step of the same script;
  or it is an offset that a stock file without points left unwritten (`history.vain`).
  Dropping a step that succeeded (`TailScript`) and putting scripts together (`JoinedScript`) keep
  that; the files then hold only what is `Granted`, whoever moved the shared `.tmp`.
- `LoopBroken`: `BlameInv` says that an armed, unconfirmed boot leaves its marker unless it is
  disarming, and that a boot after one to be blamed finds the marker and is not about to arm.

The theorems about the Windows GUI:

- `WinOcTabProofs` (2066 obligations; any cards, also several of one model, knobs, slider ranges,
  anchors, margins and files of sound curves: `KnobAssumption`, `CardAssumption`,
  `ValueAssumption`, `SentinelAssumption`, `FileAssumption`). `TypeCorrect` and `CurvesAreSound`
  come from one invariant over the tab, the file, the named profile and the cards; the work is in
  the lemmas about `Reinterp`: a rounded interpolation between anchors that do not fall does not
  fall and stays between them. `DraggedUpOnly` and `LockedIsUnsaved` are about single steps in
  its states. `AppliedComesBack` adds that a profile applied on the tab is in the file as it was
  shown until the command line saves over it, and that loading it puts the controls back.
- `WinDashboardProofs` (743 obligations, `TileAssumption`). `DashTypes`, from `TypeInv`: no graph
  outgrows its length and the menu lists tiles, as the ranks of the tiles shown are the numbers
  from 1 on (`RowsAreTiles`). `RatesSound`: the last sample is none or
  of the selected card, no later than its clock, with counters that have not advanced more than
  the time since (`Taken`). `ItemsTruthful`: while the menu is open no tick touches the indices
  that it was built from (`MenuInv`).
- `WinFanTabProofs` (1478 obligations; any cards, graph, table size, curves of any length and
  files: `RangeAssumption`, `KeyAssumption`, `FileAssumption`). `TabInv` is over the editor, the
  file, the tables and what was applied: a curve in the editor has two points or more, a profile
  saved in curve mode holds what was applied, a table in force is in order. It gives `TabTypes`,
  `TablesSound`, the action property `ComesBack`, and `DrawnRuns`: the step of the service that
  applies a usable curve makes the fan follow it, which is the safety half of `DrawnIsRun`.
  Sorting is by rank, the number of points that come before (`Rank`, `Place`): the ranks of a
  curve are a bijection of its indices, so that sorting moves every point to one place, keeps
  their number (`MovedCount`), orders them (`SortedTemps`) and changes nothing the second time
  (`SortedTwice`). `UntouchedIsSaved`: an editor that nobody has drawn on is in order and in
  range, and equal to the curve that the service would read for the selected card (`EditorOK`);
  an Apply of it keeps that, as what is saved is read back whole (`SortedSelf`).

Only model-checked: liveness (`MarkerCleared`, `FanProfilesRestored`, `DrawnIsRun`,
`SettingsInForce`, `CatchesUp`), which the provers do not reach, and `ComesBack` of `OcBoot`,
which is stated for commands that do not overlap: of two that do, one may drop the other's key
from the conf. Every invariant that a run checks is a theorem.
`Sorted` of `WinFanTab` and `Rows` of `WinDashboard` are written with ranks because the provers
cannot look into `SortSeq` and `SelectSeq`, which take an operator.

## 6. Known divergences without a run

Six statements of the sources have a definition and a configuration here that are not among
the runs; `tlc -config <file> <module>` gives the counterexample.

| Statement | Configuration | What happens |
|---|---|---|
| "auto_point writes are rejected otherwise" (`xe-fan-curve.sh:89`), `StoresOnlyInManual` | `MCFanHwmon_stale.cfg`, `MCFanHwmon` | the store handlers look at the mode before they take the lock (patch, line 526): a store checked in manual mode takes effect after another process has left it |
| "Temperature in millidegree Celsius for each fan curve point" (patch, line 47), `TempStoreKeepsSpeed` | `MCFanHwmon_zero.cfg`, `MCFanHwmon` | a temperature that rounds to 0 stands for "store the speed" (line 465): the point's speed becomes 0 |
| "unlisted points keep their current value" (`xe_gt_oc.c:23-24`), `UnlistedKept` | `MCGtOc_lost.cfg`, `MCGtOc` | two stores at once: the second writes back what it read before the first wrote |
| "`offset` is **absolute from stock**" (`docs/OVERCLOCKING.md:82-83`), `OffsetIsFromStock` | `MCOcBoot_vain.cfg`, `MCOcBoot` | `save_stock` takes any stock file that exists for the stock curve (line 51): after a crash between its creation and its filling the next offset writes nothing, is reported as set and persisted |
| "The first change saves the stock curve" (`docs/OVERCLOCKING.md:81`), `StockSaved` | `MCOcBoot_count.cfg`, `MCOcBoot` | the script asks for 85 points (`xe-gpu-oc.sh:26`, 53), the driver may report 86 (`xe_gt_oc.c:52`): on such a card `save_stock` removes the file and ends every `offset`, `set` and `curve` |
| "Keep temperatures strictly ordered" (`gui/main.cpp:917`), `DragKeepsOrder` | `MCWinFanTab_drag.cfg`, `MCWinFanTab` | a double click on a node and a drag of it: between neighbours less than two degrees apart no place is left, and the node lands on one or before it |

The sources state more than the models keep: activation and the flat PWM
do not check the order of temperatures that a commit demands (only a stock table out of
order shows it); a `pwmN` that fails at its n-th point (patch, line 355) leaves the user table part
flat, part curve, and `pwmN_enable = 1` or a commit of the last point puts that mixture in force;
PWM up to 650 passes as up to 255 %; a driver loaded warm reports AUTO while
the firmware still follows a user table; after a failed commit the two flags stay set, so
that a later half of the last point commits alone; a `stock-curve` cut short by a crash stays
(`save_stock` checks only what it has just made); `reset` without a stock file says it restored
the curve and writes nothing; two commands share `/etc/xe-gpu-oc.conf.tmp`;
a first try of `boot` that fails half-way leaves the settings it has written on the card although
the second disables them, and a `curve` of the user then saves the points left over with its own;
`stock-read` (`xe-fan-curve.sh:58`, "WITHOUT changing the applied curve") undoes a `set` that
runs at the same time; `set` ignores a temperature that is refused and, past its list, takes any
failing store for the end of the table, so that it may say `applied` of a table that was never
committed; `boot` finds no sysfs directory and succeeds, although
`xe-gpu-oc.service:10` retries "in case the xe_gt_oc sysfs isn't up yet"; a crash between removing
the marker and moving the conf (`xe-gpu-oc.sh:160`) lets the blamed settings be applied once more.
In `xe_gt_oc.c` a point whose read fails for a moment ends the curve there: listed points beyond
it are dropped and the store reports success; reading `mem_speed` or `temp_limit` gives a stock
value or a failure's where the mailbox did not answer.

On Windows: an adapter whose driver comes up after others is not enumerated while their fans
succeed, and never gets its profile (`FanProfilesRestored` with `LateCards = TRUE`); `oc volt` and
`oc profile load` leave a saved `vfCurve` beside the offset, which `config.hpp:33-35` calls mutually
exclusive, and the curve wins; `oc reset` and `oc vfcurve` are not saved, so that the next pass
undoes them; a fan curve with more points than the card's table takes is saved and shown while the
card refuses it, and one with nodes off the graph is cut at the first; a command that saves while the file is truncated drops every other section.
Boards of one device id share a profile. "Reset to stock" on the Overclock tab saves the power
limit shown and, in curve mode, the custom curve again; a power limit that cannot be read is shown, and
saved by Apply, as 190 W; a card whose state cannot be read for a moment counts as locked, and
Apply then deletes its voltage, temperature and memory settings from the profile; a preset's voltage limit is
never applied. With `ARC_GPU_BDF` the window starts on that card while the list shows the first.
After a selection the dashboard shows the other card's values and graphs until samples
succeed again; the first rate after a driver reset is taken across it. A right click during a drag
removes a node that the next move of the mouse writes to, past the vector's end.

## 7. Not modelled, and why

- Stability test: its state is a copy of the settings made at its start, its stores are commands that
  `OcBoot` and `FanCurve` have. That its restore undoes what was applied meanwhile follows from
  reading it; a verdict on the card's stability is not a matter of the program.
- Linux GUI: presentation over the scripts. Its commands interleave as any users' of `OcBoot` do.
- Named profiles of the overclock script: copies of the conf, applied by the steps of `boot`.
- Rebuild and installation scripts, kernel hook, DKMS: they run patch, make, depmod and mkinitcpio.
- Tuning, VRAM daemon, temperatures: single reads and writes; a file replaced by renaming.
- On Windows: the syntax of `config.ini` (a file under rewriting counts as empty), installation, log and
  state reports of the service, its waits' lengths, loading of IGCL, information and test commands of the
  command line, drawing, tray and window messages that change no state of the models.
- The RPM computation of `fanN_input`, the other hwmon channels, and packaging.
