-------------------------------- MODULE OcBoot --------------------------------
(***************************************************************************)
(* Overclocking settings across crashes and reboots: the commands of        *)
(* xe-gpu-oc.sh, the files they keep, the systemd units that run its        *)
(* `boot`, `confirm` and `reset`, and a machine that may go down at any     *)
(* step.                                                                   *)
(*                                                                         *)
(* A running script is the sequence of steps it has left, one per access to *)
(* a file or to the card; set -e drops the rest at the first that fails.    *)
(* Nothing keeps two scripts apart: their steps interleave.                 *)
(* Disk writes succeed and become durable in order; an access to the card's *)
(* sysfs files may fail, and a write that fails leaves the card as it was.  *)
(***************************************************************************)
EXTENDS OcCard

CONSTANTS
  NPTS,           \* points that the script believes the curve to have
  Knobs,          \* conf keys of the memory speed and the temperature limit
  StockKnob,      \* their stock values
  Users, Svc,     \* whoever runs xe-gpu-oc by hand; xe-gpu-oc.service
  Custom, Unset,  \* VOLTAGE_OFFSET=custom; a key the conf does not have
  NoFile,         \* a file that is not there
  Offsets,        \* <<offset, max>> that users choose
  Curves,         \* idx:mV lists that users choose
  KnobChoices,    \* <<knob, value>> that users choose
  Reads,          \* how reading the curve may end
  EarlyUsers,     \* users act before the service has finished booting
  LateSysfs,      \* the oc directory appears some time after boot
  MaxTries,       \* tries in ExecStart's loop (15 in the unit)
  MaxBoots,       \* bound on the boots of a behaviour
  MaxCommands     \* bound on the commands users start

Actors   == Users \cup {Svc}
KnobKeys == {Knobs[i] : i \in DOMAIN Knobs}
Keys     == {"offset", "max"} \cup KnobKeys

ASSUME VoltageAssumption ==
  /\ VMIN \in Int /\ VMAX \in Int /\ VMIN <= VMAX
  /\ StockCurve \in [Points -> VMIN..VMAX]

ASSUME KnobAssumption ==
  /\ Knobs \in Seq(STRING \ {"offset", "max"})
  /\ StockKnob \in [KnobKeys -> Int]

ASSUME ChoiceAssumption ==
  /\ NPTS \in Nat
  /\ Offsets \subseteq Int \X ((VMIN + 1)..VMAX)
  /\ \A c \in Curves : DOMAIN c \subseteq Nat /\ c \in [DOMAIN c -> Int]
  /\ KnobChoices \subseteq KnobKeys \X Int

ASSUME MachineAssumption ==
  /\ Svc \notin Users
  /\ "ok" \in Reads /\ Reads \subseteq {"ok", "short", "error"}
  /\ EarlyUsers \in BOOLEAN /\ LateSysfs \in BOOLEAN
  /\ MaxTries \in Nat \ {0}

VARIABLES
  card,      \* [curve, knob]: the settings in force, lost with the power
  conf,      \* /etc/xe-gpu-oc.conf: NoFile or [Keys -> value or Unset]
  tmp,       \* /etc/xe-gpu-oc.conf.tmp
  stock,     \* stock-curve: NoFile or the mV of its first points
  applied,   \* applied-curve
  marker,    \* boot-pending is there
  ready,     \* the oc sysfs directory is there
  todo,      \* [Actors -> Seq(step)]
  svc,       \* [state, tries] of xe-gpu-oc.service
  session,   \* [armed, confirmed, stopping]: this boot so far
  history    \* what only the properties look at, and the two bounds

files == <<conf, tmp, stock, applied, marker>>
vars  == <<card, files, ready, todo, svc, session, history>>

Cold     == [curve |-> StockCurve, knob |-> StockKnob]
Empty    == [p \in {} |-> 0]
NoKeys   == [k \in Keys |-> Unset]
Waiting  == [state |-> "waiting", tries |-> 0]
NewBoot  == [armed |-> FALSE, confirmed |-> FALSE, stopping |-> FALSE, late |-> FALSE]
-----------------------------------------------------------------------------
(* Steps and the scripts they make up *)
Plain == [op |-> "none", key |-> "offset", val |-> 0, max |-> VMAX, curve |-> Empty]

Do(op)             == [Plain EXCEPT !.op = op]
ApplyOffset(o, hi) == [Plain EXCEPT !.op = "offset", !.val = o, !.max = hi]
WriteCurve(c)      == [Plain EXCEPT !.op = "curve", !.curve = c]
KnobStep(op, k, v) == [Plain EXCEPT !.op = op, !.key = k, !.val = v]

(* persist_kv: three accesses to the conf and its .tmp *)
Persist(k, v) == <<KnobStep("grep", k, v), KnobStep("append", k, v), KnobStep("move", k, v)>>

(* A slip: the offset is saved before it is tried *)
OffsetScriptSavedFirst(o, hi) ==
  <<Do("saveStock")>> \o Persist("offset", o) \o Persist("max", hi)
    \o <<ApplyOffset(o, hi), Do("dropApplied")>>

OffsetScript(o, hi) ==
  <<Do("saveStock"), ApplyOffset(o, hi), Do("dropApplied")>>
    \o Persist("offset", o) \o Persist("max", hi)

(* `curve` looks at the points only after it has saved the stock curve; of  *)
(* a list that it refuses nothing more is done.  `set` is the same for one  *)
(* point, but looks at it first.                                            *)
Valid(c) == DOMAIN c \subseteq 1..NPTS /\ \A p \in DOMAIN c : c[p] \in VMIN..VMAX

CurveScript(c) ==
  <<Do("saveStock")>>
    \o IF Valid(c)
       THEN <<WriteCurve(c), Do("emptyApplied"), Do("fillApplied")>> \o Persist("offset", Custom)
       ELSE <<>>

KnobScript(k, v) == <<KnobStep("knob", k, v)>> \o Persist(k, v)

PersistStockKnobs ==
  [j \in 1..(3 * Len(Knobs)) |->
     LET k == Knobs[(j + 2) \div 3] IN Persist(k, StockKnob[k])[((j - 1) % 3) + 1]]

ResetScript ==
  <<Do("catStock")>>
    \o [i \in DOMAIN Knobs |-> KnobStep("tryKnob", Knobs[i], StockKnob[Knobs[i]])]
    \o <<Do("dropApplied")>> \o Persist("offset", 0) \o Persist("max", VMAX)
    \o PersistStockKnobs

(* cmd_boot after it has sourced the conf *)
ValueOr(k, default) == IF conf[k] = Unset THEN default ELSE conf[k]

(* A slip: the ceiling is forgotten at boot *)
BootCurveUncapped ==
  LET v == ValueOr("offset", 0)
  IN IF v = Custom
     THEN IF applied = NoFile THEN <<>> ELSE <<Do("catApplied")>>
     ELSE IF v = 0 \/ stock = NoFile THEN <<>> ELSE <<ApplyOffset(v, VMAX)>>

BootCurve ==
  LET v == ValueOr("offset", 0)  hi == ValueOr("max", VMAX)
  IN IF v = Custom
     THEN IF applied = NoFile THEN <<>> ELSE <<Do("catApplied")>>
     ELSE IF (v = 0 /\ hi = VMAX) \/ stock = NoFile THEN <<>> ELSE <<ApplyOffset(v, hi)>>

BootKnobs == [i \in DOMAIN Knobs |-> KnobStep("bootKnob", Knobs[i], conf[Knobs[i]])]

BootScript == IF ready THEN BootCurve \o BootKnobs ELSE <<>>
-----------------------------------------------------------------------------
(* The awk of apply_offset, over the stock file *)
Shifted(f, o, hi) == [p \in DOMAIN f |-> Clamp(f[p] + o, hi)]

(* vf_curve_show reports the points up to the first that cannot be read *)
Reported(read) ==
  IF read = "short" THEN {[p \in 1..n |-> card.curve[p]] : n \in 1..(OC_VF_NPTS - 1)}
  ELSE {card.curve}

Busy(a)   == todo[a] # <<>>
UsersBusy == \E u \in Users : Busy(u)
At(a, op) == Busy(a) /\ Head(todo[a]).op = op
Arg(a)    == Head(todo[a])
Settled   == svc.state \in {"active", "failed"}

Advance(a) ==
  /\ todo' = [todo EXCEPT ![a] = Tail(@)]
  /\ UNCHANGED <<svc, history>>

(* set -e, or die: the script ends; the service counts a failed try         *)
Abort(a) ==
  /\ todo' = [todo EXCEPT ![a] = <<>>]
  /\ svc' = IF a # Svc \/ session.stopping THEN svc
            ELSE [state |-> IF svc.tries + 1 = MaxTries THEN "failed" ELSE "waiting",
                  tries |-> svc.tries + 1]
  /\ history' = IF a # Svc \/ session.stopping THEN [history EXCEPT !.sure = FALSE]
                ELSE history
-----------------------------------------------------------------------------
(* Steps that write the card; an empty list writes nothing at all           *)
SetCurve(a, f) ==
  /\ \/ card' = [card EXCEPT !.curve = Store(@, f)] /\ Advance(a)
     \/ f # Empty /\ card' = card /\ Abort(a)
  /\ UNCHANGED <<files, ready, session>>

(* From an empty stock file nothing is written, and nothing fails           *)
WriteOffset(a) ==
  /\ At(a, "offset")
  /\ \/ /\ stock # NoFile
        /\ card' = [card EXCEPT !.curve = Store(@, Shifted(stock, Arg(a).val, Arg(a).max))]
        /\ todo' = [todo EXCEPT ![a] = Tail(@)]
        /\ LET given == {<<"offset", Arg(a).val>>, <<"max", Arg(a).max>>}
           IN history' = IF stock = Empty THEN [history EXCEPT !.vain = @ \cup given]
                         ELSE [history EXCEPT !.taken = @ \cup given]
        /\ UNCHANGED svc
     \/ stock # Empty /\ card' = card /\ Abort(a)
  /\ UNCHANGED <<files, ready, session>>

WritePoints(a) == At(a, "curve") /\ SetCurve(a, Arg(a).curve)

CatStock(a) ==
  At(a, "catStock") /\ SetCurve(a, IF stock = NoFile THEN Empty ELSE stock)

CatApplied(a) ==
  /\ At(a, "catApplied")
  /\ IF applied # NoFile THEN SetCurve(a, applied)
     ELSE Abort(a) /\ UNCHANGED <<card, files, ready, session>>

TakeKnob(a) ==
  /\ card' = [card EXCEPT !.knob[Arg(a).key] = Arg(a).val]
  /\ todo' = [todo EXCEPT ![a] = Tail(@)]
  /\ history' = [history EXCEPT !.taken = @ \cup {<<Arg(a).key, Arg(a).val>>}]
  /\ UNCHANGED svc

WriteKnob(a) ==
  /\ At(a, "knob")
  /\ \/ TakeKnob(a)
     \/ card' = card /\ Abort(a)
  /\ UNCHANGED <<files, ready, session>>

(* boot writes a knob that the conf has and that is not the stock value     *)
WriteBootKnob(a) ==
  /\ At(a, "bootKnob")
  /\ IF Arg(a).val \in {Unset, StockKnob[Arg(a).key]}
     THEN card' = card /\ Advance(a)
     ELSE TakeKnob(a) \/ (card' = card /\ Abort(a))
  /\ UNCHANGED <<files, ready, session>>

(* reset ignores a knob that cannot be written *)
TryKnob(a) ==
  /\ At(a, "tryKnob")
  /\ \/ TakeKnob(a)
     \/ card' = card /\ Advance(a)
  /\ UNCHANGED <<files, ready, session>>
-----------------------------------------------------------------------------
(* Steps on the files.  save_stock creates the file before it reads the     *)
(* curve into it and counts the lines.                                      *)
SaveStock(a) ==
  /\ At(a, "saveStock")
  /\ IF stock # NoFile
     THEN stock' = stock /\ todo' = [todo EXCEPT ![a] = Tail(@)]
     ELSE /\ stock' = Empty
          /\ todo' = [todo EXCEPT ![a] = <<Do("fillStock"), Do("checkStock")>> \o Tail(@)]
  /\ UNCHANGED <<card, conf, tmp, applied, marker, ready, svc, session, history>>

FillStock(a) ==
  /\ At(a, "fillStock")
  /\ \E read \in Reads :
       IF read = "error" THEN stock' = stock /\ Abort(a)
       ELSE stock' \in Reported(read) /\ Advance(a)
  /\ UNCHANGED <<card, conf, tmp, applied, marker, ready, session>>

CheckStock(a) ==
  /\ At(a, "checkStock")
  /\ IF stock # NoFile /\ DOMAIN stock = 1..NPTS
     THEN stock' = stock /\ Advance(a)
     ELSE stock' = NoFile /\ Abort(a)
  /\ UNCHANGED <<card, conf, tmp, applied, marker, ready, session>>

DropApplied(a) ==
  /\ At(a, "dropApplied")
  /\ applied' = NoFile
  /\ Advance(a)
  /\ UNCHANGED <<card, conf, tmp, stock, marker, ready, session>>

EmptyApplied(a) ==
  /\ At(a, "emptyApplied")
  /\ applied' = Empty
  /\ Advance(a)
  /\ UNCHANGED <<card, conf, tmp, stock, marker, ready, session>>

FillApplied(a) ==
  /\ At(a, "fillApplied")
  /\ \E read \in Reads :
       IF read = "error" THEN applied' = applied /\ Abort(a)
       ELSE /\ applied' \in Reported(read)
            /\ todo' = [todo EXCEPT ![a] = Tail(@)]
            /\ history' = [history EXCEPT !.sure = @ /\ read = "ok"]
            /\ UNCHANGED svc
  /\ UNCHANGED <<card, conf, tmp, stock, marker, ready, session>>

(* touch, and every line but the key's into .tmp *)
Grep(a) ==
  /\ At(a, "grep")
  /\ conf' = IF conf = NoFile THEN NoKeys ELSE conf
  /\ tmp' = [conf' EXCEPT ![Arg(a).key] = Unset]
  /\ Advance(a)
  /\ UNCHANGED <<card, stock, applied, marker, ready, session>>

Append1(a) ==
  /\ At(a, "append")
  /\ tmp' = [IF tmp = NoFile THEN NoKeys ELSE tmp EXCEPT ![Arg(a).key] = Arg(a).val]
  /\ Advance(a)
  /\ UNCHANGED <<card, conf, stock, applied, marker, ready, session>>

Move(a) ==
  /\ At(a, "move")
  /\ IF tmp = NoFile THEN conf' = conf /\ Abort(a) ELSE conf' = tmp /\ Advance(a)
  /\ tmp' = NoFile
  /\ UNCHANGED <<card, stock, applied, marker, ready, session>>

ScriptStep(a) ==
  \/ WriteOffset(a) \/ WritePoints(a) \/ CatApplied(a) \/ CatStock(a)
  \/ WriteKnob(a) \/ WriteBootKnob(a) \/ TryKnob(a)
  \/ SaveStock(a) \/ FillStock(a) \/ CheckStock(a)
  \/ DropApplied(a) \/ EmptyApplied(a) \/ FillApplied(a)
  \/ Grep(a) \/ Append1(a) \/ Move(a)
-----------------------------------------------------------------------------
(* A slip: the marker is not looked at *)
TryUnwatched ==
  /\ svc.state = "waiting"
  /\ ~session.stopping
  /\ svc' = [svc EXCEPT !.state = "trying"]
  /\ todo' = [todo EXCEPT ![Svc] =
       IF conf = NoFile THEN <<>> ELSE <<Do("arm"), Do("source")>>]
  /\ UNCHANGED <<card, files, ready, session, history>>

(* xe-gpu-oc.service: one try of ExecStart *)
Try ==
  /\ svc.state = "waiting"
  /\ ~session.stopping
  /\ svc' = [svc EXCEPT !.state = "trying"]
  /\ todo' = [todo EXCEPT ![Svc] =
       IF marker THEN <<Do("dropMarker"), Do("moveConf")>>
       ELSE IF conf = NoFile THEN <<>>
       ELSE <<Do("arm"), Do("source")>>]
  /\ UNCHANGED <<card, files, ready, session, history>>

DropMarker ==
  /\ At(Svc, "dropMarker")
  /\ marker' = FALSE
  /\ Advance(Svc)
  /\ UNCHANGED <<card, conf, tmp, stock, applied, ready, session>>

(* The overclock is disabled: the conf is moved out of the way *)
MoveConf ==
  /\ At(Svc, "moveConf")
  /\ conf' = NoFile
  /\ todo' = [todo EXCEPT ![Svc] = Tail(@)]
  /\ session' = [session EXCEPT !.armed = FALSE]
  /\ history' = [history EXCEPT !.blamed = FALSE, !.torn = FALSE, !.chosen = Cold]
  /\ UNCHANGED <<card, tmp, stock, applied, marker, ready, svc>>

Arm ==
  /\ At(Svc, "arm")
  /\ marker' = TRUE
  /\ session' = [session EXCEPT !.armed = TRUE]
  /\ Advance(Svc)
  /\ UNCHANGED <<card, conf, tmp, stock, applied, ready>>

Source ==
  /\ At(Svc, "source")
  /\ todo' = [todo EXCEPT ![Svc] = BootScript \o Tail(@)]
  /\ session' = [session EXCEPT !.late = ~ready]
  /\ UNCHANGED <<card, files, ready, svc, history>>

BootDone ==
  /\ svc.state = "trying"
  /\ ~Busy(Svc)
  /\ ~session.stopping
  /\ svc' = [svc EXCEPT !.state = "active"]
  /\ UNCHANGED <<card, files, ready, todo, session, history>>

(* A slip: the marker stays *)
ConfirmLeavingMarker ==
  /\ Settled
  /\ ~session.confirmed
  /\ ~session.stopping
  /\ session' = [session EXCEPT !.confirmed = TRUE]
  /\ history' = [history EXCEPT !.blamed = FALSE]
  /\ UNCHANGED <<card, files, ready, todo, svc>>

(* xe-gpu-oc-confirm.service: its 45 s leave the tries of the other (two    *)
(* seconds apart) the time to end.                                          *)
Confirm ==
  /\ Settled
  /\ ~session.confirmed
  /\ ~session.stopping
  /\ marker' = FALSE
  /\ session' = [session EXCEPT !.confirmed = TRUE]
  /\ history' = [history EXCEPT !.blamed = FALSE]
  /\ UNCHANGED <<card, conf, tmp, stock, applied, ready, todo, svc>>

ServiceStep == Try \/ DropMarker \/ MoveConf \/ Arm \/ Source \/ BootDone \/ Confirm
-----------------------------------------------------------------------------
(* Commands.  What they choose is added to what was chosen before, or to    *)
(* stock once a clean stop has reset it; but `curve` saves what the card    *)
(* has, so that it keeps the points the user leaves alone as they are now.  *)
Chosen == IF history.stopped THEN Cold ELSE history.chosen

Start(a, script, choice) ==
  /\ ~Busy(a)
  /\ ready
  /\ ~session.stopping
  /\ EarlyUsers \/ Settled
  /\ history.commands < MaxCommands
  /\ todo' = [todo EXCEPT ![a] = script]
  /\ history' = [history EXCEPT !.chosen = choice, !.stopped = FALSE, !.blamed = FALSE,
                                !.sure = @ /\ Settled /\ ~session.late /\ ~UsersBusy,
                                !.commands = @ + 1]
  /\ UNCHANGED <<card, files, ready, svc, session>>

StartOffset(a) ==
  \E o \in Offsets :
    Start(a, OffsetScript(o[1], o[2]),
          [Chosen EXCEPT !.curve = Store(StockCurve, Shifted(StockCurve, o[1], o[2]))])

StartCurve(a) ==
  \E c \in Curves :
    Start(a, CurveScript(c),
          IF Valid(c) THEN [Chosen EXCEPT !.curve = Store(card.curve, c)] ELSE Chosen)

StartKnob(a) ==
  \E kv \in KnobChoices :
    Start(a, KnobScript(kv[1], kv[2]), [Chosen EXCEPT !.knob[kv[1]] = kv[2]])

StartReset(a) == Start(a, ResetScript, Cold)

Command(a) == StartOffset(a) \/ StartCurve(a) \/ StartKnob(a) \/ StartReset(a)
-----------------------------------------------------------------------------
(* The machine *)
SysfsUp ==
  /\ ~ready
  /\ ready' = TRUE
  /\ UNCHANGED <<card, files, todo, svc, session, history>>

PowerUp ==
  /\ card' = Cold
  /\ ready' = ~LateSysfs
  /\ todo' = [a \in Actors |-> <<>>]
  /\ svc' = Waiting
  /\ session' = NewBoot
  /\ UNCHANGED files

(* A hang, a reset or a power cut, at any step *)
Crash ==
  /\ history.boots < MaxBoots
  /\ PowerUp
  /\ history' =
       [history EXCEPT !.boots  = @ + 1,
                       !.sure   = @ /\ ~UsersBusy /\ ~(session.stopping /\ Busy(Svc)),
                       !.blamed = @ \/ (session.armed /\ ~session.confirmed),
                       !.torn   = @ \/ At(Svc, "moveConf")]

(* A clean shutdown ends every command and stops the service: ExecStop runs *)
(* `reset` if the service is active.                                        *)
Shutdown ==
  /\ ~session.stopping
  /\ history.boots < MaxBoots
  /\ session' = [session EXCEPT !.stopping = TRUE]
  /\ LET resets == svc.state = "active" /\ ready
     IN /\ todo' = [a \in Actors |-> IF a = Svc /\ resets THEN ResetScript ELSE <<>>]
        /\ history' = [history EXCEPT !.sure    = @ /\ ~UsersBusy,
                                      !.torn    = @ \/ At(Svc, "moveConf"),
                                      !.stopped = @ \/ resets]
  /\ UNCHANGED <<card, files, ready, svc>>

PowerOff ==
  /\ session.stopping
  /\ ~Busy(Svc)
  /\ PowerUp
  /\ history' = [history EXCEPT !.boots = @ + 1]

Init ==
  /\ card = Cold
  /\ conf = NoFile /\ tmp = NoFile /\ stock = NoFile /\ applied = NoFile
  /\ marker = FALSE
  /\ ready = ~LateSysfs
  /\ todo = [a \in Actors |-> <<>>]
  /\ svc = Waiting
  /\ session = NewBoot
  /\ history = [chosen |-> Cold, sure |-> TRUE, stopped |-> FALSE, blamed |-> FALSE,
                torn |-> FALSE, taken |-> {}, vain |-> {}, commands |-> 0, boots |-> 1]

Next ==
  \/ \E a \in Actors : ScriptStep(a)
  \/ \E u \in Users : Command(u)
  \/ ServiceStep
  \/ SysfsUp \/ Crash \/ Shutdown \/ PowerOff

Spec == Init /\ [][Next]_vars

(* systemd runs its units, and the scripts they start, to their ends and    *)
(* completes a shutdown; nobody makes a user's own command go on.           *)
Fairness == WF_vars(ScriptStep(Svc) \/ ServiceStep \/ PowerOff)

FairSpec == Spec /\ Fairness
-----------------------------------------------------------------------------
Value == {Custom, Unset} \cup Int
ScriptOps  == {"offset", "curve", "catStock", "catApplied", "knob", "bootKnob", "tryKnob",
               "saveStock", "fillStock", "checkStock", "dropApplied", "emptyApplied",
               "fillApplied", "grep", "append", "move"}
ServiceOps == {"dropMarker", "moveConf", "arm", "source"}
Settings == [curve : [Points -> VMIN..VMAX], knob : [KnobKeys -> Int]]
Listing  == UNION {[1..n -> VMIN..VMAX] : n \in 0..OC_VF_NPTS}

TypeOK ==
  /\ card \in Settings
  /\ conf \in [Keys -> Value] \cup {NoFile}
  /\ tmp \in [Keys -> Value] \cup {NoFile}
  /\ stock \in Listing \cup {NoFile}
  /\ applied \in Listing \cup {NoFile}
  /\ marker \in BOOLEAN /\ ready \in BOOLEAN
  /\ \A a \in Actors : \A i \in DOMAIN todo[a] :
       /\ todo[a][i].op \in ScriptOps \cup (IF a = Svc THEN ServiceOps ELSE {})
       /\ todo[a][i].key \in Keys
  /\ svc \in [state : {"waiting", "trying", "active", "failed"}, tries : 0..MaxTries]
  /\ session \in [armed : BOOLEAN, confirmed : BOOLEAN, stopping : BOOLEAN, late : BOOLEAN]
  /\ history.chosen \in Settings

(* The failed-boot watchdog: settings that the service applied, and that    *)
(* took the machine down before they were confirmed, are not applied again  *)
(* by a later boot, unless a user has run a command since or the machine    *)
(* went down once more between the two steps that disable them.             *)
NoBootLoop ==
  [][~session.armed /\ session'.armed => ~history.blamed \/ history.torn]_vars

(* No script persists a number that the card was not given before, by a     *)
(* write the machine survived; whatever a crash, a failed write or another  *)
(* command's use of the .tmp file leaves in the conf.  The one number that  *)
(* can get there unwritten is an offset that was applied from an empty      *)
(* stock file (OffsetIsFromStock, below).                                   *)
PersistedWasTaken ==
  conf # NoFile =>
    \A k \in Keys : \/ conf[k] \in {Unset, Custom}
                    \/ <<k, conf[k]>> \in {<<"offset", 0>>, <<"max", VMAX>>}
                    \/ k \in DOMAIN StockKnob /\ conf[k] = StockKnob[k]
                    \/ <<k, conf[k]>> \in history.taken
                    \/ k \in {"offset", "max"} /\ <<k, conf[k]>> \in history.vain

(* When the service's first try of a boot succeeds, the card has the very   *)
(* settings the users' commands chose before the machine lost its power,    *)
(* given that each command was completed, saved the whole curve and began   *)
(* after the service had settled on a boot that found the oc directory,     *)
(* that no two commands overlapped, each of which would rewrite the conf    *)
(* without the other's keys, and that no clean stop reset them.             *)
StockUsable == stock = NoFile \/ DOMAIN stock = Points
FirstTryDone ==
  BootDone /\ svc.tries = 0 /\ ~session.late /\ history.sure /\ StockUsable
ComesBack == [][FirstTryDone /\ ~history.stopped => card = history.chosen]_vars

(* However often the machine goes down, once it stays up the watchdog is    *)
(* disarmed for good: the next boot finds no marker.                        *)
MarkerCleared == <>[]~marker
-----------------------------------------------------------------------------
(* Statements of the sources that the code does not keep                    *)

(* "whatever you last chose comes back automatically after a reboot"        *)
(* (docs/OVERCLOCKING.md:98-99)                                             *)
ChoiceSurvivesReboot == [][FirstTryDone => card = history.chosen]_vars

(* "if last boot's marker is STILL here" (cmd_boot, line 155): the service  *)
(* disables the settings for what an earlier boot left, not for a try of    *)
(* its own that failed.                                                     *)
RetryKeepsChoice == [][conf # NoFile /\ conf' = NoFile => ~session.armed]_vars

(* "`offset` is absolute from stock [...] no matter what's currently        *)
(* applied" (docs/OVERCLOCKING.md:82-83): an offset that a command has      *)
(* written leaves each point at its stock value plus the offset, clamped.   *)
OffsetIsFromStock ==
  [][\A u \in Users : At(u, "offset") /\ todo'[u] = Tail(todo[u]) =>
       card'.curve = Store(StockCurve, Shifted(StockCurve, Arg(u).val, Arg(u).max))]_vars

(* "The first change saves the stock curve" (docs/OVERCLOCKING.md:81): a    *)
(* stock file that has every point of the card's curve is kept.             *)
StockSaved ==
  [][\A u \in Users : At(u, "checkStock") /\ stock # NoFile /\ DOMAIN stock = Points =>
       stock' # NoFile]_vars
=============================================================================
