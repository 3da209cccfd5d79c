------------------------------ MODULE WinService ------------------------------
(***************************************************************************)
(* The Windows side: config.ini with one profile per adapter, the service   *)
(* that applies it, the command line and GUI programs that edit it, and      *)
(* cards that fall back to stock when their driver resets.                  *)
(*                                                                         *)
(* Every access to the file, to the card or to the apply event is a step of *)
(* its own; nothing keeps two programs apart.  Of a profile's settings the  *)
(* fan, the voltage offset and the voltage-frequency curve are modelled:     *)
(* the last two write the same thing, the others are like the offset.       *)
(*                                                                         *)
(* IGCL (external): a driver that has come up reports its adapters; a call  *)
(* succeeds unless the handle it uses is of before a reset that invalidated *)
(* it, calls of the short-lived programs may fail for any reason.           *)
(***************************************************************************)
EXTENDS Naturals

CONSTANTS
  Cards, None,    \* adapters; no adapter, no handle
  Key,            \* [Cards -> Keys]: the device id a card's profile goes by
  Keys, Default,  \* sections of the file; [adapter.default]
  Fans,           \* fan settings a profile may ask for
  Offsets,        \* voltage offsets
  VfCurves,       \* custom voltage-frequency curves
  Unset, Stock,   \* a setting the profile does not have; the card's own
  Absent,         \* a section the file does not have
  CLIs, GUIs,     \* programs
  FirstFile,      \* config.ini at the start
  LateCards,      \* the driver may come up for one adapter after another
  MaxCommands,    \* bound on the commands of all programs
  MaxResets       \* bound on driver resets and power cycles

Programs == CLIs \cup GUIs
Profile  == [fan   : Fans \cup {Unset},
             volt  : Offsets \cup {Unset},
             curve : VfCurves \cup {Unset}]
File     == [Keys -> Profile \cup {Absent}]

ASSUME WinAssumption ==
  /\ None \notin Cards
  /\ Key \in [Cards -> Keys]
  /\ Default \in Keys
  /\ CLIs \cap GUIs = {}
  /\ Absent \notin Profile
  /\ FirstFile \in File
  /\ LateCards \in BOOLEAN

VARIABLES
  file,      \* config.ini
  card,      \* [Cards -> [fan, vf]]: what is in force
  up,        \* adapters whose driver has come up
  gen,       \* [Cards -> Nat]: handles of an older generation are stale
  event,     \* Global\ArcFanControlApply is signalled
  svc,       \* arc-fan-service
  job,       \* [Programs -> what the program is doing]
  history    \* what only the properties look at, and the two bounds

vars == <<file, card, up, gen, event, svc, job, history>>

Blank      == [fan |-> Unset, volt |-> Unset, curve |-> Unset]
NoSections == [k \in Keys |-> Absent]
Untouched  == [fan |-> Stock, vf |-> Stock]
-----------------------------------------------------------------------------
(* MultiConfig::find, and what loadConfigFor makes of it                    *)
Find(m, k)    == IF m[k] # Absent THEN m[k] ELSE m[Default]
LoadFor(m, k) == IF Find(m, k) = Absent THEN Blank ELSE Find(m, k)

(* A controller that init has just made: the adapters it found, the         *)
(* generation of its handles, the adapter selected, and the fan handle      *)
Controller   == [known |-> up, gen |-> gen, current |-> None, fan |-> None]
NoController == [known |-> {}, gen |-> [c \in Cards |-> 0], current |-> None, fan |-> None]

(* A slip: the fan handle of the adapter selected before is kept *)
SelectKeepingFan(ctl, c) == [ctl EXCEPT !.current = c]

(* selectByIndex *)
Select(ctl, c) ==
  IF ctl.current = c THEN ctl ELSE [ctl EXCEPT !.current = c, !.fan = None]

(* ensureFanHandle *)
FanHandle(ctl)  == IF ctl.fan = None THEN ctl.current ELSE ctl.fan
Working(ctl, c) == ctl.gen[c] = gen[c]

(* What applyOnce passes over *)
HasWork(m, c) == Find(m, Key[c]) \notin {Absent, Blank}

Off == [pc |-> "off", ctl |-> NoController, cfg |-> NoSections, left |-> {}, at |-> None,
        ok |-> FALSE]
-----------------------------------------------------------------------------
(* The service.  runLoop: event and controller first.                       *)
StartService ==
  /\ svc.pc = "off"
  /\ event' = FALSE
  /\ svc' = [Off EXCEPT !.pc = "load", !.ctl = Controller]
  /\ UNCHANGED <<file, card, up, gen, job, history>>

(* applyOnce reads the file, unless init has failed *)
LoadProfiles ==
  /\ svc.pc = "load"
  /\ svc' = IF svc.ctl.known = {} THEN [svc EXCEPT !.pc = "end", !.ok = FALSE]
            ELSE [svc EXCEPT !.pc = "next", !.cfg = file, !.ok = TRUE,
                             !.left = {c \in svc.ctl.known : HasWork(file, c)}]
  /\ history' = IF svc.ctl.known = {} THEN history
                ELSE [history EXCEPT !.unannounced = FALSE]
  /\ UNCHANGED <<file, card, up, gen, event, job>>

(* ... and takes the adapters in the order IGCL lists them in               *)
NextAdapter ==
  /\ svc.pc = "next"
  /\ IF svc.left = {} THEN svc' = [svc EXCEPT !.pc = "end"]
     ELSE \E c \in svc.left : svc' = [svc EXCEPT !.pc = "fan", !.at = c, !.left = @ \ {c},
                                                 !.ctl = Select(@, c)]
  /\ UNCHANGED <<file, card, up, gen, event, job, history>>

Wanted == Find(svc.cfg, Key[svc.at])

(* A slip: a fan that cannot be set counts as set *)
ServiceFanUnchecked ==
  /\ svc.pc = "fan"
  /\ LET to == FanHandle(svc.ctl)
     IN IF Wanted.fan = Unset \/ ~Working(svc.ctl, to)
        THEN svc' = [svc EXCEPT !.pc = "volt"] /\ card' = card
        ELSE /\ svc' = [svc EXCEPT !.pc = "volt", !.ctl.fan = to]
             /\ card' = [card EXCEPT ![to].fan = Wanted.fan]
  /\ UNCHANGED <<file, up, gen, event, job, history>>

(* applyProfile: the fan, whose failure fails the pass ...                   *)
ServiceFan ==
  /\ svc.pc = "fan"
  /\ LET to == FanHandle(svc.ctl)
     IN IF Wanted.fan = Unset
        THEN svc' = [svc EXCEPT !.pc = "volt"] /\ card' = card
        ELSE IF Working(svc.ctl, to)
             THEN /\ svc' = [svc EXCEPT !.pc = "volt", !.ctl.fan = to]
                  /\ card' = [card EXCEPT ![to].fan = Wanted.fan]
             ELSE svc' = [svc EXCEPT !.pc = "volt", !.ok = FALSE] /\ card' = card
  /\ UNCHANGED <<file, up, gen, event, job, history>>

(* ... then the overclock, whose failures are tolerated                     *)
Volted(x) == IF x = Unset \/ ~Working(svc.ctl, svc.at) THEN card
             ELSE [card EXCEPT ![svc.at].vf = x]

ServiceVolt ==
  /\ svc.pc = "volt"
  /\ card' = Volted(Wanted.volt)
  /\ svc' = [svc EXCEPT !.pc = "curve"]
  /\ UNCHANGED <<file, up, gen, event, job, history>>

ServiceCurve ==
  /\ svc.pc = "curve"
  /\ card' = Volted(Wanted.curve)
  /\ svc' = [svc EXCEPT !.pc = "next"]
  /\ UNCHANGED <<file, up, gen, event, job, history>>

(* A slip: the event is cleared when the pass ends *)
EndPassClearing ==
  /\ svc.pc = "end"
  /\ svc' = [svc EXCEPT !.pc = "wait", !.ctl = IF svc.ok THEN @ ELSE Controller]
  /\ event' = FALSE
  /\ UNCHANGED <<file, card, up, gen, job, history>>

(* A pass that failed gets a new controller, which is used after the wait   *)
EndPass ==
  /\ svc.pc = "end"
  /\ svc' = [svc EXCEPT !.pc = "wait", !.ctl = IF svc.ok THEN @ ELSE Controller]
  /\ UNCHANGED <<file, card, up, gen, event, job, history>>

(* WaitForMultipleObjects: the auto-reset event, or 5 s or 60 s             *)
WakeUp ==
  /\ svc.pc = "wait"
  /\ event
  /\ event' = FALSE
  /\ svc' = [svc EXCEPT !.pc = "load"]
  /\ UNCHANGED <<file, card, up, gen, job, history>>

Timeout ==
  /\ svc.pc = "wait"
  /\ ~event
  /\ svc' = [svc EXCEPT !.pc = "load"]
  /\ UNCHANGED <<file, card, up, gen, event, job, history>>

StopService ==
  /\ svc.pc = "wait"
  /\ svc' = [Off EXCEPT !.pc = "stopped"]
  /\ event' = FALSE
  /\ UNCHANGED <<file, card, up, gen, job, history>>

ServiceStep == \/ StartService \/ LoadProfiles \/ NextAdapter \/ ServiceFan
               \/ ServiceVolt \/ ServiceCurve \/ EndPass \/ WakeUp \/ Timeout
Running == svc.pc \notin {"off", "stopped"}
-----------------------------------------------------------------------------
(* Programs.  A job is the steps left, the card it is about, the setting it *)
(* changes, and the profile and the file it has read.                       *)
Idle == [pc |-> "idle", op |-> "none", card |-> None, val |-> Unset, cfg |-> Blank,
         all |-> NoSections]

(* The settings a command may choose from *)
FanOps  == {"fan", "guiFan"}
VoltOps == {"volt", "named", "guiVolt"}
Choice(op) == IF op \in FanOps THEN Fans
              ELSE IF op \in VoltOps THEN Offsets
              ELSE IF op \in {"curve", "guiCurve"} THEN VfCurves ELSE {Unset}

(* What a command does to the profile it has loaded: the GUI's Overclock    *)
(* tab replaces an offset by a curve and a curve by an offset               *)
Edited(cfg, op, val) ==
  [fan   |-> IF op \in FanOps THEN val ELSE cfg.fan,
   volt  |-> IF op \in VoltOps THEN val ELSE IF op = "guiCurve" THEN Unset ELSE cfg.volt,
   curve |-> IF op = "guiCurve" THEN val ELSE IF op = "guiVolt" THEN Unset ELSE cfg.curve]

(* ... and to the card                                                      *)
CardOps == {"fan", "volt", "named", "curve", "reset"}
Written(state, op, val) ==
  [fan |-> IF op = "fan" THEN val ELSE state.fan,
   vf  |-> IF op = "fan" THEN state.vf ELSE IF op = "reset" THEN Stock ELSE val]

Begin(p, op, val, first) ==
  /\ job[p].pc = "idle"
  /\ history.commands < MaxCommands
  /\ \E c \in up :
       /\ job' = [job EXCEPT ![p] = [Idle EXCEPT !.pc = first, !.op = op, !.card = c, !.val = val]]
       /\ history' = [history EXCEPT !.commands = @ + 1,
                                     !.asked[Key[c]] = @ \cup ({val} \cap Fans)]
  /\ UNCHANGED <<file, card, up, gen, event, svc>>

(* arc-gpu fan ...; oc volt; oc profile load; oc vfcurve; oc reset; apply   *)
CliCommand(p) ==
  \/ \E f \in Fans     : Begin(p, "fan", f, "load")
  \/ \E v \in Offsets  : Begin(p, "volt", v, "load") \/ Begin(p, "named", v, "card")
  \/ \E c \in VfCurves : Begin(p, "curve", c, "card")
  \/ Begin(p, "reset", Unset, "card")
  \/ Begin(p, "apply", Unset, "load")

(* Fan and Overclock tabs *)
GuiCommand(p) ==
  \/ \E f \in Fans     : Begin(p, "guiFan", f, "load")
  \/ \E v \in Offsets  : Begin(p, "guiVolt", v, "load")
  \/ \E c \in VfCurves : Begin(p, "guiCurve", c, "load")

Section(p) == Key[job[p].card]

(* loadConfigFor.  `fan` and `volt` write the card next, `profile load` has *)
(* done so before, the GUI leaves the card to the service.                  *)
AfterLoad(op) == IF op \in {"fan", "volt"} THEN "card"
                 ELSE IF op = "apply" THEN "applyFan" ELSE "all"

LoadProfile(p) ==
  /\ job[p].pc = "load"
  /\ job' = [job EXCEPT ![p].pc = AfterLoad(job[p].op),
                        ![p].cfg = Edited(LoadFor(file, Section(p)), job[p].op, job[p].val)]
  /\ UNCHANGED <<file, card, up, gen, event, svc, history>>

(* A command that fails to write ends, but `profile load` only warns        *)
AfterCard(j, ok) == IF j.op = "named" THEN [j EXCEPT !.pc = "load"]
                    ELSE IF j.op \in {"fan", "volt"} /\ ok THEN [j EXCEPT !.pc = "all"] ELSE Idle

WriteCard(p) ==
  /\ job[p].pc = "card"
  /\ \/ /\ card' = [card EXCEPT ![job[p].card] = Written(@, job[p].op, job[p].val)]
        /\ job' = [job EXCEPT ![p] = AfterCard(@, TRUE)]
     \/ card' = card /\ job' = [job EXCEPT ![p] = AfterCard(@, FALSE)]
  /\ UNCHANGED <<file, up, gen, event, svc, history>>

(* A slip: a setting the profile does not have is written all the same *)
ApplySettingBlindly(p, pc, next, field, val) ==
  /\ job[p].pc = pc
  /\ card' = [card EXCEPT ![job[p].card][field] = val]
  /\ job' = [job EXCEPT ![p] = IF next = "idle" THEN Idle ELSE [@ EXCEPT !.pc = next]]
  /\ UNCHANGED <<file, up, gen, event, svc, history>>

(* `apply`: a setting that fails does not keep the next from being tried    *)
ApplySetting(p, pc, next, field, val) ==
  /\ job[p].pc = pc
  /\ \/ card' = IF val = Unset THEN card ELSE [card EXCEPT ![job[p].card][field] = val]
     \/ card' = card
  /\ job' = [job EXCEPT ![p] = IF next = "idle" THEN Idle ELSE [@ EXCEPT !.pc = next]]
  /\ UNCHANGED <<file, up, gen, event, svc, history>>

Apply(p) ==
  \/ ApplySetting(p, "applyFan", "applyVolt", "fan", job[p].cfg.fan)
  \/ ApplySetting(p, "applyVolt", "applyCurve", "vf", job[p].cfg.volt)
  \/ ApplySetting(p, "applyCurve", "idle", "vf", job[p].cfg.curve)

(* saveConfigFor: read every section, replace one, and rewrite the file,    *)
(* which is empty in between                                                *)
ReadAll(p) ==
  /\ job[p].pc = "all"
  /\ job' = [job EXCEPT ![p].pc = "truncate", ![p].all = [file EXCEPT ![Section(p)] = job[p].cfg]]
  /\ UNCHANGED <<file, card, up, gen, event, svc, history>>

Announced(p) == p \in GUIs

Truncate(p) ==
  /\ job[p].pc = "truncate"
  /\ file' = NoSections
  /\ job' = [job EXCEPT ![p].pc = "write"]
  /\ history' = [history EXCEPT !.unannounced = @ \/ ~Announced(p)]
  /\ UNCHANGED <<card, up, gen, event, svc>>

WriteAll(p) ==
  /\ job[p].pc = "write"
  /\ file' = job[p].all
  /\ job' = [job EXCEPT ![p] = IF Announced(p) THEN [@ EXCEPT !.pc = "nudge"] ELSE Idle]
  /\ history' = [history EXCEPT !.unannounced = @ \/ ~Announced(p),
                                !.saved[Section(p)] = job[p].cfg]
  /\ UNCHANGED <<card, up, gen, event, svc>>

(* nudgeService: the event is there while the service runs *)
Nudge(p) ==
  /\ job[p].pc = "nudge"
  /\ event' = (event \/ Running)
  /\ job' = [job EXCEPT ![p] = Idle]
  /\ UNCHANGED <<file, card, up, gen, svc, history>>

JobStep(p) == \/ LoadProfile(p) \/ WriteCard(p) \/ Apply(p) \/ ReadAll(p)
              \/ Truncate(p) \/ WriteAll(p) \/ Nudge(p)
-----------------------------------------------------------------------------
(* The machine *)
DriverUp ==
  /\ up # Cards
  /\ IF LateCards THEN \E c \in Cards \ up : up' = up \cup {c} ELSE up' = Cards
  /\ UNCHANGED <<file, card, gen, event, svc, job, history>>

(* A driver reset (TDR, resume) loses the settings and maybe the handles    *)
DriverReset ==
  /\ history.resets < MaxResets
  /\ \E c \in up : /\ card' = [card EXCEPT ![c] = Untouched]
                   /\ \/ gen' = gen
                      \/ gen' = [gen EXCEPT ![c] = @ + 1]
  /\ history' = [history EXCEPT !.resets = @ + 1]
  /\ UNCHANGED <<file, up, event, svc, job>>

PowerCycle ==
  /\ history.resets < MaxResets
  /\ card' = [c \in Cards |-> Untouched]
  /\ up' = {}
  /\ event' = FALSE
  /\ svc' = Off
  /\ job' = [p \in Programs |-> Idle]
  /\ history' = [history EXCEPT !.resets = @ + 1]
  /\ UNCHANGED <<file, gen>>

Init ==
  /\ file = FirstFile
  /\ card = [c \in Cards |-> Untouched]
  /\ up = {}
  /\ gen = [c \in Cards |-> 0]
  /\ event = FALSE
  /\ svc = Off
  /\ job = [p \in Programs |-> Idle]
  /\ history = [unannounced |-> FALSE, saved |-> FirstFile, commands |-> 0, resets |-> 0,
                asked |-> [k \in Keys |-> IF FirstFile[k] = Absent THEN {}
                                          ELSE {FirstFile[k].fan} \cap Fans]]

Next ==
  \/ ServiceStep \/ StopService
  \/ \E p \in CLIs : CliCommand(p)
  \/ \E p \in GUIs : GuiCommand(p)
  \/ \E p \in Programs : JobStep(p)
  \/ DriverUp \/ DriverReset \/ PowerCycle

Spec == Init /\ [][Next]_vars

(* Programs and the service run on, the driver comes up                     *)
Fairness ==
  /\ WF_vars(ServiceStep)
  /\ \A p \in Programs : WF_vars(JobStep(p))
  /\ WF_vars(DriverUp)

FairSpec == Spec /\ Fairness
-----------------------------------------------------------------------------
ServicePcs == {"off", "load", "next", "fan", "volt", "curve", "end", "wait", "stopped"}
JobPcs     == {"idle", "load", "card", "applyFan", "applyVolt", "applyCurve", "all",
               "truncate", "write", "nudge"}
Ops        == {"none", "fan", "volt", "named", "curve", "reset", "apply",
               "guiFan", "guiVolt", "guiCurve"}
Handles    == [known : SUBSET Cards, gen : [Cards -> Nat], current : Cards \cup {None},
               fan : Cards \cup {None}]
Service    == [pc : ServicePcs, ctl : Handles, cfg : File, left : SUBSET Cards,
               at : Cards \cup {None}, ok : BOOLEAN]
Job        == [pc : JobPcs, op : Ops, card : Cards \cup {None},
               val : Fans \cup Offsets \cup VfCurves \cup {Unset},
               cfg : Profile, all : File]
CardState  == [fan : Fans \cup {Stock}, vf : Offsets \cup VfCurves \cup {Stock}]

TypeOK ==
  /\ file \in File
  /\ card \in [Cards -> CardState]
  /\ up \in SUBSET Cards
  /\ gen \in [Cards -> Nat]
  /\ event \in BOOLEAN
  /\ svc \in Service
  /\ job \in [Programs -> Job]
  /\ history \in [unannounced : BOOLEAN, saved : File, commands : Nat, resets : Nat,
                  asked : [Keys -> SUBSET Fans]]

(* A GUI has changed the file and has yet to signal the event *)
OnItsWay == \E p \in GUIs : job[p].pc \in {"write", "nudge"}

(* No nudge is lost: while the service rests after a pass that succeeded,   *)
(* with no signal pending or on its way, it has applied the file as it is,  *)
(* whenever in the pass the GUI saved.  (The command line saves without a   *)
(* signal; what it saved waits for the next pass.)                          *)
NudgeNotLost ==
  svc.pc = "wait" /\ svc.ok /\ ~event /\ ~OnItsWay /\ ~history.unannounced
    => svc.cfg = file

(* No card runs the fan profile of another: what its fan follows was asked  *)
(* for its own key, or as the default.                                      *)
OwnProfileOnly ==
  \A c \in Cards : card[c].fan \in {Stock} \cup history.asked[Key[c]] \cup history.asked[Default]

Follows(c) ==
  LET p == LoadFor(file, Key[c])
  IN /\ p.fan # Unset => card[c].fan = p.fan
     /\ p.curve # Unset => card[c].vf = p.curve
     /\ p.curve = Unset /\ p.volt # Unset => card[c].vf = p.volt

AtRest == svc.pc = "wait"

(* "a driver reset or resume-from-sleep that wipes the fan curve /          *)
(* overclock is silently restored" (service_main.cpp:10-11): once commands  *)
(* and resets end, every card whose profile has a fan mode follows its      *)
(* profile whenever the service rests, also with handles gone stale, with   *)
(* settings a program wrote directly, and with a driver late at boot, if it *)
(* comes up for all adapters at once (LateCards = FALSE).                   *)
FanProfilesRestored ==
  <>[](AtRest => \A c \in Cards : LoadFor(file, Key[c]).fan # Unset => Follows(c))
-----------------------------------------------------------------------------
(* Statements of the sources that the code does not keep                    *)

(* The same sentence of profiles without a fan mode: an overclock alone.    *)
ProfilesRestored == <>[](AtRest => \A c \in Cards : Follows(c))

(* "preserve other adapters' sections" (config.cpp:225): between two saves  *)
(* the file holds for each key what was saved for it last.                  *)
SectionsPreserved ==
  (\A p \in Programs : job[p].pc # "write") => file = history.saved
=============================================================================
