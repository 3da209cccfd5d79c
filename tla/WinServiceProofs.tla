--------------------------- MODULE WinServiceProofs ---------------------------
(***************************************************************************)
(* Type correctness of WinService and its two invariants, for every set of  *)
(* adapters, keys, settings and programs, and every bound.                  *)
(***************************************************************************)
EXTENDS WinService, TLAPS

-----------------------------------------------------------------------------
(* Types.  What a job is about fits its command; the service is at work on  *)
(* an adapter that has a profile, and has it selected.                      *)
JobOK(j) ==
  /\ j.val \in Choice(j.op)
  /\ j.pc # "idle" => j.card \in Cards
  /\ j.pc = "card" => j.op \in CardOps

Applying == {"fan", "volt", "curve"}

ServiceOK(s) ==
  /\ \A c \in s.left : HasWork(s.cfg, c)
  /\ s.pc \in Applying =>
       s.at \in Cards /\ HasWork(s.cfg, s.at) /\ s.ctl.current = s.at

TypeInv == TypeOK /\ (\A p \in Programs : JobOK(job[p])) /\ ServiceOK(svc)

(* The programs and the service have not moved *)
LEMMA SameJobs ==
  ASSUME TypeInv, job' = job
  PROVE  job' \in [Programs -> Job] /\ (\A p \in Programs : JobOK(job[p])')
  BY DEF TypeInv, TypeOK, JobOK

LEMMA SameService ==
  ASSUME TypeInv, svc' = svc
  PROVE  svc' \in Service /\ ServiceOK(svc)'
  BY DEF TypeInv, TypeOK, ServiceOK, HasWork

(* One program moves *)
LEMMA JobChange ==
  ASSUME TypeInv, NEW p \in Programs, NEW j \in Job, JobOK(j), job' = [job EXCEPT ![p] = j]
  PROVE  /\ job' \in [Programs -> Job]
         /\ \A q \in Programs : JobOK(job[q])'
         /\ job'[p] = j
         /\ \A q \in Programs \ {p} : job'[q] = job[q]
<1>1. job \in [Programs -> Job]
  BY DEF TypeInv, TypeOK
<1>2. /\ job' \in [Programs -> Job]
      /\ job'[p] = j
      /\ \A q \in Programs \ {p} : job'[q] = job[q]
  BY <1>1
<1>3. ASSUME NEW q \in Programs PROVE JobOK(job[q])'
  BY <1>2 DEF TypeInv, JobOK
<1> QED
  BY <1>2, <1>3

(* What Find and LoadFor return *)
LEMMA FindType ==
  ASSUME WinAssumption, NEW m \in File, NEW k \in Keys
  PROVE  /\ Find(m, k) \in Profile \cup {Absent}
         /\ LoadFor(m, k) \in Profile
  BY DEF WinAssumption, Find, LoadFor, File, Blank, Profile

(* A loaded profile with a command's setting is a profile *)
LEMMA EditedType ==
  ASSUME NEW cfg \in Profile, NEW op \in Ops, NEW val \in Choice(op)
  PROVE  Edited(cfg, op, val) \in Profile
  BY DEF Edited, Profile, Ops, Choice, FanOps, VoltOps

(* What a command writes is a state of a card *)
LEMMA WrittenType ==
  ASSUME NEW state \in CardState, NEW op \in CardOps, NEW val \in Choice(op)
  PROVE  Written(state, op, val) \in CardState
  BY DEF Written, CardState, CardOps, Choice, FanOps, VoltOps

LEMMA IdleType ==
  ASSUME WinAssumption
  PROVE  Idle \in Job /\ JobOK(Idle)
  BY DEF WinAssumption, Idle, Job, JobOK, JobPcs, Ops, Choice, FanOps, VoltOps, Blank, Profile,
         NoSections, File

LEMMA OffType ==
  ASSUME WinAssumption
  PROVE  Off \in Service /\ ServiceOK(Off)
<1>1. Off \in Service
  BY DEF WinAssumption, Off, Service, ServicePcs, NoController, Handles, NoSections, File
<1>2. ServiceOK(Off)
  BY DEF Off, ServiceOK, Applying
<1> QED
  BY <1>1, <1>2

LEMMA ControllerType ==
  ASSUME WinAssumption, TypeOK
  PROVE  Controller \in Handles
  BY DEF Controller, Handles, TypeOK

LEMMA InitTypes ==
  ASSUME WinAssumption, Init
  PROVE  TypeInv
<1>1. svc \in Service /\ ServiceOK(svc)
  BY OffType DEF Init
<1>2. job \in [Programs -> Job] /\ \A p \in Programs : JobOK(job[p])
  BY IdleType DEF Init
<1>3. card \in [Cards -> CardState]
  BY DEF Init, Untouched, CardState
<1>4. history \in [unannounced : BOOLEAN, saved : File, commands : Nat, resets : Nat,
                   asked : [Keys -> SUBSET Fans]]
  BY DEF Init, WinAssumption
<1> QED
  BY <1>1, <1>2, <1>3, <1>4 DEF Init, TypeInv, TypeOK, WinAssumption

(* The service's step keeps the types *)
LEMMA ServiceTypes ==
  ASSUME WinAssumption, TypeInv, ServiceStep \/ StopService
  PROVE  TypeInv'
<1> USE DEF TypeInv
<1>s. svc \in Service /\ svc.ctl \in Handles /\ TypeOK
  BY DEF TypeOK, Service
<1>1. CASE StartService
  <2>1. svc' \in Service
    BY <1>1, <1>s, OffType, ControllerType DEF StartService, Service, ServicePcs
  <2>2. ServiceOK(svc)'
    BY <1>1 DEF StartService, Off, ServiceOK, Applying
  <2> QED
    BY <1>1, <2>1, <2>2, SameJobs DEF StartService, TypeOK
<1>2. CASE LoadProfiles
  <2>1. svc' \in Service
    BY <1>2, <1>s DEF LoadProfiles, Service, ServicePcs, Handles, TypeOK
  <2>2. svc'.pc \notin Applying
    BY <1>2, <1>s DEF LoadProfiles, Service, Applying
  <2>3. ASSUME NEW c \in svc'.left PROVE HasWork(svc'.cfg, c)
    <3>1. CASE svc.ctl.known = {}
      BY <1>2, <1>s, <2>3, <3>1 DEF LoadProfiles, Service, ServiceOK
    <3>2. CASE svc.ctl.known # {}
      BY <1>2, <1>s, <2>3, <3>2 DEF LoadProfiles, Service
    <3> QED
      BY <3>1, <3>2
  <2>4. history' \in [unannounced : BOOLEAN, saved : File, commands : Nat, resets : Nat,
                      asked : [Keys -> SUBSET Fans]]
    BY <1>2 DEF LoadProfiles, TypeOK
  <2>5. ServiceOK(svc)'
    BY <2>2, <2>3 DEF ServiceOK, HasWork
  <2> QED
    BY <1>2, <2>1, <2>4, <2>5, SameJobs DEF LoadProfiles, TypeOK
<1>3. CASE NextAdapter
  <2>1. CASE svc.left = {}
    <3>1. svc' = [svc EXCEPT !.pc = "end"]
      BY <1>3, <2>1 DEF NextAdapter
    <3>2. svc' \in Service /\ ServiceOK(svc)'
      BY <3>1, <1>s DEF Service, ServicePcs, ServiceOK, Applying, HasWork
    <3> QED
      BY <1>3, <3>2, SameJobs DEF NextAdapter, TypeOK
  <2>2. CASE svc.left # {}
    <3>1. PICK c \in svc.left : svc' = [svc EXCEPT !.pc = "fan", !.at = c, !.left = @ \ {c},
                                                   !.ctl = Select(@, c)]
      BY <1>3, <2>2 DEF NextAdapter
    <3>2. c \in Cards /\ HasWork(svc.cfg, c)
      BY <1>s DEF Service, ServiceOK
    <3>3. Select(svc.ctl, c) \in Handles /\ Select(svc.ctl, c).current = c
      BY <1>s, <3>2 DEF Select, Handles
    <3>4. svc' \in Service
      BY <1>s, <3>1, <3>2, <3>3 DEF Service, ServicePcs
    <3>5. ServiceOK(svc)'
      BY <1>s, <3>1, <3>2, <3>3 DEF Service, ServiceOK, HasWork
    <3> QED
      BY <1>3, <3>4, <3>5, SameJobs DEF NextAdapter, TypeOK
  <2> QED
    BY <2>1, <2>2
<1>w. ASSUME svc.pc \in Applying
      PROVE  Wanted \in Profile /\ svc.at \in Cards
  <2>1. svc.at \in Cards /\ HasWork(svc.cfg, svc.at)
    BY <1>w DEF ServiceOK
  <2>2. Key[svc.at] \in Keys /\ svc.cfg \in File
    BY <2>1, <1>s DEF WinAssumption, Service
  <2> QED
    BY <2>1, <2>2, FindType DEF HasWork, Wanted
<1>4. CASE ServiceFan
  <2>1. svc.pc \in Applying /\ svc.at \in Cards /\ Wanted \in Profile /\ svc.ctl.current \in Cards
    BY <1>4, <1>w DEF ServiceFan, Applying, ServiceOK
  <2>2. FanHandle(svc.ctl) \in Cards
    BY <2>1, <1>s DEF FanHandle, Handles
  <2>3. ASSUME svc' = [svc EXCEPT !.pc = "volt", !.ctl.fan = FanHandle(svc.ctl)]
        PROVE  svc' \in Service /\ ServiceOK(svc)'
    <3>1. svc' \in Service
      BY <1>s, <2>1, <2>2, <2>3 DEF Service, ServicePcs, Handles
    <3>2. /\ svc'.left = svc.left /\ svc'.cfg = svc.cfg /\ svc'.at = svc.at
          /\ svc'.ctl.current = svc.ctl.current
      BY <1>s, <2>3 DEF Service, Handles
    <3>3. ServiceOK(svc)'
      BY <2>1, <3>2 DEF ServiceOK, HasWork
    <3> QED
      BY <3>1, <3>3
  <2>4. ASSUME \/ svc' = [svc EXCEPT !.pc = "volt"]
               \/ svc' = [svc EXCEPT !.pc = "volt", !.ok = FALSE]
        PROVE  svc' \in Service /\ ServiceOK(svc)'
    <3>1. svc' \in Service
      BY <1>s, <2>4 DEF Service, ServicePcs
    <3>2. /\ svc'.left = svc.left /\ svc'.cfg = svc.cfg /\ svc'.at = svc.at
          /\ svc'.ctl = svc.ctl
      BY <1>s, <2>4 DEF Service
    <3>3. ServiceOK(svc)'
      BY <2>1, <3>2 DEF ServiceOK, HasWork
    <3> QED
      BY <3>1, <3>3
  <2>5. svc' \in Service /\ ServiceOK(svc)'
    BY <1>4, <2>3, <2>4 DEF ServiceFan
  <2>6. card' \in [Cards -> CardState]
    BY <1>4, <1>s, <2>1, <2>2 DEF ServiceFan, TypeOK, CardState, Profile
  <2> QED
    BY <1>4, <2>5, <2>6, SameJobs DEF ServiceFan, TypeOK
<1>v. ASSUME NEW x \in Offsets \cup VfCurves \cup {Unset}, svc.pc \in Applying
      PROVE  Volted(x) \in [Cards -> CardState]
  BY <1>v, <1>w DEF Volted, TypeOK, CardState
<1>5. CASE ServiceVolt
  <2>1. svc.pc \in Applying /\ Wanted.volt \in Offsets \cup {Unset}
    BY <1>5, <1>w DEF ServiceVolt, Applying, Profile
  <2>2. card' \in [Cards -> CardState]
    BY <1>5, <2>1, <1>v DEF ServiceVolt
  <2>3. svc' \in Service /\ ServiceOK(svc)'
    BY <1>5, <1>s, <2>1 DEF ServiceVolt, Service, ServicePcs, ServiceOK, Applying, HasWork
  <2> QED
    BY <1>5, <2>2, <2>3, SameJobs DEF ServiceVolt, TypeOK
<1>6. CASE ServiceCurve
  <2>1. svc.pc \in Applying /\ Wanted.curve \in VfCurves \cup {Unset}
    BY <1>6, <1>w DEF ServiceCurve, Applying, Profile
  <2>2. card' \in [Cards -> CardState]
    BY <1>6, <2>1, <1>v DEF ServiceCurve
  <2>3. svc' \in Service /\ ServiceOK(svc)'
    BY <1>6, <1>s, <2>1 DEF ServiceCurve, Service, ServicePcs, ServiceOK, Applying, HasWork
  <2> QED
    BY <1>6, <2>2, <2>3, SameJobs DEF ServiceCurve, TypeOK
<1>7. CASE EndPass
  <2>1. svc' \in Service /\ ServiceOK(svc)'
    BY <1>7, <1>s, ControllerType DEF EndPass, Service, ServicePcs, ServiceOK, Applying, HasWork
  <2> QED
    BY <1>7, <2>1, SameJobs DEF EndPass, TypeOK
<1>8. CASE WakeUp \/ Timeout
  <2>1. svc' \in Service /\ ServiceOK(svc)'
    BY <1>8, <1>s DEF WakeUp, Timeout, Service, ServicePcs, ServiceOK, Applying, HasWork
  <2> QED
    BY <1>8, <2>1, SameJobs DEF WakeUp, Timeout, TypeOK
<1>9. CASE StopService
  <2>1. svc' \in Service
    BY <1>9, OffType DEF StopService, Service, ServicePcs
  <2>2. ServiceOK(svc)'
    BY <1>9 DEF StopService, Off, ServiceOK, Applying
  <2> QED
    BY <1>9, <2>1, <2>2, SameJobs DEF StopService, TypeOK
<1> QED
  BY <1>1, <1>2, <1>3, <1>4, <1>5, <1>6, <1>7, <1>8, <1>9 DEF ServiceStep

(* A program's step keeps the types *)
LEMMA JobTypes ==
  ASSUME WinAssumption, TypeInv, NEW p \in Programs, JobStep(p)
  PROVE  TypeInv'
<1> USE DEF TypeInv
<1> DEFINE j == job[p]
<1>s. /\ TypeOK
      /\ j \in Job /\ JobOK(j)
      /\ j.pc # "idle" => j.card \in Cards /\ Section(p) \in Keys
  BY DEF TypeOK, JobOK, Section, WinAssumption
<1>i. Idle \in Job /\ JobOK(Idle)
  BY IdleType
<1>1. CASE LoadProfile(p)
  <2> DEFINE cfg == Edited(LoadFor(file, Section(p)), j.op, j.val)
  <2>1. LoadFor(file, Section(p)) \in Profile
    BY <1>1, <1>s, FindType DEF LoadProfile, TypeOK
  <2>2. cfg \in Profile
    BY <1>s, <2>1, EditedType DEF Job, JobOK
  <2>3. AfterLoad(j.op) \in JobPcs /\ (AfterLoad(j.op) = "card" => j.op \in CardOps)
    BY DEF AfterLoad, JobPcs, CardOps
  <2> DEFINE n == [j EXCEPT !.pc = AfterLoad(j.op), !.cfg = cfg]
  <2>4. n \in Job /\ JobOK(n)
    BY <1>1, <1>s, <2>2, <2>3 DEF Job, JobOK, LoadProfile
  <2>5. job' = [job EXCEPT ![p] = n]
    BY <1>1, <1>s DEF LoadProfile, TypeOK
  <2>6. job' \in [Programs -> Job] /\ (\A q \in Programs : JobOK(job[q])')
    BY <2>4, <2>5, JobChange
  <2> QED
    BY <1>1, <2>6, SameService DEF LoadProfile, TypeOK
<1>2. CASE WriteCard(p)
  <2>1. ASSUME NEW ok \in BOOLEAN PROVE AfterCard(j, ok) \in Job /\ JobOK(AfterCard(j, ok))
    BY <1>2, <1>s, <1>i DEF WriteCard, AfterCard, Job, JobOK, JobPcs
  <2>2. PICK ok \in BOOLEAN : job' = [job EXCEPT ![p] = AfterCard(j, ok)]
    BY <1>2 DEF WriteCard
  <2>3. job' \in [Programs -> Job] /\ (\A q \in Programs : JobOK(job[q])')
    BY <2>1, <2>2, JobChange
  <2>4. card[j.card] \in CardState /\ j.op \in CardOps /\ j.val \in Choice(j.op)
    BY <1>2, <1>s DEF WriteCard, TypeOK, JobOK
  <2>5. Written(card[j.card], j.op, j.val) \in CardState
    BY <2>4, WrittenType
  <2>6. card' \in [Cards -> CardState]
    <3>1. \/ card' = card
          \/ card' = [card EXCEPT ![j.card] = Written(card[j.card], j.op, j.val)]
      BY <1>2 DEF WriteCard
    <3> QED
      BY <3>1, <2>5, <1>s DEF TypeOK
  <2> QED
    BY <1>2, <2>3, <2>6, SameService DEF WriteCard, TypeOK
<1>3. CASE Apply(p)
  <2>1. ASSUME NEW pc \in JobPcs \ {"idle"}, NEW next \in JobPcs \ {"card"},
               NEW field \in {"fan", "vf"}, NEW val,
               field = "fan" => val \in Fans \cup {Unset},
               field = "vf" => val \in Offsets \cup VfCurves \cup {Unset},
               ApplySetting(p, pc, next, field, val)
        PROVE  TypeInv'
    <3> DEFINE n == IF next = "idle" THEN Idle ELSE [j EXCEPT !.pc = next]
    <3>1. n \in Job /\ JobOK(n)
      BY <2>1, <1>s, <1>i DEF ApplySetting, Job, JobOK
    <3>2. job' = [job EXCEPT ![p] = n]
      BY <2>1 DEF ApplySetting
    <3>3. job' \in [Programs -> Job] /\ (\A q \in Programs : JobOK(job[q])')
      BY <3>1, <3>2, JobChange
    <3>4. card' \in [Cards -> CardState]
      <4>0. j.card \in Cards /\ card \in [Cards -> CardState] /\ card[j.card] \in CardState
        BY <2>1, <1>s DEF ApplySetting, TypeOK
      <4>1. CASE card' = card
        BY <4>1, <4>0
      <4>2. CASE field = "fan" /\ val # Unset /\ card' = [card EXCEPT ![j.card].fan = val]
        BY <4>0, <4>2, <2>1 DEF CardState
      <4>3. CASE field = "vf" /\ val # Unset /\ card' = [card EXCEPT ![j.card].vf = val]
        BY <4>0, <4>3, <2>1 DEF CardState
      <4> QED
        BY <4>1, <4>2, <4>3, <2>1 DEF ApplySetting
    <3> QED
      BY <2>1, <3>3, <3>4, SameService DEF ApplySetting, TypeOK
  <2>2. /\ j.cfg.fan \in Fans \cup {Unset}
        /\ j.cfg.volt \in Offsets \cup {Unset}
        /\ j.cfg.curve \in VfCurves \cup {Unset}
    BY <1>s DEF Job, Profile
  <2>3. {"applyFan", "applyVolt", "applyCurve", "idle"} \subseteq JobPcs \ {"card"}
    BY DEF JobPcs
  <2> QED
    BY <1>3, <2>1, <2>2, <2>3 DEF Apply
<1>4. CASE ReadAll(p)
  <2> DEFINE all == [file EXCEPT ![Section(p)] = j.cfg]
             n   == [j EXCEPT !.pc = "truncate", !.all = all]
  <2>1. all \in File
    BY <1>4, <1>s DEF ReadAll, TypeOK, File, Job
  <2>2. n \in Job /\ JobOK(n)
    BY <1>4, <1>s, <2>1 DEF ReadAll, Job, JobOK, JobPcs
  <2>3. job' = [job EXCEPT ![p] = n]
    BY <1>4, <1>s DEF ReadAll, TypeOK
  <2>4. job' \in [Programs -> Job] /\ (\A q \in Programs : JobOK(job[q])')
    BY <2>2, <2>3, JobChange
  <2> QED
    BY <1>4, <2>4, SameService DEF ReadAll, TypeOK
<1>5. CASE Truncate(p)
  <2> DEFINE n == [j EXCEPT !.pc = "write"]
  <2>1. n \in Job /\ JobOK(n)
    BY <1>5, <1>s DEF Truncate, Job, JobOK, JobPcs
  <2>2. job' = [job EXCEPT ![p] = n]
    BY <1>5, <1>s DEF Truncate, TypeOK
  <2>3. job' \in [Programs -> Job] /\ (\A q \in Programs : JobOK(job[q])')
    BY <2>1, <2>2, JobChange
  <2>4. history' \in [unannounced : BOOLEAN, saved : File, commands : Nat, resets : Nat,
                      asked : [Keys -> SUBSET Fans]]
    BY <1>5, <1>s DEF Truncate, TypeOK, Announced
  <2>5. file' \in File
    BY <1>5 DEF Truncate, NoSections, File
  <2> QED
    BY <1>5, <2>3, <2>4, <2>5, SameService DEF Truncate, TypeOK
<1>6. CASE WriteAll(p)
  <2> DEFINE n == IF Announced(p) THEN [j EXCEPT !.pc = "nudge"] ELSE Idle
  <2>1. n \in Job /\ JobOK(n)
    BY <1>6, <1>s, <1>i DEF WriteAll, Job, JobOK, JobPcs
  <2>2. job' = [job EXCEPT ![p] = n]
    BY <1>6, <1>s DEF WriteAll, TypeOK
  <2>3. job' \in [Programs -> Job] /\ (\A q \in Programs : JobOK(job[q])')
    BY <2>1, <2>2, JobChange
  <2>4. history' \in [unannounced : BOOLEAN, saved : File, commands : Nat, resets : Nat,
                      asked : [Keys -> SUBSET Fans]]
    BY <1>6, <1>s DEF WriteAll, TypeOK, Announced, File, Job
  <2>5. file' \in File
    BY <1>6, <1>s DEF WriteAll, Job
  <2> QED
    BY <1>6, <2>3, <2>4, <2>5, SameService DEF WriteAll, TypeOK
<1>7. CASE Nudge(p)
  <2>1. job' \in [Programs -> Job] /\ (\A q \in Programs : JobOK(job[q])')
    BY <1>7, <1>i, JobChange DEF Nudge
  <2> QED
    BY <1>7, <2>1, SameService DEF Nudge, TypeOK, Running
<1> QED
  BY <1>1, <1>2, <1>3, <1>4, <1>5, <1>6, <1>7 DEF JobStep

(* A command begins, or the machine moves *)
LEMMA BeginTypes ==
  ASSUME WinAssumption, TypeInv, NEW p \in Programs, NEW op \in Ops, NEW val \in Choice(op),
         NEW first \in {"load", "card"}, first = "card" => op \in CardOps,
         Begin(p, op, val, first)
  PROVE  TypeInv'
<1> USE DEF TypeInv
<1>1. PICK c \in up :
        /\ job' = [job EXCEPT ![p] = [Idle EXCEPT !.pc = first, !.op = op, !.card = c, !.val = val]]
        /\ history' = [history EXCEPT !.commands = @ + 1,
                                      !.asked[Key[c]] = @ \cup ({val} \cap Fans)]
  BY DEF Begin
<1> DEFINE more == [history.asked EXCEPT ![Key[c]] = @ \cup ({val} \cap Fans)]
<1> DEFINE n == [Idle EXCEPT !.pc = first, !.op = op, !.card = c, !.val = val]
<1>2. c \in Cards /\ Key[c] \in Keys
  BY DEF TypeOK, WinAssumption
<1>3. val \in Fans \cup Offsets \cup VfCurves \cup {Unset}
  BY DEF Choice
<1>4. n \in Job /\ JobOK(n)
  BY <1>2, <1>3, IdleType DEF Idle, Job, JobOK, JobPcs
<1>5. job' \in [Programs -> Job] /\ (\A q \in Programs : JobOK(job[q])')
  BY <1>1, <1>4, JobChange
<1>6. history' \in [unannounced : BOOLEAN, saved : File, commands : Nat, resets : Nat,
                    asked : [Keys -> SUBSET Fans]]
  <2>1. history' = [history EXCEPT !.commands = @ + 1, !.asked = more]
    BY <1>1 DEF TypeOK
  <2>2. more \in [Keys -> SUBSET Fans]
    BY <1>2 DEF TypeOK
  <2>3. history \in [unannounced : BOOLEAN, saved : File, commands : Nat, resets : Nat,
                     asked : [Keys -> SUBSET Fans]]
    BY DEF TypeOK
  <2>4. history' = [unannounced |-> history.unannounced, saved |-> history.saved,
                    commands |-> history.commands + 1, resets |-> history.resets,
                    asked |-> more]
    BY <2>1, <2>3
  <2> QED
    BY <2>2, <2>3, <2>4
<1> QED
  BY <1>5, <1>6, SameService DEF Begin, TypeOK

LEMMA CommandTypes ==
  ASSUME WinAssumption, TypeInv, NEW p \in Programs, CliCommand(p) \/ GuiCommand(p)
  PROVE  TypeInv'
<1>1. ASSUME NEW op \in Ops, NEW val \in Choice(op), Begin(p, op, val, "load")
      PROVE  TypeInv'
  BY <1>1, BeginTypes
<1>2. ASSUME NEW op \in CardOps, NEW val \in Choice(op), Begin(p, op, val, "card")
      PROVE  TypeInv'
  BY <1>2, BeginTypes DEF Ops, CardOps
<1>4. Unset \in Choice("reset") /\ Unset \in Choice("apply")
  BY DEF Choice, FanOps, VoltOps
<1>5. /\ {"fan", "volt", "apply", "guiFan", "guiVolt", "guiCurve"} \subseteq Ops
      /\ {"named", "curve", "reset"} \subseteq CardOps
  BY DEF Ops, CardOps
<1>6. CASE CliCommand(p)
  <2>1. CASE \E f \in Fans : Begin(p, "fan", f, "load")
    BY <2>1, <1>1, <1>5 DEF Choice, FanOps
  <2>2. CASE \E v \in Offsets : Begin(p, "volt", v, "load")
    BY <2>2, <1>1, <1>5 DEF Choice, FanOps, VoltOps
  <2>3. CASE \E v \in Offsets : Begin(p, "named", v, "card")
    BY <2>3, <1>2, <1>5 DEF Choice, FanOps, VoltOps
  <2>4. CASE \E c \in VfCurves : Begin(p, "curve", c, "card")
    BY <2>4, <1>2, <1>5 DEF Choice, FanOps, VoltOps
  <2>5. CASE Begin(p, "reset", Unset, "card")
    BY <2>5, <1>2, <1>4, <1>5
  <2>6. CASE Begin(p, "apply", Unset, "load")
    BY <2>6, <1>1, <1>4, <1>5
  <2> QED
    BY <1>6, <2>1, <2>2, <2>3, <2>4, <2>5, <2>6 DEF CliCommand
<1>7. CASE GuiCommand(p)
  <2>1. CASE \E f \in Fans : Begin(p, "guiFan", f, "load")
    BY <2>1, <1>1, <1>5 DEF Choice, FanOps
  <2>2. CASE \E v \in Offsets : Begin(p, "guiVolt", v, "load")
    BY <2>2, <1>1, <1>5 DEF Choice, FanOps, VoltOps
  <2>3. CASE \E c \in VfCurves : Begin(p, "guiCurve", c, "load")
    BY <2>3, <1>1, <1>5 DEF Choice, FanOps, VoltOps
  <2> QED
    BY <1>7, <2>1, <2>2, <2>3 DEF GuiCommand
<1> QED
  BY <1>6, <1>7

LEMMA MachineTypes ==
  ASSUME WinAssumption, TypeInv, DriverUp \/ DriverReset \/ PowerCycle
  PROVE  TypeInv'
<1> USE DEF TypeInv
<1>1. CASE DriverUp
  BY <1>1, SameJobs, SameService DEF DriverUp, TypeOK
<1>2. CASE DriverReset
  <2>1. gen' \in [Cards -> Nat] /\ card' \in [Cards -> CardState]
    BY <1>2 DEF DriverReset, TypeOK, Untouched, CardState
  <2>2. history' \in [unannounced : BOOLEAN, saved : File, commands : Nat, resets : Nat,
                      asked : [Keys -> SUBSET Fans]]
    BY <1>2 DEF DriverReset, TypeOK
  <2> QED
    BY <1>2, <2>1, <2>2, SameJobs, SameService DEF DriverReset, TypeOK
<1>3. CASE PowerCycle
  <2>1. card' \in [Cards -> CardState]
    BY <1>3 DEF PowerCycle, Untouched, CardState
  <2>2. history' \in [unannounced : BOOLEAN, saved : File, commands : Nat, resets : Nat,
                      asked : [Keys -> SUBSET Fans]]
    BY <1>3 DEF PowerCycle, TypeOK
  <2>3. svc' \in Service /\ ServiceOK(svc)'
    <3>1. svc' = Off
      BY <1>3 DEF PowerCycle
    <3> QED
      BY <3>1, OffType DEF Off, ServiceOK, Applying
  <2>4. job' \in [Programs -> Job] /\ \A q \in Programs : JobOK(job[q])'
    <3>1. job' = [q \in Programs |-> Idle]
      BY <1>3 DEF PowerCycle
    <3> QED
      BY <3>1, IdleType DEF JobOK
  <2> QED
    BY <1>3, <2>1, <2>2, <2>3, <2>4 DEF PowerCycle, TypeOK
<1> QED
  BY <1>1, <1>2, <1>3

LEMMA NextTypes ==
  ASSUME WinAssumption, TypeInv, [Next]_vars
  PROVE  TypeInv'
<1>1. CASE UNCHANGED vars
  BY <1>1, SameJobs, SameService DEF vars, TypeInv, TypeOK
<1>2. ASSUME NEW p \in CLIs, CliCommand(p) PROVE TypeInv'
  BY <1>2, CommandTypes DEF Programs
<1>3. ASSUME NEW p \in GUIs, GuiCommand(p) PROVE TypeInv'
  BY <1>3, CommandTypes DEF Programs
<1> QED
  BY <1>1, <1>2, <1>3, ServiceTypes, JobTypes, MachineTypes DEF Next

LEMMA TypesHold == Spec => []TypeInv
<1>1. Init => TypeInv
  BY InitTypes, WinAssumption
<1>2. TypeInv /\ [Next]_vars => TypeInv'
  BY NextTypes, WinAssumption
<1> QED
  BY <1>1, <1>2, PTL DEF Spec

(* Every variable keeps its type: in particular a file holds profiles only, *)
(* and the fan handle of the service is that of an adapter.                 *)
THEOREM TypeCorrect == Spec => []TypeOK
<1>1. TypeInv => TypeOK
  BY DEF TypeInv
<1> QED
  BY <1>1, TypesHold, PTL
-----------------------------------------------------------------------------
(* Nudges.  From the read of the file on, and not only while it rests, the  *)
(* service works from the file as it is, or knows better, or will be told.  *)
Loaded == svc.pc \in {"next", "fan", "volt", "curve", "end", "wait"} /\ svc.ok

NudgeInv == Loaded /\ ~event /\ ~OnItsWay /\ ~history.unannounced => svc.cfg = file

(* A program that has nothing to announce before and after it moves leaves  *)
(* the announcements of the others                                          *)
LEMMA QuietStep ==
  ASSUME TypeInv, NudgeInv, NEW p \in Programs, NEW j \in Job, job' = [job EXCEPT ![p] = j],
         job[p].pc \notin {"write", "nudge"},
         UNCHANGED <<file, event, svc>>, history'.unannounced = history.unannounced
  PROVE  NudgeInv'
<1>1. job \in [Programs -> Job]
  BY DEF TypeInv, TypeOK
<1>2. ASSUME OnItsWay PROVE OnItsWay'
  <2>1. PICK q \in GUIs : job[q].pc \in {"write", "nudge"}
    BY <1>2 DEF OnItsWay
  <2>2. q \in Programs /\ q # p
    BY <2>1 DEF Programs
  <2>3. job'[q] = job[q]
    BY <1>1, <2>2
  <2> QED
    BY <2>1, <2>3 DEF OnItsWay
<1> QED
  BY <1>2 DEF NudgeInv, Loaded

(* The service's step keeps the invariant *)
LEMMA ServiceNudges ==
  ASSUME WinAssumption, TypeInv, NudgeInv, ServiceStep \/ StopService
  PROVE  NudgeInv'
<1>s. svc \in Service /\ job' = job
  BY DEF TypeInv, TypeOK, ServiceStep, StartService, LoadProfiles, NextAdapter, ServiceFan,
         ServiceVolt, ServiceCurve, EndPass, WakeUp, Timeout, StopService
<1>w. OnItsWay' = OnItsWay
  BY <1>s DEF OnItsWay
<1>1. CASE StartService
  BY <1>1 DEF StartService, Off, NudgeInv, Loaded
<1>2. CASE LoadProfiles
  BY <1>2, <1>s DEF LoadProfiles, NudgeInv, Loaded, Service
<1>3. CASE NextAdapter \/ ServiceFan \/ ServiceVolt \/ ServiceCurve \/ EndPass
  <2>1. /\ svc'.cfg = svc.cfg
        /\ svc'.ok => svc.ok
        /\ svc.pc \in {"next", "fan", "volt", "curve", "end"}
        /\ UNCHANGED <<file, event, history>>
    <3>1. CASE NextAdapter
      BY <3>1, <1>s DEF NextAdapter, Service
    <3>2. CASE ServiceFan
      BY <3>2, <1>s DEF ServiceFan, Service
    <3>3. CASE ServiceVolt \/ ServiceCurve \/ EndPass
      BY <3>3, <1>s DEF ServiceVolt, ServiceCurve, EndPass, Service
    <3> QED
      BY <1>3, <3>1, <3>2, <3>3
  <2> QED
    BY <2>1, <1>w DEF NudgeInv, Loaded
<1>4. CASE WakeUp \/ Timeout
  BY <1>4, <1>s DEF WakeUp, Timeout, NudgeInv, Loaded, Service
<1>5. CASE StopService
  BY <1>5 DEF StopService, Off, NudgeInv, Loaded
<1> QED
  BY <1>1, <1>2, <1>3, <1>4, <1>5 DEF ServiceStep

(* A program's step keeps the invariant: a GUI that rewrites the file has   *)
(* its nudge before it, the command line leaves its mark.                   *)
LEMMA JobNudges ==
  ASSUME WinAssumption, TypeInv, NudgeInv, NEW p \in Programs, JobStep(p)
  PROVE  NudgeInv'
<1>s. TypeOK /\ job \in [Programs -> Job] /\ job[p] \in Job
  BY DEF TypeInv, TypeOK
<1>t. TypeInv'
  BY JobTypes
<1>u. job'[p] \in Job
  BY <1>t DEF TypeInv, TypeOK
<1>1. CASE LoadProfile(p) \/ WriteCard(p) \/ Apply(p) \/ ReadAll(p)
  <2>1. /\ job[p].pc \notin {"write", "nudge"}
        /\ UNCHANGED <<file, event, svc, history>>
    BY <1>1 DEF LoadProfile, WriteCard, Apply, ApplySetting, ReadAll
  <2>2. job' = [job EXCEPT ![p] = job'[p]]
    <3>1. CASE LoadProfile(p)
      BY <3>1, <1>s DEF LoadProfile
    <3>2. CASE WriteCard(p)
      BY <3>2, <1>s DEF WriteCard
    <3>3. CASE Apply(p)
      BY <3>3, <1>s DEF Apply, ApplySetting
    <3>4. CASE ReadAll(p)
      BY <3>4, <1>s DEF ReadAll
    <3> QED
      BY <1>1, <3>1, <3>2, <3>3, <3>4
  <2> QED
    BY <1>u, <2>1, <2>2, QuietStep
<1>2. CASE Truncate(p) \/ WriteAll(p)
  <2>1. CASE p \in GUIs
    <3>1. job'[p].pc \in {"write", "nudge"}
      BY <1>2, <2>1, <1>s DEF Truncate, WriteAll, Announced, Job
    <3> QED
      BY <2>1, <3>1 DEF NudgeInv, OnItsWay
  <2>2. CASE p \notin GUIs
    <3>1. history'.unannounced
      BY <1>2, <2>2, <1>s DEF Truncate, WriteAll, Announced, TypeOK
    <3> QED
      BY <3>1 DEF NudgeInv
  <2> QED
    BY <2>1, <2>2
<1>3. CASE Nudge(p)
  BY <1>3 DEF Nudge, NudgeInv, Loaded, Running
<1> QED
  BY <1>1, <1>2, <1>3 DEF JobStep

LEMMA NextNudges ==
  ASSUME WinAssumption, TypeInv, NudgeInv, [Next]_vars
  PROVE  NudgeInv'
<1>1. CASE UNCHANGED vars \/ DriverUp \/ DriverReset
  <2>1. UNCHANGED <<file, event, svc, job>> /\ history'.unannounced = history.unannounced
    BY <1>1 DEF vars, DriverUp, DriverReset, TypeInv, TypeOK
  <2> QED
    BY <2>1 DEF NudgeInv, Loaded, OnItsWay
<1>2. ASSUME NEW p \in Programs, CliCommand(p) \/ GuiCommand(p) PROVE NudgeInv'
  <2>1. PICK op, val, first : Begin(p, op, val, first)
    BY <1>2 DEF CliCommand, GuiCommand
  <2>2. /\ job[p].pc = "idle"
        /\ UNCHANGED <<file, event, svc>>
        /\ history'.unannounced = history.unannounced
        /\ \E j : job' = [job EXCEPT ![p] = j]
    BY <2>1 DEF Begin, TypeInv, TypeOK
  <2>3. job'[p] \in Job /\ job' = [job EXCEPT ![p] = job'[p]]
    <3>1. TypeInv'
      BY <1>2, CommandTypes
    <3> QED
      BY <2>2, <3>1 DEF TypeInv, TypeOK
  <2> QED
    BY <2>2, <2>3, QuietStep
<1>3. CASE PowerCycle
  BY <1>3 DEF PowerCycle, Off, NudgeInv, Loaded
<1>4. ASSUME NEW p \in CLIs, CliCommand(p) PROVE NudgeInv'
  BY <1>2, <1>4 DEF Programs
<1>5. ASSUME NEW p \in GUIs, GuiCommand(p) PROVE NudgeInv'
  BY <1>2, <1>5 DEF Programs
<1> QED
  BY <1>1, <1>3, <1>4, <1>5, ServiceNudges, JobNudges DEF Next

(* No nudge is lost: when the service rests after a pass that succeeded and *)
(* no signal is pending or on its way, a GUI's save has been applied.  What *)
(* makes it so is that the event is reset by the wait alone, before the     *)
(* file is read, and that the GUI signals after it has written.             *)
THEOREM NudgesKept == Spec => []NudgeNotLost
<1>1. Init => NudgeInv
  BY DEF Init, Off, NudgeInv, Loaded
<1>2. TypeInv /\ NudgeInv /\ [Next]_vars => NudgeInv'
  BY NextNudges, WinAssumption
<1>3. NudgeInv => NudgeNotLost
  BY DEF NudgeInv, NudgeNotLost, Loaded
<1> QED
  BY <1>1, <1>2, <1>3, TypesHold, PTL DEF Spec
-----------------------------------------------------------------------------
(* Fans.  Every profile that is read, kept or written holds for its key a   *)
(* fan setting asked for that key or as the default, and the fan handle is  *)
(* that of the adapter selected.                                            *)
Own(asked, k) == asked[k] \cup asked[Default] \cup {Unset}

FileOwn(asked, m) == \A k \in Keys : m[k] # Absent => m[k].fan \in Own(asked, k)

JobOwn(asked, j) ==
  /\ FileOwn(asked, j.all)
  /\ j.pc # "idle" => j.cfg.fan \in Own(asked, Key[j.card])
  /\ j.pc # "idle" /\ j.op \in FanOps => j.val \in asked[Key[j.card]]

OwnInv ==
  /\ FileOwn(history.asked, file)
  /\ FileOwn(history.asked, svc.cfg)
  /\ \A p \in Programs : JobOwn(history.asked, job[p])
  /\ svc.ctl.fan \in {None, svc.ctl.current}
  /\ OwnProfileOnly

AskedMore(asked, more) == \A k \in Keys : asked[k] \subseteq more[k]

(* What is own stays own when more is asked *)
LEMMA StillOwn ==
  ASSUME WinAssumption, NEW asked, NEW more, AskedMore(asked, more)
  PROVE  /\ \A m \in File : FileOwn(asked, m) => FileOwn(more, m)
         /\ \A j \in Job : /\ j.pc # "idle" => j.card \in Cards
                           /\ JobOwn(asked, j)
                           => JobOwn(more, j)
<1>1. \A k \in Keys : Own(asked, k) \subseteq Own(more, k)
  BY DEF WinAssumption, AskedMore, Own
<1>2. \A m \in File : FileOwn(asked, m) => FileOwn(more, m)
  BY <1>1 DEF FileOwn
<1>3. ASSUME NEW j \in Job, j.pc # "idle" => j.card \in Cards, JobOwn(asked, j)
      PROVE  JobOwn(more, j)
  <2>1. FileOwn(more, j.all)
    BY <1>2, <1>3 DEF JobOwn, Job
  <2>2. ASSUME j.pc # "idle" PROVE j.cfg.fan \in Own(more, Key[j.card])
    BY <1>1, <1>3, <2>2 DEF JobOwn, WinAssumption
  <2>3. ASSUME j.pc # "idle", j.op \in FanOps PROVE j.val \in more[Key[j.card]]
    BY <1>3, <2>3 DEF JobOwn, WinAssumption, AskedMore
  <2> QED
    BY <2>1, <2>2, <2>3 DEF JobOwn
<1> QED
  BY <1>2, <1>3

(* The profile found for a key is own to it, as is a missing one *)
LEMMA FindOwn ==
  ASSUME WinAssumption, NEW m \in File, FileOwn(history.asked, m), NEW k \in Keys
  PROVE  /\ Find(m, k) # Absent => Find(m, k).fan \in Own(history.asked, k)
         /\ LoadFor(m, k).fan \in Own(history.asked, k)
<1>1. Own(history.asked, Default) \subseteq Own(history.asked, k)
  BY DEF Own
<1>2. Find(m, k) # Absent => Find(m, k).fan \in Own(history.asked, k)
  BY <1>1 DEF Find, FileOwn, WinAssumption
<1>3. Blank.fan \in Own(history.asked, k)
  BY DEF Blank, Own
<1> QED
  BY <1>2, <1>3 DEF LoadFor

(* One program moves, and the file and the cards with it *)
LEMMA JobOwnStep ==
  ASSUME WinAssumption, TypeInv, OwnInv, AskedMore(history.asked, history'.asked),
         NEW p \in Programs, NEW j, job' = [job EXCEPT ![p] = j], JobOwn(history'.asked, j), svc' = svc,
         FileOwn(history'.asked, file'), OwnProfileOnly'
  PROVE  OwnInv'
<1>1. job \in [Programs -> Job] /\ svc \in Service
  BY DEF TypeInv, TypeOK
<1>2. ASSUME NEW q \in Programs PROVE JobOwn(history'.asked, job'[q])
  <2>1. CASE q = p
    BY <1>1, <2>1
  <2>2. CASE q # p
    <3>1. job'[q] = job[q] /\ job[q] \in Job /\ (job[q].pc # "idle" => job[q].card \in Cards)
      BY <1>1, <2>2 DEF TypeInv, JobOK
    <3>2. JobOwn(history.asked, job[q])
      BY DEF OwnInv
    <3> QED
      BY <3>1, <3>2, StillOwn
  <2> QED
    BY <2>1, <2>2
<1>3. FileOwn(history'.asked, svc'.cfg)
  BY <1>1, StillOwn DEF OwnInv, Service
<1> QED
  BY <1>2, <1>3 DEF OwnInv

LEMMA NoSectionsOwn ==
  ASSUME NEW asked
  PROVE  FileOwn(asked, NoSections)
  BY DEF FileOwn, NoSections

LEMMA IdleOwn ==
  ASSUME NEW asked
  PROVE  JobOwn(asked, Idle)
  BY NoSectionsOwn DEF JobOwn, Idle, FileOwn

LEMMA InitOwn ==
  ASSUME WinAssumption, Init
  PROVE  OwnInv
<1>1. FileOwn(history.asked, FirstFile)
  <2>1. ASSUME NEW k \in Keys, FirstFile[k] # Absent
        PROVE  FirstFile[k].fan \in Own(history.asked, k)
    <3>1. FirstFile[k].fan \in Fans \cup {Unset}
      BY <2>1 DEF WinAssumption, File, Profile
    <3>2. history.asked[k] = {FirstFile[k].fan} \cap Fans
      BY <2>1 DEF Init
    <3> QED
      BY <3>1, <3>2 DEF Own
  <2> QED
    BY <2>1 DEF FileOwn
<1>2. FileOwn(history.asked, svc.cfg) /\ svc.ctl.fan \in {None, svc.ctl.current}
  BY NoSectionsOwn DEF Init, Off, NoController
<1>3. \A p \in Programs : JobOwn(history.asked, job[p])
  BY IdleOwn DEF Init
<1>4. OwnProfileOnly
  BY DEF Init, OwnProfileOnly, Untouched
<1> QED
  BY <1>1, <1>2, <1>3, <1>4 DEF Init, OwnInv

(* The service: a profile found for the adapter selected goes to its fan    *)
LEMMA ServiceOwn ==
  ASSUME WinAssumption, TypeInv, OwnInv, ServiceStep \/ StopService
  PROVE  OwnInv'
<1>s. /\ svc \in Service /\ svc.ctl \in Handles /\ svc.cfg \in File
      /\ ServiceOK(svc)
      /\ card \in [Cards -> CardState]
  BY DEF TypeInv, TypeOK, Service
<1>u. /\ UNCHANGED <<file, job>>
      /\ history'.asked = history.asked
  BY DEF TypeInv, TypeOK, ServiceStep, StartService, LoadProfiles, NextAdapter, ServiceFan,
         ServiceVolt, ServiceCurve, EndPass, WakeUp, Timeout, StopService
<1>o. FileOwn(history'.asked, file') /\ \A p \in Programs : JobOwn(history'.asked, job'[p])
  BY <1>u DEF OwnInv
<1>c. ASSUME card' = card \/ \E c \in Cards : \E x : card' = [card EXCEPT ![c].vf = x]
      PROVE  OwnProfileOnly'
  BY <1>c, <1>s, <1>u DEF OwnInv, OwnProfileOnly, CardState
<1>k. ASSUME svc'.cfg = svc.cfg \/ svc'.cfg = file \/ svc'.cfg = NoSections
      PROVE  FileOwn(history'.asked, svc'.cfg)
  BY <1>k, <1>u, NoSectionsOwn DEF OwnInv
<1>1. CASE StartService \/ StopService
  <2>1. svc'.ctl \in {Controller, NoController} /\ svc'.cfg = NoSections /\ card' = card
    BY <1>1 DEF StartService, StopService, Off
  <2>2. svc'.ctl.fan \in {None, svc'.ctl.current}
    BY <2>1 DEF Controller, NoController
  <2> QED
    BY <2>1, <2>2, <1>o, <1>c, <1>k DEF OwnInv
<1>2. CASE LoadProfiles
  <2>1. svc'.ctl = svc.ctl /\ (svc'.cfg = svc.cfg \/ svc'.cfg = file) /\ card' = card
    BY <1>2, <1>s DEF LoadProfiles, Service
  <2> QED
    BY <2>1, <1>o, <1>c, <1>k DEF OwnInv
<1>3. CASE NextAdapter
  <2>1. svc'.cfg = svc.cfg /\ card' = card
        /\ (svc'.ctl = svc.ctl \/ \E c \in Cards : svc'.ctl = Select(svc.ctl, c))
    BY <1>3, <1>s DEF NextAdapter, Service
  <2>2. svc'.ctl.fan \in {None, svc'.ctl.current}
    BY <2>1, <1>s DEF Select, OwnInv, Handles
  <2> QED
    BY <2>1, <2>2, <1>o, <1>c, <1>k DEF OwnInv
<1>4. CASE ServiceFan
  <2> DEFINE to == FanHandle(svc.ctl)
  <2>1. to = svc.at /\ svc.at \in Cards /\ Key[svc.at] \in Keys /\ svc.ctl.current = svc.at
    BY <1>4, <1>s DEF ServiceFan, FanHandle, OwnInv, ServiceOK, Applying, WinAssumption
  <2>2. Wanted \in Profile /\ Wanted.fan \in Own(history.asked, Key[svc.at])
    <3>1. Wanted # Absent
      BY <1>4, <1>s DEF ServiceFan, ServiceOK, Applying, HasWork, Wanted
    <3> QED
      BY <2>1, <3>1, <1>s, FindOwn, FindType DEF Wanted, OwnInv
  <2>3. svc'.cfg = svc.cfg /\ svc'.ctl.fan \in {None, svc'.ctl.current}
    <3>1. CASE svc' = [svc EXCEPT !.pc = "volt", !.ctl.fan = to]
      BY <2>1, <3>1, <1>s DEF Service, Handles
    <3>2. CASE svc' = [svc EXCEPT !.pc = "volt"] \/ svc' = [svc EXCEPT !.pc = "volt", !.ok = FALSE]
      BY <3>2, <1>s DEF Service, OwnInv
    <3> QED
      BY <1>4, <3>1, <3>2 DEF ServiceFan
  <2>4. OwnProfileOnly'
    <3>1. CASE card' = card
      BY <3>1, <1>c
    <3>2. CASE Wanted.fan # Unset /\ card' = [card EXCEPT ![to].fan = Wanted.fan]
      BY <2>1, <2>2, <3>2, <1>s, <1>u DEF OwnInv, OwnProfileOnly, Own, CardState
    <3> QED
      BY <1>4, <3>1, <3>2 DEF ServiceFan
  <2> QED
    BY <2>3, <2>4, <1>o, <1>k DEF OwnInv
<1>5. CASE ServiceVolt \/ ServiceCurve
  <2>1. svc'.ctl = svc.ctl /\ svc'.cfg = svc.cfg
    BY <1>5, <1>s DEF ServiceVolt, ServiceCurve, Service
  <2>2. card' = card \/ \E c \in Cards : \E x : card' = [card EXCEPT ![c].vf = x]
    <3>1. svc.at \in Cards
      BY <1>5, <1>s DEF ServiceVolt, ServiceCurve, ServiceOK, Applying
    <3> QED
      BY <1>5, <3>1 DEF ServiceVolt, ServiceCurve, Volted
  <2> QED
    BY <2>1, <2>2, <1>o, <1>c, <1>k DEF OwnInv
<1>6. CASE EndPass
  <2>1. svc'.cfg = svc.cfg /\ card' = card /\ (svc'.ctl = svc.ctl \/ svc'.ctl = Controller)
    BY <1>6, <1>s DEF EndPass, Service
  <2> QED
    BY <2>1, <1>o, <1>c, <1>k DEF OwnInv, Controller
<1>7. CASE WakeUp \/ Timeout
  <2>1. svc'.cfg = svc.cfg /\ card' = card /\ svc'.ctl = svc.ctl
    BY <1>7, <1>s DEF WakeUp, Timeout, Service
  <2> QED
    BY <2>1, <1>o, <1>c, <1>k DEF OwnInv
<1> QED
  BY <1>1, <1>2, <1>3, <1>4, <1>5, <1>6, <1>7 DEF ServiceStep

(* A program: what it loads, reads and writes is own to its section         *)
LEMMA ProgramOwn ==
  ASSUME WinAssumption, TypeInv, OwnInv, NEW p \in Programs, JobStep(p)
  PROVE  OwnInv'
<1> DEFINE j == job[p]
<1>s. /\ TypeOK /\ job \in [Programs -> Job] /\ j \in Job /\ file \in File
      /\ card \in [Cards -> CardState]
      /\ JobOK(j) /\ JobOwn(history.asked, j)
      /\ j.pc # "idle" => j.card \in Cards /\ Section(p) \in Keys /\ Section(p) = Key[j.card]
  BY DEF TypeInv, TypeOK, OwnInv, JobOK, Section, WinAssumption
<1>u. svc' = svc /\ history'.asked = history.asked
  BY <1>s DEF TypeOK, JobStep, LoadProfile, WriteCard, Apply, ApplySetting, ReadAll, Truncate,
              WriteAll, Nudge
<1>a. AskedMore(history.asked, history'.asked)
  BY <1>u DEF AskedMore
<1>1. CASE LoadProfile(p)
  <2> DEFINE cfg == Edited(LoadFor(file, Section(p)), j.op, j.val)
             n   == [j EXCEPT !.pc = AfterLoad(j.op), !.cfg = cfg]
  <2>1. cfg.fan \in Own(history.asked, Section(p))
    <3>1. LoadFor(file, Section(p)).fan \in Own(history.asked, Section(p))
      BY <1>1, <1>s, FindOwn DEF LoadProfile, OwnInv
    <3>2. j.op \in FanOps => j.val \in Own(history.asked, Section(p))
      BY <1>1, <1>s DEF LoadProfile, JobOwn, Own
    <3> QED
      BY <3>1, <3>2 DEF Edited
  <2>2. job' = [job EXCEPT ![p] = n]
    BY <1>1, <1>s DEF LoadProfile
  <2> HIDE DEF cfg
  <2>3. JobOwn(history.asked, n)
    BY <1>1, <1>s, <1>u, <2>1 DEF LoadProfile, JobOwn, Job
  <2>4. FileOwn(history'.asked, file') /\ OwnProfileOnly'
    BY <1>1, <1>u, <1>s DEF LoadProfile, OwnInv, OwnProfileOnly
  <2> QED
    BY <1>a, <1>u, <2>2, <2>3, <2>4, JobOwnStep
<1>2. CASE WriteCard(p)
  <2>1. PICK ok \in BOOLEAN : job' = [job EXCEPT ![p] = AfterCard(j, ok)]
    BY <1>2 DEF WriteCard
  <2>2. JobOwn(history.asked, AfterCard(j, ok))
    <3>1. CASE AfterCard(j, ok) = Idle
      BY <3>1, IdleOwn
    <3>2. CASE \E pc : AfterCard(j, ok) = [j EXCEPT !.pc = pc]
      BY <1>2, <3>2, <1>s DEF WriteCard, JobOwn, Job
    <3> QED
      BY <3>1, <3>2 DEF AfterCard
  <2>3. OwnProfileOnly'
    <3>1. CASE card' = card
      BY <3>1, <1>u DEF OwnInv, OwnProfileOnly
    <3>2. CASE card' = [card EXCEPT ![j.card] = Written(card[j.card], j.op, j.val)]
      <4>1. j.card \in Cards /\ card[j.card].fan \in {Stock} \cup history.asked[Key[j.card]]
                                                            \cup history.asked[Default]
        BY <1>2, <1>s DEF WriteCard, OwnInv, OwnProfileOnly
      <4>2. Written(card[j.card], j.op, j.val).fan
              \in {Stock} \cup history.asked[Key[j.card]] \cup history.asked[Default]
        BY <1>2, <4>1, <1>s DEF WriteCard, Written, JobOwn, FanOps
      <4> QED
        BY <3>2, <4>1, <4>2, <1>s, <1>u DEF OwnInv, OwnProfileOnly
    <3> QED
      BY <1>2, <3>1, <3>2 DEF WriteCard
  <2>4. FileOwn(history'.asked, file')
    BY <1>2, <1>u, <1>s DEF WriteCard, OwnInv
  <2> QED
    BY <1>a, <1>u, <2>1, <2>2, <2>3, <2>4, JobOwnStep
<1>3. CASE Apply(p)
  <2>1. /\ j.pc # "idle"
        /\ UNCHANGED file
        /\ \/ job' = [job EXCEPT ![p] = Idle]
           \/ \E pc : job' = [job EXCEPT ![p] = [j EXCEPT !.pc = pc]]
        /\ \/ card' = card
           \/ j.cfg.fan # Unset /\ card' = [card EXCEPT ![j.card].fan = j.cfg.fan]
           \/ \E x : card' = [card EXCEPT ![j.card].vf = x]
    BY <1>3 DEF Apply, ApplySetting
  <2>2. OwnProfileOnly'
    <3>1. j.card \in Cards /\ j.cfg.fan \in Own(history.asked, Key[j.card])
      BY <2>1, <1>s DEF JobOwn
    <3>2. CASE card' = card \/ \E x : card' = [card EXCEPT ![j.card].vf = x]
      <4>1. ASSUME NEW c \in Cards PROVE card'[c].fan = card[c].fan
        <5>1. CASE card' = card
          BY <5>1
        <5>2. CASE \E x : card' = [card EXCEPT ![j.card].vf = x]
          <6>1. PICK x : card' = [card EXCEPT ![j.card].vf = x]
            BY <5>2
          <6>2. card[c] \in CardState
            BY <1>s
          <6> QED
            BY <6>1, <6>2, <3>1, <1>s DEF CardState
        <5> QED
          BY <3>2, <5>1, <5>2
      <4> QED
        BY <4>1, <1>u DEF OwnInv, OwnProfileOnly
    <3>3. CASE j.cfg.fan # Unset /\ card' = [card EXCEPT ![j.card].fan = j.cfg.fan]
      BY <3>1, <3>3, <1>s, <1>u DEF OwnInv, OwnProfileOnly, CardState, Own
    <3> QED
      BY <2>1, <3>2, <3>3
  <2>3. FileOwn(history'.asked, file')
    BY <2>1, <1>u, <1>s DEF OwnInv
  <2>4. CASE job' = [job EXCEPT ![p] = Idle]
    BY <2>4, <1>a, <1>u, <2>2, <2>3, IdleType, IdleOwn, JobOwnStep
  <2>5. CASE \E pc : job' = [job EXCEPT ![p] = [j EXCEPT !.pc = pc]]
    <3>1. PICK pc : job' = [job EXCEPT ![p] = [j EXCEPT !.pc = pc]]
      BY <2>5
    <3>2. JobOwn(history.asked, [j EXCEPT !.pc = pc])
      BY <2>1, <1>s, <1>u DEF JobOwn, Job
    <3> QED
      BY <3>1, <3>2, <1>a, <1>u, <2>2, <2>3, JobOwnStep
  <2> QED
    BY <2>1, <2>4, <2>5
<1>4. CASE ReadAll(p)
  <2> DEFINE all == [file EXCEPT ![Section(p)] = j.cfg]
             n   == [j EXCEPT !.pc = "truncate", !.all = all]
  <2>1. FileOwn(history.asked, all)
    BY <1>4, <1>s DEF ReadAll, OwnInv, JobOwn, FileOwn, File
  <2>2. job' = [job EXCEPT ![p] = n]
    BY <1>4, <1>s DEF ReadAll
  <2> HIDE DEF all
  <2>3. JobOwn(history.asked, n)
    BY <1>4, <1>s, <1>u, <2>1 DEF ReadAll, JobOwn, Job
  <2>4. FileOwn(history'.asked, file') /\ OwnProfileOnly'
    BY <1>4, <1>u, <1>s DEF ReadAll, OwnInv, OwnProfileOnly
  <2> QED
    BY <1>a, <1>u, <2>2, <2>3, <2>4, JobOwnStep
<1>5. CASE Truncate(p) \/ WriteAll(p)
  <2>1. FileOwn(history'.asked, file')
    <3>1. file' = NoSections \/ file' = j.all
      BY <1>5 DEF Truncate, WriteAll
    <3> QED
      BY <3>1, <1>s, <1>u, NoSectionsOwn DEF JobOwn
  <2>2. OwnProfileOnly'
    BY <1>5, <1>u DEF Truncate, WriteAll, OwnInv, OwnProfileOnly
  <2>3. \E i : job' = [job EXCEPT ![p] = i] /\ (i = Idle \/ \E pc : i = [j EXCEPT !.pc = pc])
    BY <1>5, <1>s DEF Truncate, WriteAll
  <2>4. PICK i : job' = [job EXCEPT ![p] = i] /\ (i = Idle \/ \E pc : i = [j EXCEPT !.pc = pc])
    BY <2>3
  <2>5. JobOwn(history.asked, i)
    <3>1. CASE i = Idle
      BY <3>1, IdleOwn
    <3>2. CASE \E pc : i = [j EXCEPT !.pc = pc]
      BY <1>5, <3>2, <1>s, <1>u DEF Truncate, WriteAll, JobOwn, Job
    <3> QED
      BY <2>4, <3>1, <3>2
  <2> QED
    BY <1>a, <1>u, <2>1, <2>2, <2>4, <2>5, JobOwnStep
<1>6. CASE Nudge(p)
  <2>1. FileOwn(history'.asked, file') /\ OwnProfileOnly'
    BY <1>6, <1>u, <1>s DEF Nudge, OwnInv, OwnProfileOnly
  <2> QED
    BY <1>6, <2>1, <1>a, <1>u, IdleType, IdleOwn, JobOwnStep DEF Nudge
<1> QED
  BY <1>1, <1>2, <1>3, <1>4, <1>5, <1>6 DEF JobStep

LEMMA NextOwn ==
  ASSUME WinAssumption, TypeInv, OwnInv, [Next]_vars
  PROVE  OwnInv'
<1>s. /\ history.asked \in [Keys -> SUBSET Fans] /\ job \in [Programs -> Job]
      /\ card \in [Cards -> CardState] /\ file \in File
  BY DEF TypeInv, TypeOK
<1>1. CASE UNCHANGED vars \/ DriverUp
  BY <1>1 DEF vars, DriverUp, OwnInv, OwnProfileOnly
<1>2. ASSUME NEW p \in Programs, CliCommand(p) \/ GuiCommand(p) PROVE OwnInv'
  <2>1. PICK op, val, first :
          /\ Begin(p, op, val, first)
          /\ first # "idle"
          /\ op \in FanOps => val \in Fans
    BY <1>2 DEF CliCommand, GuiCommand, FanOps
  <2>2. PICK c \in up :
          /\ job' = [job EXCEPT ![p] = [Idle EXCEPT !.pc = first, !.op = op, !.card = c,
                                                    !.val = val]]
          /\ history' = [history EXCEPT !.commands = @ + 1,
                                        !.asked[Key[c]] = @ \cup ({val} \cap Fans)]
    BY <2>1 DEF Begin
  <2> DEFINE n == [Idle EXCEPT !.pc = first, !.op = op, !.card = c, !.val = val]
  <2>3. c \in Cards /\ Key[c] \in Keys
    BY DEF TypeInv, TypeOK, WinAssumption
  <2>4. history'.asked = [history.asked EXCEPT ![Key[c]] = @ \cup ({val} \cap Fans)]
    BY <2>2 DEF TypeInv, TypeOK
  <2>5. AskedMore(history.asked, history'.asked)
    BY <2>3, <2>4, <1>s DEF AskedMore
  <2>6. JobOwn(history'.asked, n)
    <3>1. FileOwn(history'.asked, n.all)
      BY NoSectionsOwn DEF Idle
    <3>2. n.cfg.fan \in Own(history'.asked, Key[n.card])
      BY DEF Idle, Blank, Own
    <3>3. n.op \in FanOps => n.val \in history'.asked[Key[n.card]]
      BY <2>1, <2>3, <2>4, <1>s DEF Idle
    <3> QED
      BY <3>1, <3>2, <3>3 DEF JobOwn
  <2>7. FileOwn(history'.asked, file') /\ svc' = svc
    BY <2>1, <2>5, <1>s, StillOwn DEF Begin, OwnInv
  <2>8. OwnProfileOnly'
    BY <2>1, <2>5 DEF Begin, OwnInv, OwnProfileOnly, AskedMore, WinAssumption
  <2> QED
    BY <2>2, <2>5, <2>6, <2>7, <2>8, JobOwnStep
<1>3. CASE DriverReset
  <2>1. UNCHANGED <<file, svc, job>> /\ history'.asked = history.asked
    BY <1>3 DEF DriverReset, TypeInv, TypeOK
  <2>2. OwnProfileOnly'
    BY <1>3, <2>1, <1>s DEF DriverReset, OwnInv, OwnProfileOnly, Untouched
  <2> QED
    BY <2>1, <2>2 DEF OwnInv
<1>4. CASE PowerCycle
  <2>1. file' = file /\ history'.asked = history.asked
    BY <1>4 DEF PowerCycle, TypeInv, TypeOK
  <2>2. FileOwn(history'.asked, svc'.cfg) /\ svc'.ctl.fan \in {None, svc'.ctl.current}
    BY <1>4, NoSectionsOwn DEF PowerCycle, Off, NoController
  <2>3. \A p \in Programs : JobOwn(history'.asked, job'[p])
    BY <1>4, IdleOwn DEF PowerCycle
  <2>4. OwnProfileOnly'
    BY <1>4 DEF PowerCycle, OwnProfileOnly, Untouched
  <2> QED
    BY <2>1, <2>2, <2>3, <2>4 DEF OwnInv
<1>5. ASSUME NEW p \in CLIs, CliCommand(p) PROVE OwnInv'
  BY <1>2, <1>5 DEF Programs
<1>6. ASSUME NEW p \in GUIs, GuiCommand(p) PROVE OwnInv'
  BY <1>2, <1>6 DEF Programs
<1> QED
  BY <1>1, <1>3, <1>4, <1>5, <1>6, ServiceOwn, ProgramOwn DEF Next

(* No card's fan follows what was asked for another card alone, however     *)
(* the programs and the service interleave, through stale copies of the     *)
(* file and the handle kept for the fan of the adapter selected.            *)
THEOREM OwnProfiles == Spec => []OwnProfileOnly
<1>1. Init => OwnInv
  BY InitOwn, WinAssumption
<1>2. TypeInv /\ OwnInv /\ [Next]_vars => OwnInv'
  BY NextOwn, WinAssumption
<1>3. OwnInv => OwnProfileOnly
  BY DEF OwnInv
<1> QED
  BY <1>1, <1>2, <1>3, TypesHold, PTL DEF Spec
=============================================================================
