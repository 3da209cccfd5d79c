---------------------------- MODULE OcBootProofs ----------------------------
(***************************************************************************)
(* Proofs about OcBoot, for a curve of any number of points and any stock   *)
(* curve within the limits, any knobs, users and choices, however often     *)
(* the service tries and the machine goes down.                             *)
(***************************************************************************)
EXTENDS OcBoot, SequenceTheorems, TLAPS

(* The steps of scripts and services, and what each of them carries         *)
Lists == UNION {[D -> Int] : D \in SUBSET Nat}

Steps == [op : ScriptOps \cup ServiceOps, key : Keys, val : Value, max : Int, curve : Lists]

Fits(k, v) == v \in Int \cup {Unset} \/ (k = "offset" /\ v = Custom)

StepTyped(s) ==
  /\ s.op = "offset" => s.val \in Int
  /\ s.op \in {"knob", "tryKnob", "bootKnob"} => s.key \in KnobKeys
  /\ s.op \in {"knob", "tryKnob"} => s.val \in Int
  /\ s.op = "bootKnob" => s.val \in Int \cup {Unset}
  /\ s.op = "append" => Fits(s.key, s.val)

(* A value that may be persisted once T has been taken by the card          *)
Granted(k, v, T) ==
  \/ v \in {Unset, Custom}
  \/ <<k, v>> \in {<<"offset", 0>>, <<"max", VMAX>>}
  \/ k \in DOMAIN StockKnob /\ v = StockKnob[k]
  \/ <<k, v>> \in T

(* What the card has taken when a step has succeeded                        *)
Gives(s) ==
  IF s.op = "offset" THEN {<<"offset", s.val>>, <<"max", s.max>>}
  ELSE IF s.op = "knob" THEN {<<s.key, s.val>>} ELSE {}

(* Whatever a script has still to persist, a step before gives              *)
Backed(q, T) ==
  \A i \in 1..Len(q) : q[i].op = "append" =>
    \/ Granted(q[i].key, q[i].val, T)
    \/ \E j \in 1..(i - 1) : <<q[i].key, q[i].val>> \in Gives(q[j])

Script(q, T) ==
  /\ q \in Seq(Steps)
  /\ \A i \in 1..Len(q) : StepTyped(q[i])
  /\ Backed(q, T)

Plainly(q) == \A i \in 1..Len(q) : q[i].op \in ScriptOps

(* What the service has left of its own steps                               *)
OwnTodo ==
  {<<Do("dropMarker"), Do("moveConf")>>, <<Do("moveConf")>>,
   <<Do("arm"), Do("source")>>, <<Do("source")>>}

Sourcing == {<<Do("arm"), Do("source")>>, <<Do("source")>>}

FileTyped(f) == f # NoFile => f \in [Keys -> Value] /\ \A k \in Keys : Fits(k, f[k])

FileGranted(f, T) == f # NoFile => \A k \in Keys : Granted(k, f[k], T)

HistoryTyped(h) ==
  h \in [chosen : Settings, sure : BOOLEAN, stopped : BOOLEAN, blamed : BOOLEAN,
         torn : BOOLEAN, taken : SUBSET (Keys \X Value),
         vain : SUBSET ({"offset", "max"} \X Value), commands : Int, boots : Int]

(* What may be persisted: the card has taken it, or an offset was applied   *)
(* from an empty stock file.                                                *)
Given(h) == h.taken \cup h.vain

(* The inductive invariant: types, scripts, files, and the service's state  *)
StateInv ==
  /\ card \in Settings
  /\ stock \in Listing \cup {NoFile} /\ applied \in Listing \cup {NoFile}
  /\ marker \in BOOLEAN /\ ready \in BOOLEAN
  /\ svc \in [state : {"waiting", "trying", "active", "failed"}, tries : 0..MaxTries]
  /\ session \in [armed : BOOLEAN, confirmed : BOOLEAN, stopping : BOOLEAN, late : BOOLEAN]
  /\ HistoryTyped(history)

ScriptInv ==
  /\ todo \in [Actors -> Seq(Steps)]
  /\ \A a \in Actors : Script(todo[a], Given(history))
  /\ \A u \in Users : Plainly(todo[u])
  /\ Plainly(todo[Svc]) \/ todo[Svc] \in OwnTodo
  /\ todo[Svc] \in Sourcing => conf # NoFile

FileInv ==
  /\ FileTyped(conf) /\ FileTyped(tmp)
  /\ FileGranted(conf, Given(history)) /\ FileGranted(tmp, Given(history))

(* The service has tries left while it waits or tries, and tries while it   *)
(* runs a script, unless it runs that of a shutdown.                        *)
SvcInv ==
  /\ svc.state \in {"waiting", "trying"} => svc.tries < MaxTries
  /\ todo[Svc] # <<>> /\ ~session.stopping => svc.state = "trying"

IInv == StateInv /\ ScriptInv /\ FileInv /\ SvcInv

(* For the watchdog: an armed boot leaves its marker until it is confirmed  *)
(* or blamed, and who is to be blamed finds the marker.                     *)
Disarming == At(Svc, "moveConf")
BlameInv ==
  /\ session.armed /\ ~session.confirmed => marker \/ Disarming \/ history.torn
  /\ history.blamed /\ ~history.torn =>
       (marker \/ Disarming) /\ ~At(Svc, "arm")
-----------------------------------------------------------------------------
LEMMA MachineFacts ==
  /\ Svc \notin Users /\ Svc \in Actors /\ Users \subseteq Actors
  /\ Actors \ {Svc} = Users
  /\ MaxTries \in Nat /\ MaxTries > 0
  /\ OC_VF_NPTS \in Nat /\ OC_VF_NPTS >= 1
  /\ VMIN \in Int /\ VMAX \in Int /\ VMIN <= VMAX
BY MachineAssumption, PointsAssumption, VoltageAssumption DEF Actors

LEMMA KeyFacts ==
  /\ KnobKeys \subseteq Keys /\ {"offset", "max"} \subseteq Keys
  /\ "offset" \notin KnobKeys /\ "max" \notin KnobKeys
  /\ DOMAIN StockKnob = KnobKeys /\ \A k \in KnobKeys : StockKnob[k] \in Int
  /\ \A i \in DOMAIN Knobs : Knobs[i] \in KnobKeys
  /\ DOMAIN Knobs = 1..Len(Knobs) /\ Len(Knobs) \in Nat
BY KnobAssumption DEF Keys, KnobKeys

LEMMA EmptyFacts == Empty \in Lists /\ DOMAIN Empty = {}
<1>1. DOMAIN Empty = {}
  BY DEF Empty
<1>2. Empty \in [{} -> Int]
  BY DEF Empty
<1>3. QED
  BY <1>1, <1>2 DEF Lists

LEMMA ClampFacts == \A v \in Int : Clamp(v, VMAX) \in VMIN..VMAX
BY MachineFacts DEF Clamp

(* A store of integers leaves a curve within the limits                     *)
LEMMA StoreTyped ==
  ASSUME NEW c \in [Points -> VMIN..VMAX], NEW f,
         \A p \in DOMAIN f : f[p] \in Int
  PROVE  Store(c, f) \in [Points -> VMIN..VMAX]
BY ClampFacts DEF Store

LEMMA ListFacts == \A f \in Lists : \A p \in DOMAIN f : f[p] \in Int
BY DEF Lists

LEMMA ListingFacts ==
  \A f \in Listing : \A p \in DOMAIN f : f[p] \in Int
<1>1. SUFFICES ASSUME NEW f \in Listing
               PROVE  \A p \in DOMAIN f : f[p] \in Int
  OBVIOUS
<1>2. PICK n \in 0..OC_VF_NPTS : f \in [1..n -> VMIN..VMAX]
  BY DEF Listing
<1>3. QED
  BY <1>2, MachineFacts

LEMMA ShiftedFacts ==
  ASSUME NEW f \in Listing, NEW o \in Int, NEW hi \in Int
  PROVE  \A p \in DOMAIN Shifted(f, o, hi) : Shifted(f, o, hi)[p] \in Int
BY ListingFacts, MachineFacts DEF Shifted, Clamp

LEMMA ColdTyped == Cold \in Settings
BY VoltageAssumption, KnobAssumption DEF Cold, Settings

LEMMA SettingsFacts ==
  ASSUME NEW s \in Settings
  PROVE  /\ s.curve \in [Points -> VMIN..VMAX]
         /\ s.knob \in [KnobKeys -> Int]
         /\ \A c \in [Points -> VMIN..VMAX] : [s EXCEPT !.curve = c] \in Settings
         /\ \A k \in KnobKeys, v \in Int : [s EXCEPT !.knob[k] = v] \in Settings
BY DEF Settings
-----------------------------------------------------------------------------
(* Single steps, and sequences of them                                      *)
LEMMA PlainFacts ==
  /\ \A op \in ScriptOps \cup ServiceOps : Do(op) \in Steps /\ Do(op).op = op
  /\ \A o \in Int, hi \in Int :
       /\ ApplyOffset(o, hi) \in Steps /\ ApplyOffset(o, hi).op = "offset"
       /\ ApplyOffset(o, hi).val = o /\ ApplyOffset(o, hi).max = hi
  /\ \A c \in Lists : WriteCurve(c) \in Steps /\ WriteCurve(c).op = "curve"
  /\ \A op \in ScriptOps \cup ServiceOps, k \in Keys, v \in Value :
       /\ KnobStep(op, k, v) \in Steps
       /\ KnobStep(op, k, v).op = op /\ KnobStep(op, k, v).key = k
       /\ KnobStep(op, k, v).val = v
<1>1. /\ Plain \in [op : {"none"}, key : Keys, val : Value, max : Int, curve : Lists]
      /\ Plain.max = VMAX
  <2>1. Empty \in Lists /\ VMAX \in Int /\ "offset" \in Keys /\ 0 \in Value
    BY EmptyFacts, MachineFacts, KeyFacts DEF Value
  <2>2. Plain = [op |-> "none", key |-> "offset", val |-> 0, max |-> VMAX, curve |-> Empty]
    BY DEF Plain
  <2>3. QED
    BY <2>1, <2>2
<1>2. "offset" \in ScriptOps /\ "curve" \in ScriptOps /\ Int \subseteq Value
  BY DEF ScriptOps, Value
<1>3. QED
  BY <1>1, <1>2 DEF Do, ApplyOffset, WriteCurve, KnobStep, Steps

LEMMA EmptyScript ==
  ASSUME NEW T
  PROVE  Script(<<>>, T) /\ Plainly(<<>>)
BY DEF Script, Backed, Plainly

LEMMA GrownScript ==
  ASSUME NEW T, NEW U, T \subseteq U, NEW q, Script(q, T)
  PROVE  Script(q, U)
<1>1. \A k, v : Granted(k, v, T) => Granted(k, v, U)
  BY DEF Granted
<1>2. QED
  BY <1>1 DEF Script, Backed

(* Whatever is given has been taken when the step is done                   *)
LEMMA TailScript ==
  ASSUME NEW T, NEW U, T \subseteq U, NEW q, Script(q, T), q # <<>>,
         Gives(Head(q)) \subseteq U
  PROVE  /\ Script(Tail(q), U)
         /\ Plainly(q) => Plainly(Tail(q))
<1>1. /\ Tail(q) \in Seq(Steps) /\ Len(q) \in Nat /\ Len(q) >= 1 /\ Len(Tail(q)) = Len(q) - 1
      /\ Head(q) = q[1] /\ \A i \in 1..Len(Tail(q)) : Tail(q)[i] = q[i + 1]
      /\ \A i \in 1..Len(Tail(q)) : i + 1 \in 1..Len(q)
  <2>1. q \in Seq(Steps)
    BY DEF Script
  <2>2. QED
    BY <2>1, HeadTailProperties
<1>2. \A k, v : Granted(k, v, T) => Granted(k, v, U)
  BY DEF Granted
<1>3. ASSUME NEW i \in 1..Len(Tail(q)), Tail(q)[i].op = "append"
      PROVE  \/ Granted(Tail(q)[i].key, Tail(q)[i].val, U)
             \/ \E j \in 1..(i - 1) : <<Tail(q)[i].key, Tail(q)[i].val>> \in Gives(Tail(q)[j])
  <2> DEFINE k == Tail(q)[i].key
             v == Tail(q)[i].val
  <2>1. k = q[i + 1].key /\ v = q[i + 1].val /\ q[i + 1].op = "append" /\ i + 1 \in 1..Len(q)
    BY <1>1, <1>3
  <2> HIDE DEF k, v
  <2>2. CASE Granted(k, v, T)
    BY <1>2, <2>2 DEF k, v
  <2>3. CASE \E j \in 1..i : <<k, v>> \in Gives(q[j])
    <3>1. PICK j \in 1..i : <<k, v>> \in Gives(q[j])
      BY <2>3
    <3>2. CASE j = 1
      BY <1>1, <3>1, <3>2 DEF Granted, k, v
    <3>3. CASE j # 1
      <4>1. j - 1 \in 1..(i - 1) /\ Tail(q)[j - 1] = q[j]
        BY <1>1, <1>3, <3>3
      <4>2. QED
        BY <3>1, <4>1 DEF k, v
    <3>4. QED
      BY <3>2, <3>3
  <2>4. Granted(k, v, T) \/ \E j \in 1..i : <<k, v>> \in Gives(q[j])
    <3>1. (i + 1) - 1 = i
      BY <1>3
    <3>2. QED
      BY <2>1, <3>1 DEF Script, Backed
  <2>5. QED
    BY <2>2, <2>3, <2>4
<1>4. Backed(Tail(q), U)
  BY <1>3 DEF Backed
<1>5. \A i \in 1..Len(Tail(q)) : StepTyped(Tail(q)[i])
  BY <1>1 DEF Script
<1>6. QED
  BY <1>1, <1>4, <1>5 DEF Script, Plainly

(* Two scripts one after the other: the second may count on what a step of  *)
(* the first gives.                                                         *)
LEMMA JoinedScript ==
  ASSUME NEW T, NEW q, NEW r, NEW U, Script(q, T), Script(r, U),
         U = T \/ \E j \in 1..Len(q) : U = T \cup Gives(q[j])
  PROVE  /\ Script(q \o r, T)
         /\ Plainly(q) /\ Plainly(r) => Plainly(q \o r)
         /\ \A i \in 1..Len(q) : i \in 1..Len(q \o r) /\ (q \o r)[i] = q[i]
<1>1. /\ q \in Seq(Steps) /\ r \in Seq(Steps) /\ Len(q) \in Nat /\ Len(r) \in Nat
  BY DEF Script
<1>2. /\ q \o r \in Seq(Steps) /\ Len(q \o r) = Len(q) + Len(r)
      /\ \A i \in 1..Len(q) : i \in 1..Len(q \o r) /\ (q \o r)[i] = q[i]
      /\ \A i \in 1..Len(q \o r) : i > Len(q) => i - Len(q) \in 1..Len(r) /\ (q \o r)[i] = r[i - Len(q)]
  BY <1>1
<1>3. \A i \in 1..Len(q \o r) : i \in 1..Len(q) \/ i > Len(q)
  BY <1>1, <1>2
<1>4. ASSUME NEW i \in 1..Len(q \o r), (q \o r)[i].op = "append"
      PROVE  \/ Granted((q \o r)[i].key, (q \o r)[i].val, T)
             \/ \E j \in 1..(i - 1) : <<(q \o r)[i].key, (q \o r)[i].val>> \in Gives((q \o r)[j])
  <2>1. CASE i \in 1..Len(q)
    <3>1. (q \o r)[i] = q[i] /\ \A j \in 1..(i - 1) : (q \o r)[j] = q[j]
      BY <1>1, <1>2, <2>1
    <3>2. \/ Granted(q[i].key, q[i].val, T)
          \/ \E j \in 1..(i - 1) : <<q[i].key, q[i].val>> \in Gives(q[j])
      BY <1>4, <2>1, <3>1 DEF Script, Backed
    <3>3. QED
      BY <3>1, <3>2
  <2>2. CASE i > Len(q)
    <3> DEFINE n == i - Len(q)
    <3>1. n \in 1..Len(r) /\ (q \o r)[i] = r[n]
      BY <1>2, <2>2
    <3>2. /\ \A j \in 1..(n - 1) : Len(q) + j \in 1..(i - 1) /\ (q \o r)[Len(q) + j] = r[j]
          /\ \A j \in 1..Len(q) : j \in 1..(i - 1) /\ (q \o r)[j] = q[j]
      BY <1>1, <1>2, <2>2
    <3> HIDE DEF n
    <3>4. \/ Granted(r[n].key, r[n].val, U)
          \/ \E j \in 1..(n - 1) : <<r[n].key, r[n].val>> \in Gives(r[j])
      BY <1>4, <3>1 DEF Script, Backed
    <3>5. CASE Granted(r[n].key, r[n].val, U)
      <4>1. \/ Granted(r[n].key, r[n].val, T)
            \/ \E j \in 1..Len(q) : <<r[n].key, r[n].val>> \in Gives(q[j])
        BY <3>5 DEF Granted
      <4>2. QED
        BY <3>1, <3>2, <4>1
    <3>6. CASE \E j \in 1..(n - 1) : <<r[n].key, r[n].val>> \in Gives(r[j])
      BY <3>1, <3>2, <3>6
    <3>7. QED
      BY <3>4, <3>5, <3>6
  <2>3. QED
    BY <1>3, <2>1, <2>2
<1>5. Backed(q \o r, T)
  BY <1>4 DEF Backed
<1>6. \A i \in 1..Len(q \o r) : StepTyped((q \o r)[i])
  BY <1>2, <1>3 DEF Script
<1>7. Plainly(q) /\ Plainly(r) => Plainly(q \o r)
  BY <1>2, <1>3 DEF Plainly
<1>8. QED
  BY <1>2, <1>5, <1>6, <1>7 DEF Script

LEMMA BackedJoin ==
  ASSUME NEW T, NEW q, NEW r, Script(q, T), Plainly(q), Plainly(r),
         NEW j \in 1..Len(q), Script(r, T \cup Gives(q[j]))
  PROVE  /\ Script(q \o r, T) /\ Plainly(q \o r)
         /\ j \in 1..Len(q \o r) /\ (q \o r)[j] = q[j]
<1> DEFINE U == T \cup Gives(q[j])
<1>1. Script(r, U) /\ \E i \in 1..Len(q) : U = T \cup Gives(q[i])
  OBVIOUS
<1> HIDE DEF U
<1>2. QED
  BY <1>1, JoinedScript

LEMMA PlainJoin ==
  ASSUME NEW T, NEW q, NEW r, Script(q, T), Plainly(q), Script(r, T), Plainly(r)
  PROVE  Script(q \o r, T) /\ Plainly(q \o r)
BY JoinedScript

LEMMA StepScript ==
  ASSUME NEW T, NEW s \in Steps, StepTyped(s),
         s.op = "append" => Granted(s.key, s.val, T)
  PROVE  /\ Script(<<s>>, T)
         /\ s.op \in ScriptOps => Plainly(<<s>>)
BY DEF Script, Backed, Plainly

(* Steps that carry nothing *)
LEMMA DoScript ==
  ASSUME NEW T, NEW op \in ScriptOps \cup ServiceOps,
         op \notin {"offset", "knob", "tryKnob", "bootKnob", "append"}
  PROVE  /\ Script(<<Do(op)>>, T)
         /\ op \in ScriptOps => Plainly(<<Do(op)>>)
<1>1. Do(op) \in Steps /\ Do(op).op = op
  BY PlainFacts
<1>2. StepTyped(Do(op))
  BY <1>1 DEF StepTyped
<1>3. QED
  BY <1>1, <1>2, StepScript

LEMMA PersistScript ==
  ASSUME NEW T, NEW k \in Keys, NEW v \in Value, Fits(k, v), Granted(k, v, T)
  PROVE  Script(Persist(k, v), T) /\ Plainly(Persist(k, v))
<1> DEFINE x == KnobStep("grep", k, v)
           y == KnobStep("append", k, v)
           z == KnobStep("move", k, v)
<1>1. "grep" \in ScriptOps /\ "append" \in ScriptOps /\ "move" \in ScriptOps
  BY DEF ScriptOps
<1>2. /\ x \in Steps /\ y \in Steps /\ z \in Steps
      /\ x.op = "grep" /\ y.op = "append" /\ y.key = k /\ y.val = v /\ z.op = "move"
  BY <1>1, PlainFacts
<1>3. Persist(k, v) = <<x, y, z>>
  BY DEF Persist
<1> HIDE DEF x, y, z
<1>4. StepTyped(x) /\ StepTyped(y) /\ StepTyped(z)
  BY <1>2 DEF StepTyped
<1>5. Persist(k, v) \in Seq(Steps) /\ Len(Persist(k, v)) = 3
  BY <1>2, <1>3
<1>6. \A i \in 1..3 : Persist(k, v)[i] \in {x, y, z}
  BY <1>3
<1>7. QED
  BY <1>1, <1>2, <1>4, <1>5, <1>6 DEF Script, Backed, Plainly

LEMMA OffsetScriptGood ==
  ASSUME NEW T, NEW o \in Int, NEW hi \in Int
  PROVE  Script(OffsetScript(o, hi), T) /\ Plainly(OffsetScript(o, hi))
<1> DEFINE x == Do("saveStock")
           y == ApplyOffset(o, hi)
           z == Do("dropApplied")
           first == <<x, y, z>>
           saved == first \o Persist("offset", o)
<1>1. /\ x \in Steps /\ y \in Steps /\ z \in Steps
      /\ x.op = "saveStock" /\ z.op = "dropApplied"
      /\ y.op = "offset" /\ y.val = o /\ y.max = hi
  BY PlainFacts DEF ScriptOps
<1>2. OffsetScript(o, hi) = saved \o Persist("max", hi)
  BY DEF OffsetScript
<1>3. Gives(y) = {<<"offset", o>>, <<"max", hi>>}
  BY <1>1 DEF Gives
<1> HIDE DEF x, y, z
<1>4. first \in Seq(Steps) /\ Len(first) = 3 /\ \A i \in 1..3 : first[i] \in {x, y, z}
  BY <1>1
<1>5. first[2] = y
  OBVIOUS
<1> HIDE DEF first
<1>6. Script(first, T) /\ Plainly(first)
  BY <1>1, <1>4 DEF Script, Backed, Plainly, StepTyped, ScriptOps
<1>7. o \in Value /\ hi \in Value /\ Fits("offset", o) /\ Fits("max", hi)
  BY DEF Value, Fits
<1>8. Granted("offset", o, T \cup Gives(first[2])) /\ Granted("max", hi, T \cup Gives(first[2]))
  BY <1>3, <1>5 DEF Granted
<1>9. /\ Script(Persist("offset", o), T \cup Gives(first[2])) /\ Plainly(Persist("offset", o))
      /\ Script(Persist("max", hi), T \cup Gives(first[2])) /\ Plainly(Persist("max", hi))
  BY <1>7, <1>8, PersistScript, KeyFacts
<1>10. 2 \in 1..Len(first)
  BY <1>4
<1>11. /\ Script(saved, T) /\ Plainly(saved)
       /\ 2 \in 1..Len(saved) /\ saved[2] = first[2]
  BY <1>6, <1>9, <1>10, BackedJoin
<1> HIDE DEF saved
<1>12. QED
  BY <1>2, <1>9, <1>11, BackedJoin

LEMMA CurveScriptGood ==
  ASSUME NEW T, NEW c \in Lists
  PROVE  Script(CurveScript(c), T) /\ Plainly(CurveScript(c))
<1> DEFINE x == Do("saveStock")
           y == WriteCurve(c)
           z == Do("emptyApplied")
           w == Do("fillApplied")
           first == <<x, y, z, w>>
<1>1. /\ x \in Steps /\ y \in Steps /\ z \in Steps /\ w \in Steps
      /\ x.op = "saveStock" /\ y.op = "curve" /\ z.op = "emptyApplied" /\ w.op = "fillApplied"
  BY PlainFacts DEF ScriptOps
<1>2. /\ Valid(c) => CurveScript(c) = first \o Persist("offset", Custom)
      /\ ~Valid(c) => CurveScript(c) = <<x>>
  <2>1. <<x>> \o (<<y, z, w>> \o Persist("offset", Custom)) = first \o Persist("offset", Custom)
    OBVIOUS
  <2>2. <<x>> \o <<>> = <<x>>
    OBVIOUS
  <2> HIDE DEF x, y, z, w
  <2>3. QED
    BY <2>1, <2>2 DEF CurveScript, x, y, z, w
<1> HIDE DEF x, y, z, w
<1>3. first \in Seq(Steps) /\ Len(first) = 4 /\ \A i \in 1..4 : first[i] \in {x, y, z, w}
  BY <1>1
<1> HIDE DEF first
<1>4. Script(first, T) /\ Plainly(first)
  BY <1>1, <1>3 DEF Script, Backed, Plainly, StepTyped, ScriptOps
<1>5. Custom \in Value /\ Fits("offset", Custom) /\ Granted("offset", Custom, T)
  BY DEF Value, Fits, Granted
<1>6. CASE Valid(c)
  BY <1>2, <1>4, <1>5, <1>6, PersistScript, PlainJoin, KeyFacts
<1>7. CASE ~Valid(c)
  <2>1. StepTyped(x) /\ x.op \in ScriptOps
    BY <1>1 DEF StepTyped, ScriptOps
  <2>2. QED
    BY <1>1, <1>2, <1>7, <2>1, StepScript
<1>8. QED
  BY <1>6, <1>7

LEMMA KnobScriptGood ==
  ASSUME NEW T, NEW k \in KnobKeys, NEW v \in Int
  PROVE  Script(KnobScript(k, v), T) /\ Plainly(KnobScript(k, v))
<1> DEFINE x == KnobStep("knob", k, v)
           first == <<x>>
<1>1. k \in Keys /\ v \in Value /\ Fits(k, v) /\ "knob" \in ScriptOps
  BY KeyFacts DEF Value, Fits, ScriptOps
<1>2. x \in Steps /\ x.op = "knob" /\ x.key = k /\ x.val = v
  BY <1>1, PlainFacts
<1>3. KnobScript(k, v) = first \o Persist(k, v)
  BY DEF KnobScript
<1> HIDE DEF x
<1>4. StepTyped(x)
  BY <1>2 DEF StepTyped
<1>5. Script(first, T) /\ Plainly(first)
  BY <1>1, <1>2, <1>4, StepScript
<1>6. 1 \in 1..Len(first)
  OBVIOUS
<1>10. first[1] = x
  OBVIOUS
<1> HIDE DEF first
<1>7. Granted(k, v, T \cup Gives(first[1]))
  BY <1>2, <1>10 DEF Granted, Gives
<1>8. Script(Persist(k, v), T \cup Gives(first[1])) /\ Plainly(Persist(k, v))
  BY <1>1, <1>7, PersistScript
<1>9. Script(first \o Persist(k, v), T) /\ Plainly(first \o Persist(k, v))
  BY <1>5, <1>6, <1>8, BackedJoin
<1>11. QED
  BY <1>3, <1>9

LEMMA StockKnobsGood ==
  ASSUME NEW T
  PROVE  Script(PersistStockKnobs, T) /\ Plainly(PersistStockKnobs)
<1> DEFINE n == 3 * Len(Knobs)
           K(j) == Knobs[(j + 2) \div 3]
           M(j) == ((j - 1) % 3) + 1
<1>1. n \in Nat /\ \A j \in 1..n : (j + 2) \div 3 \in 1..Len(Knobs)
  BY KeyFacts
<1>2. \A j \in 1..n : K(j) \in KnobKeys /\ M(j) \in 1..3
  BY <1>1, KeyFacts
<1>3. \A j \in 1..n : PersistStockKnobs[j] = Persist(K(j), StockKnob[K(j)])[M(j)]
  BY DEF PersistStockKnobs
<1>4. DOMAIN PersistStockKnobs = 1..n
  BY DEF PersistStockKnobs
<1> HIDE DEF n, K, M
<1>5. ASSUME NEW j \in 1..n
      PROVE  LET s == PersistStockKnobs[j]
             IN /\ s \in Steps /\ StepTyped(s) /\ s.op \in ScriptOps
                /\ s.op = "append" => Granted(s.key, s.val, T)
  <2> DEFINE k == K(j)
             v == StockKnob[k]
             s == PersistStockKnobs[j]
  <2>1. k \in Keys /\ k \in KnobKeys /\ v \in Int /\ v \in Value /\ Fits(k, v)
    BY <1>2, KeyFacts DEF Value, Fits
  <2>2. Granted(k, v, T)
    BY <2>1, KeyFacts DEF Granted
  <2>3. s \in {KnobStep("grep", k, v), KnobStep("append", k, v), KnobStep("move", k, v)}
    <3>1. s = Persist(k, v)[M(j)] /\ (M(j) = 1 \/ M(j) = 2 \/ M(j) = 3)
      BY <1>2, <1>3
    <3> HIDE DEF k, v, s
    <3>2. QED
      BY <3>1 DEF Persist
  <2>4. /\ "grep" \in ScriptOps /\ "append" \in ScriptOps /\ "move" \in ScriptOps
    BY DEF ScriptOps
  <2> HIDE DEF k, v
  <2>5. /\ s \in Steps /\ s.op \in {"grep", "append", "move"} /\ s.key = k /\ s.val = v
    BY <2>1, <2>3, <2>4, PlainFacts
  <2> HIDE DEF s
  <2>6. /\ s \in Steps /\ StepTyped(s) /\ s.op \in ScriptOps
        /\ s.op = "append" => Granted(s.key, s.val, T)
    BY <2>1, <2>2, <2>4, <2>5 DEF StepTyped
  <2>7. QED
    BY <2>6 DEF s
<1>6. PersistStockKnobs \in [1..n -> Steps]
  BY <1>4, <1>5 DEF PersistStockKnobs, n
<1>7. PersistStockKnobs \in Seq(Steps) /\ Len(PersistStockKnobs) = n
  BY <1>1, <1>6
<1>8. QED
  BY <1>5, <1>7 DEF Script, Backed, Plainly

LEMMA TryKnobsGood ==
  ASSUME NEW T
  PROVE  LET q == [i \in DOMAIN Knobs |-> KnobStep("tryKnob", Knobs[i], StockKnob[Knobs[i]])]
         IN Script(q, T) /\ Plainly(q)
<1> DEFINE q == [i \in DOMAIN Knobs |-> KnobStep("tryKnob", Knobs[i], StockKnob[Knobs[i]])]
<1>1. "tryKnob" \in ScriptOps
  BY DEF ScriptOps
<1>2. ASSUME NEW i \in 1..Len(Knobs)
      PROVE  q[i] \in Steps /\ StepTyped(q[i]) /\ q[i].op = "tryKnob"
  <2> DEFINE k == Knobs[i]
  <2>1. k \in KnobKeys /\ k \in Keys /\ StockKnob[k] \in Int /\ StockKnob[k] \in Value
    BY KeyFacts DEF Value
  <2>2. q[i] = KnobStep("tryKnob", k, StockKnob[k])
    BY KeyFacts
  <2> HIDE DEF q, k
  <2>3. /\ q[i] \in Steps /\ q[i].op = "tryKnob" /\ q[i].key = k /\ q[i].val = StockKnob[k]
    BY <1>1, <2>1, <2>2, PlainFacts
  <2>4. QED
    BY <2>1, <2>3 DEF StepTyped
<1>3. q \in [1..Len(Knobs) -> Steps]
  BY <1>2, KeyFacts
<1>4. q \in Seq(Steps) /\ Len(q) = Len(Knobs)
  BY <1>3, KeyFacts
<1> HIDE DEF q
<1>5. Script(q, T) /\ Plainly(q)
  BY <1>1, <1>2, <1>4 DEF Script, Backed, Plainly
<1>6. QED
  BY <1>5 DEF q

LEMMA ResetScriptGood ==
  ASSUME NEW T
  PROVE  Script(ResetScript, T) /\ Plainly(ResetScript)
<1> DEFINE tries == [i \in DOMAIN Knobs |-> KnobStep("tryKnob", Knobs[i], StockKnob[Knobs[i]])]
           a == <<Do("catStock")>>
           b == a \o tries
           c == b \o <<Do("dropApplied")>>
           d == c \o Persist("offset", 0)
           e == d \o Persist("max", VMAX)
<1>1. ResetScript = e \o PersistStockKnobs
  BY DEF ResetScript
<1>2. Script(tries, T) /\ Plainly(tries)
  BY TryKnobsGood
<1> HIDE DEF tries
<1>3. /\ Script(<<Do("catStock")>>, T) /\ Plainly(<<Do("catStock")>>)
      /\ Script(<<Do("dropApplied")>>, T) /\ Plainly(<<Do("dropApplied")>>)
  BY DoScript DEF ScriptOps
<1>4. 0 \in Value /\ VMAX \in Value /\ Fits("offset", 0) /\ Fits("max", VMAX)
  BY MachineFacts DEF Value, Fits
<1>5. Granted("offset", 0, T) /\ Granted("max", VMAX, T)
  BY DEF Granted
<1>6. /\ Script(Persist("offset", 0), T) /\ Plainly(Persist("offset", 0))
      /\ Script(Persist("max", VMAX), T) /\ Plainly(Persist("max", VMAX))
  BY <1>4, <1>5, PersistScript, KeyFacts
<1>7. Script(b, T) /\ Plainly(b)
  BY <1>2, <1>3, PlainJoin
<1> HIDE DEF b
<1>8. Script(c, T) /\ Plainly(c)
  BY <1>3, <1>7, PlainJoin
<1> HIDE DEF c
<1>9. Script(d, T) /\ Plainly(d)
  BY <1>6, <1>8, PlainJoin
<1> HIDE DEF d
<1>10. Script(e, T) /\ Plainly(e)
  BY <1>6, <1>9, PlainJoin
<1> HIDE DEF e
<1>11. QED
  BY <1>1, <1>10, StockKnobsGood, PlainJoin

(* What cmd_boot makes of the conf *)
LEMMA BootScriptGood ==
  ASSUME NEW T, FileTyped(conf), conf # NoFile
  PROVE  Script(BootScript, T) /\ Plainly(BootScript)
<1>1. Script(BootCurve, T) /\ Plainly(BootCurve)
  <2> DEFINE v == ValueOr("offset", 0)
             hi == ValueOr("max", VMAX)
  <2>1. v \in Int \cup {Custom} /\ hi \in Int
    BY KeyFacts, MachineFacts DEF ValueOr, FileTyped, Fits
  <2>2. BootCurve \in {<<>>, <<Do("catApplied")>>, <<ApplyOffset(v, hi)>>}
    BY DEF BootCurve
  <2>3. v = Custom => BootCurve \in {<<>>, <<Do("catApplied")>>}
    BY DEF BootCurve
  <2> HIDE DEF v, hi
  <2>4. CASE BootCurve = <<>>
    BY <2>4, EmptyScript
  <2>5. CASE BootCurve = <<Do("catApplied")>>
    BY <2>5, DoScript DEF ScriptOps
  <2>6. CASE v # Custom /\ BootCurve = <<ApplyOffset(v, hi)>>
    <3>1. ApplyOffset(v, hi) \in Steps /\ ApplyOffset(v, hi).op = "offset" /\ ApplyOffset(v, hi).val = v
      BY <2>1, <2>6, PlainFacts
    <3>2. StepTyped(ApplyOffset(v, hi))
      BY <2>1, <2>6, <3>1 DEF StepTyped
    <3>3. QED
      BY <2>6, <3>1, <3>2, StepScript DEF ScriptOps
  <2>7. QED
    BY <2>2, <2>3, <2>4, <2>5, <2>6
<1>2. Script(BootKnobs, T) /\ Plainly(BootKnobs)
  <2>1. "bootKnob" \in ScriptOps
    BY DEF ScriptOps
  <2>2. ASSUME NEW i \in 1..Len(Knobs)
        PROVE  BootKnobs[i] \in Steps /\ StepTyped(BootKnobs[i]) /\ BootKnobs[i].op = "bootKnob"
    <3> DEFINE k == Knobs[i]
    <3>1. k \in KnobKeys /\ k \in Keys /\ k # "offset"
      BY KeyFacts
    <3>2. BootKnobs[i] = KnobStep("bootKnob", k, conf[k])
      BY KeyFacts DEF BootKnobs
    <3>3. conf[k] \in Value /\ conf[k] \in Int \cup {Unset}
      BY <3>1 DEF FileTyped, Fits
    <3> HIDE DEF k
    <3>4. /\ BootKnobs[i] \in Steps /\ BootKnobs[i].op = "bootKnob"
          /\ BootKnobs[i].key = k /\ BootKnobs[i].val = conf[k]
      BY <2>1, <3>1, <3>2, <3>3, PlainFacts
    <3>5. QED
      BY <3>1, <3>3, <3>4 DEF StepTyped
  <2>3. BootKnobs \in [1..Len(Knobs) -> Steps]
    BY <2>2, KeyFacts DEF BootKnobs
  <2>4. BootKnobs \in Seq(Steps) /\ Len(BootKnobs) = Len(Knobs)
    BY <2>3, KeyFacts
  <2>5. QED
    BY <2>1, <2>2, <2>4 DEF Script, Backed, Plainly
<1>3. QED
  BY <1>1, <1>2, PlainJoin, EmptyScript DEF BootScript
-----------------------------------------------------------------------------
(* The frame of a script's step: what it leaves alone                       *)
Framed(a) ==
  /\ marker' = marker /\ session' = session /\ ready' = ready
  /\ history'.blamed = history.blamed /\ history'.torn = history.torn
  /\ \A b \in Actors \ {a} : todo'[b] = todo[b]
  /\ Plainly(todo'[a])

LEMMA OwnFacts ==
  ASSUME NEW q \in OwnTodo
  PROVE  /\ ~Plainly(q) /\ q # <<>> /\ Len(q) >= 1 /\ Head(q).op \in ServiceOps
         /\ Head(q).op = "dropMarker" => Tail(q) = <<Do("moveConf")>> /\ q \notin Sourcing
         /\ Head(q).op = "moveConf" => Tail(q) = <<>> /\ q \notin Sourcing
         /\ Head(q).op = "arm" => Tail(q) = <<Do("source")>> /\ q \in Sourcing
         /\ Head(q).op = "source" => Tail(q) = <<>> /\ q \in Sourcing
<1> DEFINE m == Do("moveConf")
           d == Do("dropMarker")
           r == Do("arm")
           s == Do("source")
<1>1. /\ m.op = "moveConf" /\ d.op = "dropMarker" /\ r.op = "arm" /\ s.op = "source"
      /\ m.op \in ServiceOps /\ d.op \in ServiceOps /\ r.op \in ServiceOps /\ s.op \in ServiceOps
  BY PlainFacts DEF ServiceOps
<1>2. q = <<d, m>> \/ q = <<m>> \/ q = <<r, s>> \/ q = <<s>>
  BY DEF OwnTodo
<1>3. q \in Sourcing <=> q = <<r, s>> \/ q = <<s>>
  BY DEF Sourcing
<1> HIDE DEF m, d, r, s
<1>4. Len(q) >= 1 /\ q # <<>> /\ Head(q) = q[1] /\ 1 \in 1..Len(q)
  BY <1>2
<1>5. CASE q = <<d, m>>
  <2>1. q[1] = d /\ Tail(q) = <<m>> /\ q # <<r, s>> /\ q # <<s>>
    BY <1>1, <1>5
  <2>2. QED
    BY <1>1, <1>3, <1>4, <2>1 DEF Plainly, ServiceOps, ScriptOps, m, d, r, s
<1>6. CASE q = <<m>>
  <2>1. q[1] = m /\ Tail(q) = <<>> /\ q # <<r, s>> /\ q # <<s>>
    BY <1>1, <1>6
  <2>2. QED
    BY <1>1, <1>3, <1>4, <2>1 DEF Plainly, ServiceOps, ScriptOps, m, d, r, s
<1>7. CASE q = <<r, s>>
  <2>1. q[1] = r /\ Tail(q) = <<s>>
    BY <1>7
  <2>2. QED
    BY <1>1, <1>3, <1>4, <1>7, <2>1 DEF Plainly, ServiceOps, ScriptOps, m, d, r, s
<1>8. CASE q = <<s>>
  <2>1. q[1] = s /\ Tail(q) = <<>>
    BY <1>8
  <2>2. QED
    BY <1>1, <1>3, <1>4, <1>8, <2>1 DEF Plainly, ServiceOps, ScriptOps, m, d, r, s
<1>9. QED
  BY <1>2, <1>5, <1>6, <1>7, <1>8

LEMMA OwnScript ==
  ASSUME NEW q \in OwnTodo, NEW T
  PROVE  Script(q, T)
<1>1. /\ Script(<<Do("moveConf")>>, T) /\ Script(<<Do("dropMarker")>>, T)
      /\ Script(<<Do("arm")>>, T) /\ Script(<<Do("source")>>, T)
  BY DoScript DEF ServiceOps
<1>2. /\ <<Do("dropMarker"), Do("moveConf")>> = <<Do("dropMarker")>> \o <<Do("moveConf")>>
      /\ <<Do("arm"), Do("source")>> = <<Do("arm")>> \o <<Do("source")>>
  OBVIOUS
<1>3. Script(<<Do("dropMarker"), Do("moveConf")>>, T) /\ Script(<<Do("arm"), Do("source")>>, T)
  BY <1>1, <1>2, JoinedScript
<1>4. QED
  BY <1>1, <1>3 DEF OwnTodo

LEMMA BusyFacts ==
  ASSUME ScriptInv, NEW a \in Actors, Busy(a)
  PROVE  /\ Script(todo[a], Given(history)) /\ todo[a] # <<>>
         /\ Head(todo[a]) \in Steps /\ StepTyped(Head(todo[a]))
         /\ Head(todo[a]).op \in ScriptOps => Plainly(todo[a])
         /\ Head(todo[a]).op = "append" =>
              Granted(Head(todo[a]).key, Head(todo[a]).val, Given(history))
<1>1. todo[a] # <<>> /\ Script(todo[a], Given(history)) /\ todo[a] \in Seq(Steps)
  BY DEF Busy, ScriptInv, Script
<1>2. Len(todo[a]) \in Nat /\ 1 \in 1..Len(todo[a]) /\ Head(todo[a]) = todo[a][1]
  BY <1>1
<1>3. Head(todo[a]) \in Steps /\ StepTyped(Head(todo[a]))
  BY <1>1, <1>2, HeadTailProperties DEF Script
<1>4. ScriptOps \cap ServiceOps = {}
  BY DEF ScriptOps, ServiceOps
<1>5. Head(todo[a]).op \in ScriptOps => Plainly(todo[a])
  <2>1. CASE a \in Users
    BY <2>1 DEF ScriptInv
  <2>2. CASE a = Svc
    BY <1>4, <2>2, OwnFacts DEF ScriptInv
  <2>3. QED
    BY <2>1, <2>2 DEF Actors
<1>6. ASSUME todo[a][1].op = "append"
      PROVE  Granted(todo[a][1].key, todo[a][1].val, Given(history))
  <2> DEFINE q == todo[a]
             T == Given(history)
  <2>1. Backed(q, T) /\ 1 \in 1..Len(q) /\ q[1].op = "append"
    BY <1>1, <1>2, <1>6 DEF Script
  <2> HIDE DEF q, T
  <2>2. \/ Granted(q[1].key, q[1].val, T)
        \/ \E j \in 1..(1 - 1) : <<q[1].key, q[1].val>> \in Gives(q[j])
    BY <2>1 DEF Backed
  <2>3. QED
    BY <2>2 DEF q, T
<1>7. QED
  BY <1>1, <1>2, <1>3, <1>5, <1>6

(* A script's list replaced by another one of script steps                  *)
LEMMA TodoStep ==
  ASSUME ScriptInv, NEW a \in Actors, NEW q,
         Given(history) \subseteq Given(history'),
         Script(q, Given(history')), Plainly(q),
         todo' = [todo EXCEPT ![a] = q],
         conf # NoFile => conf' # NoFile
  PROVE  ScriptInv' /\ Plainly(todo'[a]) /\ \A b \in Actors \ {a} : todo'[b] = todo[b]
<1>1. /\ todo' \in [Actors -> Seq(Steps)] /\ todo'[a] = q
      /\ \A b \in Actors \ {a} : todo'[b] = todo[b]
  BY DEF ScriptInv, Script
<1>2. \A b \in Actors : Script(todo'[b], Given(history'))
  BY <1>1, GrownScript DEF ScriptInv
<1>3. \A u \in Users : Plainly(todo'[u])
  BY <1>1, MachineFacts DEF ScriptInv
<1>4. Plainly(todo'[Svc]) \/ todo'[Svc] \in OwnTodo
  BY <1>1, MachineFacts DEF ScriptInv
<1>5. todo'[Svc] \in Sourcing => conf' # NoFile
  <2>1. CASE a = Svc
    <3>1. q \notin OwnTodo
      BY OwnFacts
    <3>2. QED
      BY <1>1, <2>1, <3>1 DEF OwnTodo, Sourcing
  <2>2. CASE a # Svc
    BY <1>1, <2>2, MachineFacts DEF ScriptInv
  <2>3. QED
    BY <2>1, <2>2
<1>6. QED
  BY <1>1, <1>2, <1>3, <1>4, <1>5 DEF ScriptInv

(* The step was done: the rest is left to do                                *)
LEMMA DoneStep ==
  ASSUME IInv, NEW a \in Actors, Busy(a), Head(todo[a]).op \in ScriptOps,
         todo' = [todo EXCEPT ![a] = Tail(@)],
         Given(history) \subseteq Given(history'),
         Gives(Head(todo[a])) \subseteq Given(history'),
         conf # NoFile => conf' # NoFile,
         UNCHANGED <<svc, session>>
  PROVE  /\ ScriptInv' /\ SvcInv'
         /\ Plainly(todo'[a]) /\ \A b \in Actors \ {a} : todo'[b] = todo[b]
<1>1. /\ Script(todo[a], Given(history)) /\ Plainly(todo[a]) /\ todo[a] # <<>>
  BY BusyFacts DEF IInv
<1>2. Script(Tail(todo[a]), Given(history')) /\ Plainly(Tail(todo[a]))
  BY <1>1, TailScript
<1>3. todo' = [todo EXCEPT ![a] = Tail(todo[a])]
  BY DEF IInv, ScriptInv
<1>4. ScriptInv' /\ Plainly(todo'[a]) /\ \A b \in Actors \ {a} : todo'[b] = todo[b]
  BY <1>2, <1>3, TodoStep DEF IInv
<1>5. todo'[Svc] # <<>> => todo[Svc] # <<>>
  BY <1>1, <1>4, MachineFacts
<1>6. SvcInv'
  BY <1>5 DEF IInv, SvcInv
<1>7. QED
  BY <1>4, <1>6

LEMMA AdvanceStep ==
  ASSUME IInv, NEW a \in Actors, Busy(a), Head(todo[a]).op \in ScriptOps \ {"offset", "knob"},
         Advance(a), conf # NoFile => conf' # NoFile, UNCHANGED session
  PROVE  /\ ScriptInv' /\ SvcInv' /\ history' = history /\ svc' = svc
         /\ Plainly(todo'[a]) /\ \A b \in Actors \ {a} : todo'[b] = todo[b]
<1>1. /\ todo' = [todo EXCEPT ![a] = Tail(@)] /\ svc' = svc /\ history' = history
  BY DEF Advance
<1>2. Gives(Head(todo[a])) = {}
  BY DEF Gives
<1>3. QED
  BY <1>1, <1>2, DoneStep

(* The step failed: nothing is left to do                                   *)
LEMMA AbortStep ==
  ASSUME IInv, NEW a \in Actors, Busy(a), Head(todo[a]).op \in ScriptOps,
         Abort(a), conf # NoFile => conf' # NoFile, UNCHANGED session
  PROVE  /\ ScriptInv' /\ SvcInv'
         /\ HistoryTyped(history') /\ Given(history') = Given(history)
         /\ history'.blamed = history.blamed /\ history'.torn = history.torn
         /\ svc' \in [state : {"waiting", "trying", "active", "failed"}, tries : 0..MaxTries]
         /\ Plainly(todo'[a]) /\ \A b \in Actors \ {a} : todo'[b] = todo[b]
<1>1. todo' = [todo EXCEPT ![a] = <<>>]
  BY DEF Abort
<1>2. /\ HistoryTyped(history') /\ Given(history') = Given(history)
      /\ history'.blamed = history.blamed /\ history'.torn = history.torn
  BY DEF Abort, IInv, StateInv, HistoryTyped, Given
<1>3. ScriptInv' /\ Plainly(todo'[a]) /\ \A b \in Actors \ {a} : todo'[b] = todo[b]
  BY <1>1, <1>2, EmptyScript, TodoStep DEF IInv
<1>4. todo'[a] = <<>>
  BY <1>1 DEF IInv, ScriptInv
<1>5. CASE a # Svc \/ session.stopping
  <2>1. svc' = svc
    BY <1>5 DEF Abort
  <2>2. a # Svc => todo'[Svc] = todo[Svc]
    BY <1>3, MachineFacts
  <2>3. SvcInv'
    BY <1>4, <1>5, <2>1, <2>2 DEF IInv, SvcInv
  <2>4. QED
    BY <1>2, <1>3, <2>1, <2>3 DEF IInv, StateInv
<1>6. CASE a = Svc /\ ~session.stopping
  <2>1. svc.state = "trying" /\ svc.tries < MaxTries /\ svc.tries \in 0..MaxTries
    BY <1>6 DEF IInv, SvcInv, StateInv, Busy
  <2>2. svc' = [state |-> IF svc.tries + 1 = MaxTries THEN "failed" ELSE "waiting",
                tries |-> svc.tries + 1]
    BY <1>6 DEF Abort
  <2>3. svc.tries + 1 \in 0..MaxTries
    BY <2>1, MachineFacts
  <2>4. svc' \in [state : {"waiting", "trying", "active", "failed"}, tries : 0..MaxTries]
    BY <2>2, <2>3
  <2>5. svc'.state \in {"waiting", "trying"} => svc'.tries < MaxTries
    BY <2>1, <2>2, MachineFacts
  <2>6. SvcInv'
    BY <1>4, <1>6, <2>5 DEF SvcInv
  <2>7. QED
    BY <1>2, <1>3, <2>4, <2>6
<1>7. QED
  BY <1>5, <1>6

LEMMA FilesKept ==
  ASSUME FileInv, conf' = conf, tmp' = tmp, Given(history) \subseteq Given(history')
  PROVE  FileInv'
<1>1. \A k, v : Granted(k, v, Given(history)) => Granted(k, v, Given(history'))
  BY DEF Granted
<1>2. QED
  BY <1>1 DEF FileInv, FileTyped, FileGranted
-----------------------------------------------------------------------------
(* Each step of a script keeps the invariant within its frame               *)
LEMMA CurveSet ==
  ASSUME IInv, NEW a \in Actors, NEW f, \A p \in DOMAIN f : f[p] \in Int,
         Busy(a), Head(todo[a]).op \in ScriptOps \ {"offset", "knob"}, SetCurve(a, f)
  PROVE  IInv' /\ Framed(a)
<1>1. conf' = conf /\ tmp' = tmp /\ stock' = stock /\ applied' = applied /\ marker' = marker
      /\ ready' = ready /\ session' = session
  BY DEF SetCurve, files
<1>2. card' \in Settings
  BY StoreTyped, SettingsFacts DEF SetCurve, IInv, StateInv
<1>3. CASE Advance(a)
  <2>1. /\ ScriptInv' /\ SvcInv' /\ history' = history /\ svc' = svc
        /\ Plainly(todo'[a]) /\ \A b \in Actors \ {a} : todo'[b] = todo[b]
    BY <1>1, <1>3, AdvanceStep
  <2>2. FileInv'
    BY <1>1, <2>1, FilesKept DEF IInv
  <2>3. QED
    BY <1>1, <1>2, <2>1, <2>2 DEF IInv, StateInv, Framed
<1>4. CASE Abort(a)
  <2>1. /\ ScriptInv' /\ SvcInv'
        /\ HistoryTyped(history') /\ Given(history') = Given(history)
        /\ history'.blamed = history.blamed /\ history'.torn = history.torn
        /\ svc' \in [state : {"waiting", "trying", "active", "failed"}, tries : 0..MaxTries]
        /\ Plainly(todo'[a]) /\ \A b \in Actors \ {a} : todo'[b] = todo[b]
    BY <1>1, <1>4, AbortStep
  <2>2. FileInv'
    BY <1>1, <2>1, FilesKept DEF IInv
  <2>3. QED
    BY <1>1, <1>2, <2>1, <2>2 DEF IInv, StateInv, Framed
<1>5. QED
  BY <1>3, <1>4 DEF SetCurve

LEMMA StockFacts ==
  ASSUME IInv
  PROVE  /\ stock # NoFile => stock \in Listing /\ \A p \in DOMAIN stock : stock[p] \in Int
         /\ applied # NoFile => applied \in Listing /\ \A p \in DOMAIN applied : applied[p] \in Int
         /\ \A p \in DOMAIN Empty : Empty[p] \in Int
BY ListingFacts, EmptyFacts DEF IInv, StateInv

LEMMA CurveSteps ==
  ASSUME IInv, NEW a \in Actors, WritePoints(a) \/ CatStock(a)
  PROVE  IInv' /\ Framed(a)
<1>1. CASE WritePoints(a)
  <2>1. Busy(a) /\ Head(todo[a]).op = "curve" /\ SetCurve(a, Head(todo[a]).curve)
    BY <1>1 DEF WritePoints, At, Arg
  <2>2. \A p \in DOMAIN Head(todo[a]).curve : Head(todo[a]).curve[p] \in Int
    BY <2>1, BusyFacts, ListFacts DEF IInv, Steps
  <2>3. QED
    BY <2>1, <2>2, CurveSet DEF ScriptOps
<1>2. CASE CatStock(a)
  <2>1. Busy(a) /\ Head(todo[a]).op = "catStock"
        /\ SetCurve(a, IF stock = NoFile THEN Empty ELSE stock)
    BY <1>2 DEF CatStock, At
  <2>2. CASE stock = NoFile
    BY <2>1, <2>2, CurveSet, StockFacts DEF ScriptOps
  <2>3. CASE stock # NoFile
    BY <2>1, <2>3, CurveSet, StockFacts DEF ScriptOps
  <2>4. QED
    BY <2>2, <2>3
<1>3. QED
  BY <1>1, <1>2

(* A step that leaves all but the script and the history as it is, failing  *)
LEMMA AbortedStep ==
  ASSUME IInv, NEW a \in Actors, Busy(a), Head(todo[a]).op \in ScriptOps,
         Abort(a), UNCHANGED <<card, conf, marker, ready, session>>,
         stock' \in Listing \cup {NoFile}, applied' \in Listing \cup {NoFile},
         tmp' = tmp
  PROVE  IInv' /\ Framed(a)
<1>1. /\ ScriptInv' /\ SvcInv'
      /\ HistoryTyped(history') /\ Given(history') = Given(history)
      /\ history'.blamed = history.blamed /\ history'.torn = history.torn
      /\ svc' \in [state : {"waiting", "trying", "active", "failed"}, tries : 0..MaxTries]
      /\ Plainly(todo'[a]) /\ \A b \in Actors \ {a} : todo'[b] = todo[b]
  BY AbortStep
<1>2. FileInv'
  BY <1>1, FilesKept DEF IInv
<1>3. QED
  BY <1>1, <1>2 DEF IInv, StateInv, Framed

(* ... and succeeding *)
LEMMA AdvancedStep ==
  ASSUME IInv, NEW a \in Actors, Busy(a), Head(todo[a]).op \in ScriptOps \ {"offset", "knob"},
         Advance(a), UNCHANGED <<card, conf, marker, ready, session>>,
         stock' \in Listing \cup {NoFile}, applied' \in Listing \cup {NoFile},
         tmp' = tmp
  PROVE  IInv' /\ Framed(a)
<1>1. /\ ScriptInv' /\ SvcInv' /\ history' = history /\ svc' = svc
      /\ Plainly(todo'[a]) /\ \A b \in Actors \ {a} : todo'[b] = todo[b]
  BY AdvanceStep
<1>2. FileInv'
  BY <1>1, FilesKept DEF IInv
<1>3. QED
  BY <1>1, <1>2 DEF IInv, StateInv, Framed

LEMMA CatAppliedStep ==
  ASSUME IInv, NEW a \in Actors, CatApplied(a)
  PROVE  IInv' /\ Framed(a)
<1>1. Busy(a) /\ Head(todo[a]).op = "catApplied"
  BY DEF CatApplied, At
<1>2. CASE applied # NoFile
  <2>1. SetCurve(a, applied)
    BY <1>2 DEF CatApplied
  <2>2. QED
    BY <1>1, <1>2, <2>1, CurveSet, StockFacts DEF ScriptOps
<1>3. CASE applied = NoFile
  <2>1. Abort(a) /\ UNCHANGED <<card, files, ready, session>>
    BY <1>3 DEF CatApplied
  <2>2. QED
    BY <1>1, <2>1, AbortedStep DEF ScriptOps, files, IInv, StateInv
<1>4. QED
  BY <1>2, <1>3

(* A step that gives values to be persisted                                 *)
LEMMA TakenStep ==
  ASSUME IInv, NEW a \in Actors, Busy(a), Head(todo[a]).op \in ScriptOps,
         NEW new \in SUBSET (Keys \X Value), Gives(Head(todo[a])) \subseteq new,
         todo' = [todo EXCEPT ![a] = Tail(@)],
         \/ history' = [history EXCEPT !.taken = @ \cup new]
         \/ new \subseteq {"offset", "max"} \X Value /\ history' = [history EXCEPT !.vain = @ \cup new],
         card' \in Settings, UNCHANGED <<svc, files, ready, session>>
  PROVE  IInv' /\ Framed(a)
<1>1. /\ HistoryTyped(history') /\ Given(history') = Given(history) \cup new
      /\ history'.blamed = history.blamed /\ history'.torn = history.torn
  BY DEF IInv, StateInv, HistoryTyped, Given
<1>2. UNCHANGED <<conf, tmp, stock, applied, marker>>
  BY DEF files
<1>3. /\ ScriptInv' /\ SvcInv'
      /\ Plainly(todo'[a]) /\ \A b \in Actors \ {a} : todo'[b] = todo[b]
  BY <1>1, <1>2, DoneStep
<1>4. FileInv'
  BY <1>1, <1>2, FilesKept DEF IInv
<1>5. QED
  BY <1>1, <1>2, <1>3, <1>4 DEF IInv, StateInv, Framed

LEMMA OffsetStep ==
  ASSUME IInv, NEW a \in Actors, WriteOffset(a)
  PROVE  IInv' /\ Framed(a)
<1> DEFINE s == Head(todo[a])
           new == {<<"offset", s.val>>, <<"max", s.max>>}
<1>1. Busy(a) /\ s.op = "offset" /\ s \in Steps /\ StepTyped(s)
  BY BusyFacts DEF WriteOffset, At, IInv
<1>2. s.val \in Int /\ s.max \in Int
  BY <1>1 DEF StepTyped, Steps
<1>3. s.op \in ScriptOps
  BY <1>1 DEF ScriptOps
<1>4. CASE /\ stock # NoFile
           /\ card' = [card EXCEPT !.curve = Store(@, Shifted(stock, Arg(a).val, Arg(a).max))]
           /\ todo' = [todo EXCEPT ![a] = Tail(@)]
           /\ LET given == {<<"offset", Arg(a).val>>, <<"max", Arg(a).max>>}
              IN history' = IF stock = Empty THEN [history EXCEPT !.vain = @ \cup given]
                            ELSE [history EXCEPT !.taken = @ \cup given]
           /\ UNCHANGED svc
  <2>1. card' \in Settings
    <3>1. \A p \in DOMAIN Shifted(stock, s.val, s.max) : Shifted(stock, s.val, s.max)[p] \in Int
      BY <1>2, <1>4, StockFacts, ShiftedFacts
    <3>2. Store(card.curve, Shifted(stock, s.val, s.max)) \in [Points -> VMIN..VMAX]
      BY <3>1, StoreTyped, SettingsFacts DEF IInv, StateInv
    <3>3. card' = [card EXCEPT !.curve = Store(card.curve, Shifted(stock, s.val, s.max))]
      BY <1>4 DEF IInv, StateInv, Settings, Arg
    <3>4. QED
      BY <3>2, <3>3, SettingsFacts DEF IInv, StateInv
  <2>2. \/ history' = [history EXCEPT !.taken = @ \cup new]
        \/ history' = [history EXCEPT !.vain = @ \cup new]
    BY <1>4 DEF Arg
  <2>3. new \in SUBSET (Keys \X Value) /\ new \subseteq {"offset", "max"} \X Value
    BY <1>2, KeyFacts DEF Value
  <2>4. Gives(s) \subseteq new
    BY <1>1 DEF Gives
  <2>5. UNCHANGED <<svc, files, ready, session>> /\ todo' = [todo EXCEPT ![a] = Tail(@)]
    BY <1>4 DEF WriteOffset
  <2> HIDE DEF new
  <2>6. QED
    BY <1>1, <1>3, <2>1, <2>2, <2>3, <2>4, <2>5, TakenStep
<1>5. CASE stock # Empty /\ card' = card /\ Abort(a)
  <2>1. UNCHANGED <<card, conf, tmp, stock, applied, marker, ready, session>>
    BY <1>5 DEF WriteOffset, files
  <2>2. QED
    BY <1>1, <1>3, <1>5, <2>1, AbortedStep DEF IInv, StateInv
<1>6. QED
  BY <1>4, <1>5 DEF WriteOffset

LEMMA TakeKnobStep ==
  ASSUME IInv, NEW a \in Actors, Busy(a), Head(todo[a]).op \in ScriptOps,
         Head(todo[a]).op \in {"knob", "tryKnob", "bootKnob"},
         Head(todo[a]).val \in Int, TakeKnob(a), UNCHANGED <<files, ready, session>>
  PROVE  IInv' /\ Framed(a)
<1> DEFINE s == Head(todo[a])
           new == {<<s.key, s.val>>}
<1>1. s.key \in KnobKeys /\ s.key \in Keys /\ s.val \in Int /\ s.val \in Value
  BY BusyFacts, KeyFacts DEF IInv, StepTyped, Steps
<1>2. card' \in Settings
  <2>1. card' = [card EXCEPT !.knob[s.key] = s.val]
    BY DEF TakeKnob, Arg
  <2>2. QED
    BY <1>1, <2>1, SettingsFacts DEF IInv, StateInv
<1>3. history' = [history EXCEPT !.taken = @ \cup new]
  BY DEF TakeKnob, Arg
<1>4. new \in SUBSET (Keys \X Value) /\ Gives(s) \subseteq new
  BY <1>1 DEF Gives
<1>5. UNCHANGED svc /\ todo' = [todo EXCEPT ![a] = Tail(@)]
  BY DEF TakeKnob
<1> HIDE DEF new
<1>6. QED
  BY <1>2, <1>3, <1>4, <1>5, TakenStep

LEMMA KnobSteps ==
  ASSUME IInv, NEW a \in Actors, WriteKnob(a) \/ WriteBootKnob(a) \/ TryKnob(a)
  PROVE  IInv' /\ Framed(a)
<1> DEFINE s == Head(todo[a])
<1>1. Busy(a) /\ s.op \in {"knob", "tryKnob", "bootKnob"} /\ s.op \in ScriptOps
  BY DEF WriteKnob, WriteBootKnob, TryKnob, At, ScriptOps
<1>2. StepTyped(s)
  BY <1>1, BusyFacts DEF IInv
<1>3. UNCHANGED <<files, ready, session>>
  BY DEF WriteKnob, WriteBootKnob, TryKnob
<1>4. UNCHANGED <<conf, tmp, stock, applied, marker, ready, session>>
  BY <1>3 DEF files
<1>5. \/ TakeKnob(a) /\ s.val \in Int
      \/ card' = card /\ Advance(a) /\ s.op # "knob"
      \/ card' = card /\ Abort(a)
  <2>1. CASE WriteKnob(a)
    BY <1>2, <2>1 DEF WriteKnob, At, StepTyped
  <2>2. CASE WriteBootKnob(a)
    BY <1>2, <2>2 DEF WriteBootKnob, At, StepTyped, Arg
  <2>3. CASE TryKnob(a)
    BY <1>2, <2>3 DEF TryKnob, At, StepTyped
  <2>4. QED
    BY <2>1, <2>2, <2>3
<1>6. CASE TakeKnob(a) /\ s.val \in Int
  BY <1>1, <1>3, <1>6, TakeKnobStep
<1>7. CASE card' = card /\ Advance(a) /\ s.op # "knob"
  <2>1. s.op \in ScriptOps \ {"offset", "knob"}
    BY <1>1, <1>7
  <2>2. QED
    BY <1>1, <1>4, <1>7, <2>1, AdvancedStep DEF IInv, StateInv
<1>8. CASE card' = card /\ Abort(a)
  BY <1>1, <1>4, <1>8, AbortedStep DEF IInv, StateInv
<1>9. QED
  BY <1>5, <1>6, <1>7, <1>8

LEMMA EmptyListed == Empty \in Listing
<1>1. Empty \in [1..0 -> VMIN..VMAX]
  BY DEF Empty
<1>2. QED
  BY <1>1, MachineFacts DEF Listing

LEMMA ReportedFacts ==
  ASSUME IInv, NEW read
  PROVE  Reported(read) \subseteq Listing
<1>1. card.curve \in [Points -> VMIN..VMAX]
  BY SettingsFacts DEF IInv, StateInv
<1>2. card.curve \in Listing
  BY <1>1, MachineFacts DEF Listing, Points
<1>3. \A n \in 1..(OC_VF_NPTS - 1) : [p \in 1..n |-> card.curve[p]] \in Listing
  <2> TAKE n \in 1..(OC_VF_NPTS - 1)
  <2>1. n \in 0..OC_VF_NPTS /\ 1..n \subseteq Points
    BY MachineFacts DEF Points
  <2>2. [p \in 1..n |-> card.curve[p]] \in [1..n -> VMIN..VMAX]
    BY <1>1, <2>1
  <2>3. QED
    BY <2>1, <2>2 DEF Listing
<1>4. QED
  BY <1>2, <1>3 DEF Reported

LEMMA SaveStockStep ==
  ASSUME IInv, NEW a \in Actors, SaveStock(a)
  PROVE  IInv' /\ Framed(a)
<1>1. Busy(a) /\ Head(todo[a]).op = "saveStock"
  BY DEF SaveStock, At
<1>2. Head(todo[a]).op \in ScriptOps /\ Gives(Head(todo[a])) = {}
  BY <1>1 DEF ScriptOps, Gives
<1>3. UNCHANGED <<card, conf, tmp, applied, marker, ready, svc, session, history>>
  BY DEF SaveStock
<1>4. FileInv'
  BY <1>3, FilesKept DEF IInv
<1>5. CASE stock # NoFile
  <2>1. stock' = stock /\ todo' = [todo EXCEPT ![a] = Tail(@)]
    BY <1>5 DEF SaveStock
  <2>2. /\ ScriptInv' /\ SvcInv'
        /\ Plainly(todo'[a]) /\ \A b \in Actors \ {a} : todo'[b] = todo[b]
    BY <1>1, <1>2, <1>3, <2>1, DoneStep
  <2>3. QED
    BY <1>3, <1>4, <2>1, <2>2 DEF IInv, StateInv, Framed
<1>6. CASE stock = NoFile
  <2> DEFINE q == <<Do("fillStock"), Do("checkStock")>> \o Tail(todo[a])
  <2>1. stock' = Empty /\ todo' = [todo EXCEPT ![a] = q]
    BY <1>6 DEF SaveStock, IInv, ScriptInv
  <2>2. /\ Script(todo[a], Given(history)) /\ Plainly(todo[a]) /\ todo[a] # <<>>
    BY <1>1, <1>2, BusyFacts DEF IInv
  <2>3. Script(Tail(todo[a]), Given(history)) /\ Plainly(Tail(todo[a]))
    BY <1>2, <2>2, TailScript
  <2>4. /\ Script(<<Do("fillStock")>>, Given(history)) /\ Plainly(<<Do("fillStock")>>)
        /\ Script(<<Do("checkStock")>>, Given(history)) /\ Plainly(<<Do("checkStock")>>)
    BY DoScript DEF ScriptOps
  <2>5. <<Do("fillStock"), Do("checkStock")>> = <<Do("fillStock")>> \o <<Do("checkStock")>>
    OBVIOUS
  <2>6. /\ Script(<<Do("fillStock"), Do("checkStock")>>, Given(history))
        /\ Plainly(<<Do("fillStock"), Do("checkStock")>>)
    BY <2>4, <2>5, PlainJoin
  <2>7. Script(q, Given(history')) /\ Plainly(q)
    BY <1>3, <2>3, <2>6, PlainJoin
  <2> HIDE DEF q
  <2>8. ScriptInv' /\ Plainly(todo'[a]) /\ \A b \in Actors \ {a} : todo'[b] = todo[b]
    BY <1>3, <2>1, <2>7, TodoStep DEF IInv
  <2>9. SvcInv'
    <3>1. todo'[Svc] # <<>> => todo[Svc] # <<>>
      BY <2>2, <2>8, MachineFacts
    <3>2. QED
      BY <1>3, <3>1 DEF IInv, SvcInv
  <2>10. QED
    BY <1>3, <1>4, <2>1, <2>8, <2>9, EmptyListed DEF IInv, StateInv, Framed
<1>7. QED
  BY <1>5, <1>6

LEMMA StockSteps ==
  ASSUME IInv, NEW a \in Actors, FillStock(a) \/ CheckStock(a)
  PROVE  IInv' /\ Framed(a)
<1>1. /\ Busy(a) /\ Head(todo[a]).op \in ScriptOps \ {"offset", "knob"}
      /\ UNCHANGED <<card, conf, tmp, applied, marker, ready, session>>
      /\ Advance(a) \/ Abort(a)
  BY DEF FillStock, CheckStock, At, ScriptOps
<1>2. stock' \in Listing \cup {NoFile}
  BY ReportedFacts DEF FillStock, CheckStock, IInv, StateInv
<1>3. applied' \in Listing \cup {NoFile}
  BY <1>1 DEF IInv, StateInv
<1>4. QED
  BY <1>1, <1>2, <1>3, AdvancedStep, AbortedStep

LEMMA AppliedSteps ==
  ASSUME IInv, NEW a \in Actors, DropApplied(a) \/ EmptyApplied(a)
  PROVE  IInv' /\ Framed(a)
<1>1. /\ Busy(a) /\ Head(todo[a]).op \in ScriptOps \ {"offset", "knob"}
      /\ UNCHANGED <<card, conf, tmp, stock, marker, ready, session>> /\ Advance(a)
  BY DEF DropApplied, EmptyApplied, At, ScriptOps
<1>2. applied' \in Listing \cup {NoFile}
  BY EmptyListed DEF DropApplied, EmptyApplied
<1>3. stock' \in Listing \cup {NoFile}
  BY <1>1 DEF IInv, StateInv
<1>4. QED
  BY <1>1, <1>2, <1>3, AdvancedStep

LEMMA FillAppliedStep ==
  ASSUME IInv, NEW a \in Actors, FillApplied(a)
  PROVE  IInv' /\ Framed(a)
<1>1. /\ Busy(a) /\ Head(todo[a]).op = "fillApplied"
      /\ UNCHANGED <<card, conf, tmp, stock, marker, ready, session>>
  BY DEF FillApplied, At
<1>2. Head(todo[a]).op \in ScriptOps /\ Gives(Head(todo[a])) = {}
  BY <1>1 DEF ScriptOps, Gives
<1>3. PICK read \in Reads :
        IF read = "error" THEN applied' = applied /\ Abort(a)
        ELSE /\ applied' \in Reported(read)
             /\ todo' = [todo EXCEPT ![a] = Tail(@)]
             /\ history' = [history EXCEPT !.sure = @ /\ read = "ok"]
             /\ UNCHANGED svc
  BY DEF FillApplied
<1>4. CASE read = "error"
  <2>1. applied' \in Listing \cup {NoFile} /\ stock' \in Listing \cup {NoFile}
    BY <1>1, <1>3, <1>4 DEF IInv, StateInv
  <2>2. QED
    BY <1>1, <1>2, <1>3, <1>4, <2>1, AbortedStep
<1>5. CASE read # "error"
  <2>1. applied' \in Listing
    BY <1>3, <1>5, ReportedFacts
  <2>2. /\ HistoryTyped(history') /\ Given(history') = Given(history)
        /\ history'.blamed = history.blamed /\ history'.torn = history.torn
    <3>1. history' = [history EXCEPT !.sure = @ /\ read = "ok"]
      BY <1>3, <1>5
    <3>2. (history.sure /\ read = "ok") \in BOOLEAN
      OBVIOUS
    <3>3. QED
      BY <3>1, <3>2 DEF IInv, StateInv, HistoryTyped, Given
  <2>3. /\ ScriptInv' /\ SvcInv'
        /\ Plainly(todo'[a]) /\ \A b \in Actors \ {a} : todo'[b] = todo[b]
    BY <1>1, <1>2, <1>3, <1>5, <2>2, DoneStep
  <2>4. FileInv'
    BY <1>1, <2>2, FilesKept DEF IInv
  <2>5. svc' = svc
    BY <1>3, <1>5
  <2>6. QED
    BY <1>1, <2>1, <2>2, <2>3, <2>4, <2>5 DEF IInv, StateInv, Framed
<1>6. QED
  BY <1>4, <1>5

(* The steps of persist_kv *)
LEMMA NoKeysFacts == NoKeys \in [Keys -> Value] /\ \A k \in Keys : NoKeys[k] = Unset
BY DEF NoKeys, Value

LEMMA GrepStep ==
  ASSUME IInv, NEW a \in Actors, Grep(a)
  PROVE  IInv' /\ Framed(a)
<1> DEFINE k == Head(todo[a]).key
           T == Given(history)
<1>1. /\ Busy(a) /\ Head(todo[a]).op \in ScriptOps \ {"offset", "knob"} /\ Advance(a)
      /\ UNCHANGED <<card, stock, applied, marker, ready, session>>
  BY DEF Grep, At, ScriptOps
<1>2. conf' = (IF conf = NoFile THEN NoKeys ELSE conf) /\ tmp' = [conf' EXCEPT ![k] = Unset]
  BY DEF Grep, Arg
<1>3. k \in Keys
  BY <1>1, BusyFacts DEF IInv, Steps
<1>4. conf # NoFile => conf' # NoFile
  BY <1>2
<1>5. /\ ScriptInv' /\ SvcInv' /\ history' = history /\ svc' = svc
      /\ Plainly(todo'[a]) /\ \A b \in Actors \ {a} : todo'[b] = todo[b]
  BY <1>1, <1>4, AdvanceStep
<1>6. /\ conf' \in [Keys -> Value] /\ \A x \in Keys : Fits(x, conf'[x]) /\ Granted(x, conf'[x], T)
  BY <1>2, NoKeysFacts DEF IInv, FileInv, FileTyped, FileGranted, Fits, Granted
<1> HIDE DEF k
<1>7. /\ tmp' \in [Keys -> Value] /\ \A x \in Keys : tmp'[x] = conf'[x] \/ tmp'[x] = Unset
  BY <1>2, <1>3, <1>6 DEF Value
<1>8. \A x \in Keys : Fits(x, tmp'[x]) /\ Granted(x, tmp'[x], T)
  BY <1>6, <1>7 DEF Fits, Granted
<1>9. FileInv'
  BY <1>5, <1>6, <1>7, <1>8 DEF FileInv, FileTyped, FileGranted
<1>10. QED
  BY <1>1, <1>5, <1>9 DEF IInv, StateInv, Framed

LEMMA AppendStep ==
  ASSUME IInv, NEW a \in Actors, Append1(a)
  PROVE  IInv' /\ Framed(a)
<1> DEFINE s == Head(todo[a])
           T == Given(history)
           t == IF tmp = NoFile THEN NoKeys ELSE tmp
<1>1. /\ Busy(a) /\ s.op = "append" /\ Advance(a)
      /\ UNCHANGED <<card, conf, stock, applied, marker, ready, session>>
  BY DEF Append1, At
<1>2. tmp' = [t EXCEPT ![s.key] = s.val]
  BY DEF Append1, Arg
<1>3. s \in Steps /\ StepTyped(s) /\ Granted(s.key, s.val, T)
  BY <1>1, BusyFacts DEF IInv
<1>4. s.key \in Keys /\ s.val \in Value /\ Fits(s.key, s.val)
  BY <1>1, <1>3 DEF Steps, StepTyped
<1>5. /\ ScriptInv' /\ SvcInv' /\ history' = history /\ svc' = svc
      /\ Plainly(todo'[a]) /\ \A b \in Actors \ {a} : todo'[b] = todo[b]
  BY <1>1, AdvanceStep DEF ScriptOps
<1>6. /\ t \in [Keys -> Value] /\ \A x \in Keys : Fits(x, t[x]) /\ Granted(x, t[x], T)
  BY NoKeysFacts DEF IInv, FileInv, FileTyped, FileGranted, Fits, Granted
<1> HIDE DEF s, t
<1>7. /\ tmp' \in [Keys -> Value]
      /\ \A x \in Keys : tmp'[x] = t[x] \/ (x = s.key /\ tmp'[x] = s.val)
  BY <1>2, <1>4, <1>6
<1>8. \A x \in Keys : Fits(x, tmp'[x]) /\ Granted(x, tmp'[x], T)
  BY <1>3, <1>4, <1>6, <1>7
<1>9. FileInv'
  BY <1>1, <1>5, <1>7, <1>8 DEF IInv, FileInv, FileTyped, FileGranted
<1>10. QED
  BY <1>1, <1>5, <1>9 DEF IInv, StateInv, Framed

LEMMA MoveStep ==
  ASSUME IInv, NEW a \in Actors, Move(a)
  PROVE  IInv' /\ Framed(a)
<1>1. /\ Busy(a) /\ Head(todo[a]).op \in ScriptOps \ {"offset", "knob"} /\ tmp' = NoFile
      /\ UNCHANGED <<card, stock, applied, marker, ready, session>>
  BY DEF Move, At, ScriptOps
<1>2. FileTyped(tmp') /\ FileGranted(tmp', Given(history))
  BY <1>1 DEF FileTyped, FileGranted
<1>3. CASE tmp = NoFile
  <2>1. conf' = conf /\ Abort(a)
    BY <1>3 DEF Move
  <2>2. tmp' = tmp /\ stock' \in Listing \cup {NoFile} /\ applied' \in Listing \cup {NoFile}
    BY <1>1, <1>3 DEF IInv, StateInv
  <2>3. QED
    BY <1>1, <2>1, <2>2, AbortedStep
<1>4. CASE tmp # NoFile
  <2>1. conf' = tmp /\ conf' # NoFile /\ Advance(a)
    BY <1>4 DEF Move
  <2>2. /\ ScriptInv' /\ SvcInv' /\ history' = history /\ svc' = svc
        /\ Plainly(todo'[a]) /\ \A b \in Actors \ {a} : todo'[b] = todo[b]
    BY <1>1, <2>1, AdvanceStep
  <2>3. FileInv'
    BY <1>2, <2>1, <2>2 DEF IInv, FileInv
  <2>4. QED
    BY <1>1, <2>2, <2>3 DEF IInv, StateInv, Framed
<1>5. QED
  BY <1>3, <1>4

LEMMA ScriptSteps ==
  ASSUME IInv, NEW a \in Actors, ScriptStep(a)
  PROVE  IInv' /\ Framed(a)
<1>1. CASE WritePoints(a) \/ CatStock(a)
  BY <1>1, CurveSteps
<1>2. CASE CatApplied(a)
  BY <1>2, CatAppliedStep
<1>3. CASE WriteOffset(a)
  BY <1>3, OffsetStep
<1>4. CASE WriteKnob(a) \/ WriteBootKnob(a) \/ TryKnob(a)
  BY <1>4, KnobSteps
<1>5. CASE SaveStock(a)
  BY <1>5, SaveStockStep
<1>6. CASE FillStock(a) \/ CheckStock(a)
  BY <1>6, StockSteps
<1>7. CASE DropApplied(a) \/ EmptyApplied(a)
  BY <1>7, AppliedSteps
<1>8. CASE FillApplied(a)
  BY <1>8, FillAppliedStep
<1>9. CASE Grep(a)
  BY <1>9, GrepStep
<1>10. CASE Append1(a)
  BY <1>10, AppendStep
<1>11. CASE Move(a)
  BY <1>11, MoveStep
<1>12. QED
  BY <1>1, <1>2, <1>3, <1>4, <1>5, <1>6, <1>7, <1>8, <1>9, <1>10, <1>11 DEF ScriptStep
-----------------------------------------------------------------------------
(* The service's own steps *)
LEMMA DoHeads ==
  /\ Head(<<Do("moveConf")>>).op = "moveConf" /\ <<Do("moveConf")>> # <<>>
  /\ Head(<<Do("source")>>).op = "source"
  /\ Head(<<Do("dropMarker"), Do("moveConf")>>).op = "dropMarker"
<1>1. /\ Head(<<Do("moveConf")>>) = Do("moveConf") /\ Head(<<Do("source")>>) = Do("source")
      /\ Head(<<Do("dropMarker"), Do("moveConf")>>) = Do("dropMarker")
      /\ <<Do("moveConf")>> # <<>>
  OBVIOUS
<1>2. QED
  BY <1>1, PlainFacts DEF ServiceOps

LEMMA OwnAt ==
  ASSUME ScriptInv, Busy(Svc), Head(todo[Svc]).op \in ServiceOps
  PROVE  todo[Svc] \in OwnTodo
<1>1. ScriptOps \cap ServiceOps = {}
  BY DEF ScriptOps, ServiceOps
<1>2. Head(todo[Svc]).op \notin ScriptOps
  BY <1>1
<1>3. ~Plainly(todo[Svc])
  BY <1>2, BusyFacts, MachineFacts DEF Plainly, ScriptInv
<1>4. QED
  BY <1>3 DEF ScriptInv

(* The service's list replaced by one of its own, or by a script            *)
LEMMA OwnStep ==
  ASSUME ScriptInv, NEW q, Script(q, Given(history)), Plainly(q) \/ q \in OwnTodo,
         todo' = [todo EXCEPT ![Svc] = q], Given(history') = Given(history),
         q \in Sourcing => conf' # NoFile
  PROVE  ScriptInv' /\ todo'[Svc] = q
<1>1. /\ todo' \in [Actors -> Seq(Steps)] /\ todo'[Svc] = q
      /\ \A b \in Users : todo'[b] = todo[b]
  BY MachineFacts DEF ScriptInv, Script
<1>2. QED
  BY <1>1, MachineFacts DEF ScriptInv

LEMMA TryStep ==
  ASSUME IInv, Try
  PROVE  IInv'
<1> DEFINE q == IF marker THEN <<Do("dropMarker"), Do("moveConf")>>
                ELSE IF conf = NoFile THEN <<>> ELSE <<Do("arm"), Do("source")>>
<1>1. /\ todo' = [todo EXCEPT ![Svc] = q] /\ svc' = [svc EXCEPT !.state = "trying"]
      /\ UNCHANGED <<card, conf, tmp, stock, applied, marker, ready, session, history>>
      /\ svc.state = "waiting"
  BY DEF Try, files
<1>2. q = <<>> \/ (q \in OwnTodo /\ (q \in Sourcing => conf # NoFile))
  <2>1. CASE marker
    <3>1. q = <<Do("dropMarker"), Do("moveConf")>> /\ q \in OwnTodo
      BY <2>1 DEF OwnTodo
    <3>2. Head(q).op = "dropMarker"
      BY <3>1, PlainFacts DEF ServiceOps
    <3>3. QED
      BY <3>1, <3>2, OwnFacts
  <2>2. CASE ~marker
    BY <2>2 DEF OwnTodo
  <2>3. QED
    BY <2>1, <2>2
<1> HIDE DEF q
<1>3. Script(q, Given(history)) /\ (Plainly(q) \/ q \in OwnTodo)
  BY <1>2, EmptyScript, OwnScript
<1>4. q \in Sourcing => conf' # NoFile
  BY <1>1, <1>2 DEF Sourcing
<1>5. ScriptInv'
  BY <1>1, <1>3, <1>4, OwnStep DEF IInv
<1>6. FileInv'
  BY <1>1, FilesKept DEF IInv
<1>7. /\ svc' \in [state : {"waiting", "trying", "active", "failed"}, tries : 0..MaxTries]
      /\ svc'.state = "trying" /\ svc'.tries = svc.tries
  BY <1>1 DEF IInv, StateInv
<1>8. SvcInv'
  BY <1>1, <1>7 DEF IInv, SvcInv
<1>9. QED
  BY <1>1, <1>5, <1>6, <1>7, <1>8 DEF IInv, StateInv

LEMMA DropMarkerStep ==
  ASSUME IInv, DropMarker
  PROVE  IInv' /\ todo[Svc] # <<>> /\ todo'[Svc] = <<Do("moveConf")>>
<1>1. Busy(Svc) /\ Head(todo[Svc]).op = "dropMarker"
  BY DEF DropMarker, At
<1>2. todo[Svc] \in OwnTodo
  BY <1>1, OwnAt DEF IInv, ServiceOps
<1>3. Tail(todo[Svc]) = <<Do("moveConf")>>
  BY <1>1, <1>2, OwnFacts
<1> DEFINE q == Tail(todo[Svc])
<1>4. /\ todo' = [todo EXCEPT ![Svc] = q] /\ marker' = FALSE
      /\ UNCHANGED <<card, conf, tmp, stock, applied, ready, session, svc, history>>
  BY DEF DropMarker, Advance, IInv, ScriptInv
<1>5. q \in OwnTodo
  BY <1>3 DEF OwnTodo
<1>6. q \notin Sourcing
  <2>1. Head(q).op = "moveConf"
    BY <1>3, DoHeads
  <2>2. QED
    BY <1>5, <2>1, OwnFacts
<1> HIDE DEF q
<1>7. ScriptInv' /\ todo'[Svc] = q
  BY <1>4, <1>5, <1>6, OwnScript, OwnStep DEF IInv
<1>8. FileInv'
  BY <1>4, FilesKept DEF IInv
<1>9. SvcInv'
  BY <1>1, <1>4 DEF IInv, SvcInv, Busy
<1>10. QED
  BY <1>1, <1>3, <1>4, <1>7, <1>8, <1>9 DEF IInv, StateInv, Busy, q

LEMMA MoveConfStep ==
  ASSUME IInv, MoveConf
  PROVE  IInv' /\ todo'[Svc] = <<>>
<1>1. Busy(Svc) /\ Head(todo[Svc]).op = "moveConf"
  BY DEF MoveConf, At
<1>2. todo[Svc] \in OwnTodo
  BY <1>1, OwnAt DEF IInv, ServiceOps
<1>3. Tail(todo[Svc]) = <<>>
  BY <1>1, <1>2, OwnFacts
<1>4. /\ todo' = [todo EXCEPT ![Svc] = <<>>] /\ conf' = NoFile
      /\ session' = [session EXCEPT !.armed = FALSE]
      /\ UNCHANGED <<card, tmp, stock, applied, marker, ready, svc>>
  BY <1>3 DEF MoveConf, IInv, ScriptInv
<1>5. HistoryTyped(history') /\ Given(history') = Given(history)
  BY ColdTyped DEF MoveConf, IInv, StateInv, HistoryTyped, Given
<1>6. ScriptInv' /\ todo'[Svc] = <<>>
  <2>1. <<>> \notin Sourcing
    BY DEF Sourcing
  <2>2. QED
    BY <1>4, <1>5, <2>1, EmptyScript, OwnStep DEF IInv
<1>7. FileInv'
  BY <1>4, <1>5 DEF IInv, FileInv, FileTyped, FileGranted
<1>8. SvcInv'
  BY <1>4, <1>6 DEF IInv, SvcInv
<1>9. QED
  BY <1>4, <1>5, <1>6, <1>7, <1>8 DEF IInv, StateInv

LEMMA ArmStep ==
  ASSUME IInv, Arm
  PROVE  IInv' /\ todo'[Svc] = <<Do("source")>>
<1>1. Busy(Svc) /\ Head(todo[Svc]).op = "arm"
  BY DEF Arm, At
<1>2. todo[Svc] \in OwnTodo
  BY <1>1, OwnAt DEF IInv, ServiceOps
<1>3. Tail(todo[Svc]) = <<Do("source")>> /\ todo[Svc] \in Sourcing
  BY <1>1, <1>2, OwnFacts
<1>4. /\ todo' = [todo EXCEPT ![Svc] = <<Do("source")>>] /\ marker' = TRUE
      /\ session' = [session EXCEPT !.armed = TRUE]
      /\ UNCHANGED <<card, conf, tmp, stock, applied, ready, svc, history>>
  BY <1>3 DEF Arm, Advance, IInv, ScriptInv
<1>5. conf' # NoFile
  BY <1>3, <1>4 DEF IInv, ScriptInv
<1>6. <<Do("source")>> \in OwnTodo
  BY DEF OwnTodo
<1>7. ScriptInv' /\ todo'[Svc] = <<Do("source")>>
  BY <1>4, <1>5, <1>6, OwnScript, OwnStep DEF IInv
<1>8. FileInv'
  BY <1>4, FilesKept DEF IInv
<1>9. SvcInv'
  BY <1>1, <1>4 DEF IInv, SvcInv, Busy, StateInv
<1>10. QED
  BY <1>4, <1>7, <1>8, <1>9 DEF IInv, StateInv

LEMMA SourceStep ==
  ASSUME IInv, Source
  PROVE  IInv' /\ Plainly(todo'[Svc])
<1>1. Busy(Svc) /\ Head(todo[Svc]).op = "source"
  BY DEF Source, At
<1>2. todo[Svc] \in OwnTodo
  BY <1>1, OwnAt DEF IInv, ServiceOps
<1>3. Tail(todo[Svc]) = <<>> /\ todo[Svc] \in Sourcing
  BY <1>1, <1>2, OwnFacts
<1>4. conf # NoFile
  BY <1>3 DEF IInv, ScriptInv
<1>5. Script(BootScript, Given(history)) /\ Plainly(BootScript)
  BY <1>4, BootScriptGood DEF IInv, FileInv
<1>6. /\ BootScript \in Seq(Steps) /\ BootScript \o <<>> = BootScript
  BY <1>5 DEF Script
<1>7. /\ todo' = [todo EXCEPT ![Svc] = BootScript] /\ session' = [session EXCEPT !.late = ~ready]
      /\ UNCHANGED <<card, conf, tmp, stock, applied, marker, ready, svc, history>>
  BY <1>3, <1>6 DEF Source, files, IInv, ScriptInv
<1>8. ScriptInv' /\ todo'[Svc] = BootScript
  BY <1>4, <1>5, <1>7, OwnStep DEF IInv
<1>9. FileInv'
  BY <1>7, FilesKept DEF IInv
<1>10. SvcInv'
  BY <1>1, <1>7 DEF IInv, SvcInv, Busy, StateInv
<1>11. QED
  BY <1>5, <1>7, <1>8, <1>9, <1>10 DEF IInv, StateInv

(* Steps that leave every script and file but the marker as it is           *)
LEMMA RestingSteps ==
  ASSUME IInv, BootDone \/ Confirm \/ SysfsUp
  PROVE  IInv' /\ todo' = todo
<1>1. /\ UNCHANGED <<card, conf, tmp, stock, applied, todo>>
      /\ marker' \in BOOLEAN /\ ready' \in BOOLEAN
  BY DEF BootDone, Confirm, SysfsUp, files, IInv, StateInv
<1>2. HistoryTyped(history') /\ Given(history') = Given(history)
  BY DEF BootDone, Confirm, SysfsUp, IInv, StateInv, HistoryTyped, Given
<1>3. session' \in [armed : BOOLEAN, confirmed : BOOLEAN, stopping : BOOLEAN, late : BOOLEAN]
      /\ session'.stopping = session.stopping
  BY DEF BootDone, Confirm, SysfsUp, IInv, StateInv
<1>4. /\ svc' \in [state : {"waiting", "trying", "active", "failed"}, tries : 0..MaxTries]
      /\ svc' = svc \/ (todo[Svc] = <<>> /\ svc'.state = "active")
  BY DEF BootDone, Confirm, SysfsUp, IInv, StateInv, Busy
<1>5. ScriptInv'
  BY <1>1, <1>2 DEF IInv, ScriptInv
<1>6. FileInv'
  BY <1>1, <1>2, FilesKept DEF IInv
<1>7. SvcInv'
  BY <1>1, <1>3, <1>4 DEF IInv, SvcInv
<1>8. QED
  BY <1>1, <1>2, <1>3, <1>4, <1>5, <1>6, <1>7 DEF IInv, StateInv

(* Commands of users *)
LEMMA StartStep ==
  ASSUME IInv, NEW u \in Users, NEW q, NEW choice \in Settings,
         Script(q, Given(history)), Plainly(q), Start(u, q, choice)
  PROVE  /\ IInv' /\ UNCHANGED <<marker, session>> /\ ~history'.blamed
         /\ todo'[Svc] = todo[Svc]
<1>1. /\ todo' = [todo EXCEPT ![u] = q]
      /\ UNCHANGED <<card, conf, tmp, stock, applied, marker, ready, svc, session>>
  BY DEF Start, files
<1>2. HistoryTyped(history') /\ Given(history') = Given(history) /\ ~history'.blamed
  <2>1. history' = [history EXCEPT !.chosen = choice, !.stopped = FALSE, !.blamed = FALSE,
                                !.sure = @ /\ Settled /\ ~session.late /\ ~UsersBusy,
                                !.commands = @ + 1]
    BY DEF Start
  <2>2. (history.sure /\ Settled /\ ~session.late /\ ~UsersBusy) \in BOOLEAN
    OBVIOUS
  <2>3. history.commands + 1 \in Int
    BY DEF IInv, StateInv, HistoryTyped, Given
  <2>4. QED
    BY <2>1, <2>2, <2>3 DEF IInv, StateInv, HistoryTyped, Given
<1>3. u \in Actors /\ u # Svc
  BY MachineFacts
<1>4. ScriptInv' /\ \A b \in Actors \ {u} : todo'[b] = todo[b]
  BY <1>1, <1>2, <1>3, TodoStep DEF IInv
<1>5. FileInv'
  BY <1>1, <1>2, FilesKept DEF IInv
<1>6. todo'[Svc] = todo[Svc]
  BY <1>3, <1>4, MachineFacts
<1>7. SvcInv'
  BY <1>1, <1>6 DEF IInv, SvcInv
<1>8. QED
  BY <1>1, <1>2, <1>4, <1>5, <1>6, <1>7 DEF IInv, StateInv

LEMMA ChosenTyped ==
  ASSUME IInv
  PROVE  Chosen \in Settings
BY ColdTyped DEF Chosen, IInv, StateInv, HistoryTyped, Given

LEMMA StockCurveListed == StockCurve \in Listing
BY VoltageAssumption, MachineFacts DEF Listing, Points

LEMMA CommandStep ==
  ASSUME IInv, NEW u \in Users, Command(u)
  PROVE  /\ IInv' /\ UNCHANGED <<marker, session>> /\ ~history'.blamed
         /\ todo'[Svc] = todo[Svc]
<1>1. CASE StartOffset(u)
  <2>1. PICK o \in Offsets :
          Start(u, OffsetScript(o[1], o[2]),
                [Chosen EXCEPT !.curve = Store(StockCurve, Shifted(StockCurve, o[1], o[2]))])
    BY <1>1 DEF StartOffset
  <2>2. o[1] \in Int /\ o[2] \in Int
    BY ChoiceAssumption, MachineFacts
  <2>3. Store(StockCurve, Shifted(StockCurve, o[1], o[2])) \in [Points -> VMIN..VMAX]
    BY <2>2, ShiftedFacts, StoreTyped, StockCurveListed, VoltageAssumption
  <2>4. [Chosen EXCEPT !.curve = Store(StockCurve, Shifted(StockCurve, o[1], o[2]))] \in Settings
    BY <2>3, ChosenTyped, SettingsFacts
  <2>5. Script(OffsetScript(o[1], o[2]), Given(history)) /\ Plainly(OffsetScript(o[1], o[2]))
    BY <2>2, OffsetScriptGood
  <2>6. QED
    BY <2>1, <2>4, <2>5, StartStep
<1>2. CASE StartCurve(u)
  <2>1. PICK c \in Curves :
          Start(u, CurveScript(c),
                IF Valid(c) THEN [Chosen EXCEPT !.curve = Store(card.curve, c)] ELSE Chosen)
    BY <1>2 DEF StartCurve
  <2>2. DOMAIN c \subseteq Nat /\ c \in [DOMAIN c -> Int]
    BY ChoiceAssumption
  <2>3. c \in Lists
    BY <2>2 DEF Lists
  <2>4. card.curve \in [Points -> VMIN..VMAX]
    BY DEF IInv, StateInv, Settings
  <2>5. Store(card.curve, c) \in [Points -> VMIN..VMAX]
    BY <2>3, <2>4, ListFacts, StoreTyped
  <2>6. [Chosen EXCEPT !.curve = Store(card.curve, c)] \in Settings
    BY <2>5, ChosenTyped, SettingsFacts
  <2>7. Script(CurveScript(c), Given(history)) /\ Plainly(CurveScript(c))
    BY <2>3, CurveScriptGood
  <2>8. QED
    BY <2>1, <2>6, <2>7, ChosenTyped, StartStep
<1>3. CASE StartKnob(u)
  <2>1. PICK kv \in KnobChoices :
          Start(u, KnobScript(kv[1], kv[2]), [Chosen EXCEPT !.knob[kv[1]] = kv[2]])
    BY <1>3 DEF StartKnob
  <2>2. kv[1] \in KnobKeys /\ kv[2] \in Int
    BY ChoiceAssumption
  <2>3. [Chosen EXCEPT !.knob[kv[1]] = kv[2]] \in Settings
    BY <2>2, ChosenTyped, SettingsFacts
  <2>4. Script(KnobScript(kv[1], kv[2]), Given(history)) /\ Plainly(KnobScript(kv[1], kv[2]))
    BY <2>2, KnobScriptGood
  <2>5. QED
    BY <2>1, <2>3, <2>4, StartStep
<1>4. CASE StartReset(u)
  <2>1. Start(u, ResetScript, Cold)
    BY <1>4 DEF StartReset
  <2>2. QED
    BY <2>1, ColdTyped, ResetScriptGood, StartStep
<1>5. QED
  BY <1>1, <1>2, <1>3, <1>4 DEF Command

(* The machine *)
LEMMA PowerUpStep ==
  ASSUME IInv, PowerUp, HistoryTyped(history'), Given(history') = Given(history)
  PROVE  /\ IInv' /\ ~session'.armed /\ marker' = marker
         /\ \A a \in Actors : todo'[a] = <<>>
<1>1. /\ card' = Cold /\ ready' \in BOOLEAN /\ svc' = Waiting /\ session' = NewBoot
      /\ UNCHANGED <<conf, tmp, stock, applied, marker>>
  BY MachineAssumption DEF PowerUp, files
<1>2. todo' = [a \in Actors |-> <<>>]
  BY DEF PowerUp
<1>3. \A a \in Actors : todo'[a] = <<>>
  BY <1>2
<1>4. <<>> \notin Sourcing
  BY DEF Sourcing
<1>5. ScriptInv'
  BY <1>2, <1>3, <1>4, EmptyScript, MachineFacts DEF ScriptInv
<1>6. FileInv'
  BY <1>1, FilesKept DEF IInv
<1>7. /\ svc' \in [state : {"waiting", "trying", "active", "failed"}, tries : 0..MaxTries]
      /\ svc'.tries < MaxTries
  BY <1>1, MachineFacts DEF Waiting
<1>8. /\ session' \in [armed : BOOLEAN, confirmed : BOOLEAN, stopping : BOOLEAN, late : BOOLEAN]
      /\ ~session'.armed
  BY <1>1 DEF NewBoot
<1>9. SvcInv'
  BY <1>3, <1>7, MachineFacts DEF SvcInv
<1>10. QED
  BY <1>1, <1>3, <1>5, <1>6, <1>7, <1>8, <1>9, ColdTyped DEF IInv, StateInv

LEMMA CrashStep ==
  ASSUME IInv, Crash
  PROVE  /\ IInv' /\ ~session'.armed /\ marker' = marker
         /\ \A a \in Actors : todo'[a] = <<>>
         /\ history'.blamed = (history.blamed \/ (session.armed /\ ~session.confirmed))
         /\ history'.torn = (history.torn \/ Disarming)
<1>1. /\ HistoryTyped(history') /\ Given(history') = Given(history)
      /\ history'.blamed = (history.blamed \/ (session.armed /\ ~session.confirmed))
      /\ history'.torn = (history.torn \/ Disarming)
  <2>1. history' =
       [history EXCEPT !.boots  = @ + 1,
                       !.sure   = @ /\ ~UsersBusy /\ ~(session.stopping /\ Busy(Svc)),
                       !.blamed = @ \/ (session.armed /\ ~session.confirmed),
                       !.torn   = @ \/ At(Svc, "moveConf")]
    BY DEF Crash
  <2>2. /\ (history.sure /\ ~UsersBusy /\ ~(session.stopping /\ Busy(Svc))) \in BOOLEAN
        /\ (history.blamed \/ (session.armed /\ ~session.confirmed)) \in BOOLEAN
        /\ (history.torn \/ Disarming) \in BOOLEAN
    OBVIOUS
  <2>3. history.boots + 1 \in Int
    BY DEF IInv, StateInv, HistoryTyped, Given
  <2>4. QED
    BY <2>1, <2>2, <2>3 DEF IInv, StateInv, HistoryTyped, Given, Disarming
<1>2. PowerUp
  BY DEF Crash
<1>3. QED
  BY <1>1, <1>2, PowerUpStep

LEMMA PowerOffStep ==
  ASSUME IInv, PowerOff
  PROVE  /\ IInv' /\ ~session'.armed /\ marker' = marker
         /\ \A a \in Actors : todo'[a] = <<>>
         /\ history'.blamed = history.blamed /\ history'.torn = history.torn
         /\ ~Disarming
<1>1. /\ HistoryTyped(history') /\ Given(history') = Given(history)
      /\ history'.blamed = history.blamed /\ history'.torn = history.torn
  BY DEF PowerOff, IInv, StateInv, HistoryTyped, Given
<1>2. PowerUp /\ ~Disarming
  BY DEF PowerOff, Disarming, At
<1>3. QED
  BY <1>1, <1>2, PowerUpStep

LEMMA ShutdownStep ==
  ASSUME IInv, Shutdown
  PROVE  /\ IInv' /\ Plainly(todo'[Svc]) /\ marker' = marker
         /\ session'.armed = session.armed /\ session'.confirmed = session.confirmed
         /\ history'.blamed = history.blamed
         /\ history'.torn = (history.torn \/ Disarming)
<1> DEFINE resets == svc.state = "active" /\ ready
           q == [a \in Actors |-> IF a = Svc /\ resets THEN ResetScript ELSE <<>>]
<1>1. /\ todo' = q /\ session' = [session EXCEPT !.stopping = TRUE]
      /\ UNCHANGED <<card, conf, tmp, stock, applied, marker, ready, svc>>
  BY DEF Shutdown, files
<1>2. /\ HistoryTyped(history') /\ Given(history') = Given(history)
      /\ history'.blamed = history.blamed /\ history'.torn = (history.torn \/ Disarming)
  <2>1. history' = [history EXCEPT !.sure    = @ /\ ~UsersBusy,
                                   !.torn    = @ \/ At(Svc, "moveConf"),
                                   !.stopped = @ \/ resets]
    BY DEF Shutdown
  <2>2. /\ (history.sure /\ ~UsersBusy) \in BOOLEAN /\ (history.stopped \/ resets) \in BOOLEAN
        /\ (history.torn \/ Disarming) \in BOOLEAN
    OBVIOUS
  <2>3. HistoryTyped(history)
    BY DEF IInv, StateInv
  <2> HIDE DEF resets
  <2>4. QED
    BY <2>1, <2>2, <2>3 DEF HistoryTyped, Given, Disarming
<1>3. \A a \in Actors : Script(q[a], Given(history)) /\ Plainly(q[a])
  BY EmptyScript, ResetScriptGood
<1>4. q \in [Actors -> Seq(Steps)]
  BY <1>3 DEF Script
<1> HIDE DEF q, resets
<1>5. \A a \in Actors : q[a] \notin Sourcing
  BY <1>3, OwnFacts DEF Sourcing, OwnTodo
<1>6. ScriptInv'
  BY <1>1, <1>2, <1>3, <1>4, <1>5, MachineFacts DEF ScriptInv
<1>7. FileInv'
  BY <1>1, <1>2, FilesKept DEF IInv
<1>8. /\ session' \in [armed : BOOLEAN, confirmed : BOOLEAN, stopping : BOOLEAN, late : BOOLEAN]
      /\ session'.stopping
      /\ session'.armed = session.armed /\ session'.confirmed = session.confirmed
  BY <1>1 DEF IInv, StateInv
<1>9. SvcInv'
  BY <1>1, <1>8 DEF IInv, SvcInv
<1>10. QED
  BY <1>1, <1>2, <1>3, <1>6, <1>7, <1>8, <1>9, MachineFacts DEF IInv, StateInv

LEMMA IInvInit == Init => IInv
<1> SUFFICES ASSUME Init PROVE IInv
  OBVIOUS
<1>1. /\ card = Cold /\ conf = NoFile /\ tmp = NoFile /\ stock = NoFile /\ applied = NoFile
      /\ marker = FALSE /\ ready \in BOOLEAN /\ svc = Waiting /\ session = NewBoot
  BY MachineAssumption DEF Init
<1>2. todo = [a \in Actors |-> <<>>]
  BY DEF Init
<1>3. HistoryTyped(history)
  BY ColdTyped DEF Init, HistoryTyped, Given
<1>4. \A a \in Actors : todo[a] = <<>>
  BY <1>2
<1>5. <<>> \notin Sourcing
  BY DEF Sourcing
<1>6. ScriptInv
  BY <1>2, <1>4, <1>5, EmptyScript, MachineFacts DEF ScriptInv
<1>7. FileInv
  BY <1>1 DEF FileInv, FileTyped, FileGranted
<1>8. /\ svc \in [state : {"waiting", "trying", "active", "failed"}, tries : 0..MaxTries]
      /\ svc.tries < MaxTries
  BY <1>1, MachineFacts DEF Waiting
<1>9. session \in [armed : BOOLEAN, confirmed : BOOLEAN, stopping : BOOLEAN, late : BOOLEAN]
  BY <1>1 DEF NewBoot
<1>10. SvcInv
  BY <1>4, <1>8, MachineFacts DEF SvcInv
<1>11. QED
  BY <1>1, <1>3, <1>6, <1>7, <1>8, <1>9, <1>10, ColdTyped DEF IInv, StateInv

LEMMA IInvNext == IInv /\ [Next]_vars => IInv'
<1> SUFFICES ASSUME IInv, [Next]_vars PROVE IInv'
  OBVIOUS
<1>1. ASSUME NEW a \in Actors, ScriptStep(a) PROVE IInv'
  BY <1>1, ScriptSteps
<1>2. ASSUME NEW u \in Users, Command(u) PROVE IInv'
  BY <1>2, CommandStep
<1>3. CASE Try
  BY <1>3, TryStep
<1>4. CASE DropMarker
  BY <1>4, DropMarkerStep
<1>5. CASE MoveConf
  BY <1>5, MoveConfStep
<1>6. CASE Arm
  BY <1>6, ArmStep
<1>7. CASE Source
  BY <1>7, SourceStep
<1>8. CASE BootDone \/ Confirm \/ SysfsUp
  BY <1>8, RestingSteps
<1>9. CASE Crash
  BY <1>9, CrashStep
<1>10. CASE Shutdown
  BY <1>10, ShutdownStep
<1>11. CASE PowerOff
  BY <1>11, PowerOffStep
<1>12. CASE UNCHANGED vars
  BY <1>12 DEF vars, files, IInv, StateInv, ScriptInv, FileInv, SvcInv
<1>13. QED
  BY <1>1, <1>2, <1>3, <1>4, <1>5, <1>6, <1>7, <1>8, <1>9, <1>10, <1>11, <1>12
     DEF Next, ServiceStep

LEMMA Invariance == Spec => []IInv
BY IInvInit, IInvNext, PTL DEF Spec

(* Every variable of OcBoot keeps its type: the card's curve its limits,    *)
(* files and scripts their values, whatever is left to do at any moment.    *)
THEOREM TypeCorrect == Spec => []TypeOK
<1>1. IInv => TypeOK
  <2> SUFFICES ASSUME IInv PROVE TypeOK
    OBVIOUS
  <2>1. /\ card \in Settings /\ stock \in Listing \cup {NoFile}
        /\ applied \in Listing \cup {NoFile} /\ marker \in BOOLEAN /\ ready \in BOOLEAN
        /\ svc \in [state : {"waiting", "trying", "active", "failed"}, tries : 0..MaxTries]
        /\ session \in [armed : BOOLEAN, confirmed : BOOLEAN, stopping : BOOLEAN, late : BOOLEAN]
        /\ history.chosen \in Settings
    BY DEF IInv, StateInv, HistoryTyped, Given
  <2>2. conf \in [Keys -> Value] \cup {NoFile} /\ tmp \in [Keys -> Value] \cup {NoFile}
    BY DEF IInv, FileInv, FileTyped
  <2>3. ASSUME NEW a \in Actors, NEW i \in DOMAIN todo[a]
        PROVE  /\ todo[a][i].op \in ScriptOps \cup (IF a = Svc THEN ServiceOps ELSE {})
               /\ todo[a][i].key \in Keys
    <3>1. todo[a] \in Seq(Steps) /\ i \in 1..Len(todo[a])
      BY <2>3 DEF IInv, ScriptInv
    <3>2. todo[a][i] \in Steps
      BY <3>1
    <3>3. a \in Users => todo[a][i].op \in ScriptOps
      BY <3>1 DEF IInv, ScriptInv, Plainly
    <3>4. QED
      BY <3>2, <3>3 DEF Steps, Actors
  <2>4. QED
    BY <2>1, <2>2, <2>3 DEF TypeOK
<1>2. QED
  BY <1>1, Invariance, PTL

(* Whatever crashes, fails or meets another script's .tmp file, the conf    *)
(* holds no number that is neither stock nor was taken by the card, but for *)
(* an offset that was applied from an empty stock file.                     *)
THEOREM OnlyTakenPersisted == Spec => []PersistedWasTaken
<1>1. IInv => PersistedWasTaken
  <2> SUFFICES ASSUME IInv, conf # NoFile, NEW k \in Keys, Granted(k, conf[k], Given(history))
               PROVE  \/ conf[k] \in {Unset, Custom}
                      \/ <<k, conf[k]>> \in {<<"offset", 0>>, <<"max", VMAX>>}
                      \/ k \in DOMAIN StockKnob /\ conf[k] = StockKnob[k]
                      \/ <<k, conf[k]>> \in history.taken
                      \/ k \in {"offset", "max"} /\ <<k, conf[k]>> \in history.vain
    BY DEF IInv, FileInv, FileGranted, PersistedWasTaken
  <2>1. history.vain \subseteq {"offset", "max"} \X Value
    BY DEF IInv, StateInv, HistoryTyped
  <2>2. <<k, conf[k]>> \in history.vain => k \in {"offset", "max"}
    BY <2>1
  <2>3. QED
    BY <2>2 DEF Granted, Given
<1>2. QED
  BY <1>1, Invariance, PTL
-----------------------------------------------------------------------------
(* The watchdog *)
LEMMA BlameInit == Init => BlameInv
BY DEF Init, BlameInv, NewBoot

(* A service with a script or nothing to do neither arms nor disarms        *)
LEMMA PlainlyAt ==
  ASSUME NEW q \in Seq(Steps), Plainly(q)
  PROVE  q = <<>> \/ Head(q).op \notin ServiceOps
<1>1. ASSUME q # <<>>
      PROVE  Head(q).op \in ScriptOps
  <2>1. 1 \in 1..Len(q) /\ Head(q) = q[1]
    BY <1>1
  <2>2. QED
    BY <2>1 DEF Plainly
<1>2. QED
  BY <1>1 DEF ScriptOps, ServiceOps

LEMMA ScriptOp ==
  ASSUME NEW a, ScriptStep(a)
  PROVE  Busy(a) /\ Head(todo[a]).op \in ScriptOps
BY DEF ScriptStep, WritePoints, CatStock, CatApplied, WriteOffset, WriteKnob, WriteBootKnob,
       TryKnob, SaveStock, FillStock, CheckStock, DropApplied, EmptyApplied, FillApplied,
       Grep, Append1, Move, At, ScriptOps

(* What NoBootLoop asks of a step *)
Unlooped ==
  ~session.armed /\ session'.armed => ~history.blamed \/ history.torn

LEMMA BlameScript ==
  ASSUME IInv, BlameInv, NEW a \in Actors, ScriptStep(a)
  PROVE  BlameInv' /\ Unlooped
<1>1. Framed(a) /\ IInv'
  BY ScriptSteps
<1>2. CASE a = Svc
  <2>1. todo[Svc] \in Seq(Steps) /\ Plainly(todo[Svc])
    BY <1>2, ScriptOp, BusyFacts DEF IInv, ScriptInv
  <2>2. todo'[Svc] \in Seq(Steps) /\ Plainly(todo'[Svc])
    BY <1>1, <1>2 DEF Framed, IInv, ScriptInv
  <2>3. ~Disarming /\ ~Disarming' /\ ~At(Svc, "arm")'
    BY <2>1, <2>2, PlainlyAt DEF Disarming, At, Busy, ServiceOps
  <2>4. QED
    BY <1>1, <2>3 DEF BlameInv, Framed, Unlooped
<1>3. CASE a # Svc
  <2>1. todo'[Svc] = todo[Svc]
    BY <1>1, <1>3, MachineFacts DEF Framed
  <2>2. QED
    BY <1>1, <2>1 DEF BlameInv, Framed, Unlooped, Disarming, At, Busy
<1>4. QED
  BY <1>2, <1>3

LEMMA BlameTry ==
  ASSUME IInv, BlameInv, Try
  PROVE  BlameInv' /\ Unlooped
<1>1. UNCHANGED <<marker, session, history>>
  BY DEF Try, files
<1>2. todo[Svc] = <<>>
  BY DEF Try, IInv, SvcInv
<1>3. ~Disarming
  BY <1>2 DEF Disarming, At, Busy
<1>4. ASSUME marker
      PROVE  ~At(Svc, "arm")'
  <2>1. todo'[Svc] = <<Do("dropMarker"), Do("moveConf")>>
    BY <1>4, MachineFacts DEF Try, IInv, ScriptInv
  <2>2. QED
    BY <2>1, DoHeads DEF At
<1>5. QED
  BY <1>1, <1>3, <1>4 DEF BlameInv, Unlooped

LEMMA BlameOwn ==
  ASSUME IInv, BlameInv, DropMarker \/ MoveConf \/ Arm \/ Source
  PROVE  BlameInv' /\ Unlooped
<1>1. CASE DropMarker
  <2>1. todo'[Svc] = <<Do("moveConf")>>
    BY <1>1, DropMarkerStep
  <2>2. Disarming' /\ ~At(Svc, "arm")'
    BY <2>1, DoHeads DEF Disarming, At, Busy
  <2>3. UNCHANGED <<session, history>>
    BY <1>1 DEF DropMarker, Advance
  <2>4. QED
    BY <2>2, <2>3 DEF BlameInv, Unlooped
<1>2. CASE MoveConf
  <2>1. ~session'.armed /\ ~history'.blamed
    BY <1>2 DEF MoveConf, IInv, StateInv, HistoryTyped, Given
  <2>2. QED
    BY <2>1 DEF BlameInv, Unlooped
<1>3. CASE Arm
  <2>1. todo'[Svc] = <<Do("source")>> /\ marker' = TRUE
    BY <1>3, ArmStep DEF Arm
  <2>2. ~At(Svc, "arm")'
    BY <2>1, DoHeads DEF At
  <2>3. history' = history /\ At(Svc, "arm")
    BY <1>3 DEF Arm, Advance
  <2>4. QED
    BY <2>1, <2>2, <2>3 DEF BlameInv, Unlooped
<1>4. CASE Source
  <2>1. todo'[Svc] \in Seq(Steps) /\ Plainly(todo'[Svc])
    BY <1>4, SourceStep, MachineFacts DEF IInv, ScriptInv
  <2>2. ~At(Svc, "arm")'
    BY <2>1, PlainlyAt DEF At, Busy, ServiceOps
  <2>3. ~Disarming
    BY <1>4 DEF Source, Disarming, At
  <2>4. /\ UNCHANGED <<marker, history>>
        /\ session'.armed = session.armed /\ session'.confirmed = session.confirmed
    BY <1>4 DEF Source, files, IInv, StateInv
  <2>5. QED
    BY <2>2, <2>3, <2>4 DEF BlameInv, Unlooped
<1>5. QED
  BY <1>1, <1>2, <1>3, <1>4

LEMMA BlameResting ==
  ASSUME IInv, BlameInv, BootDone \/ Confirm \/ SysfsUp
  PROVE  BlameInv' /\ Unlooped
<1>1. todo' = todo
  BY RestingSteps
<1>2. CASE BootDone \/ SysfsUp
  <2>1. UNCHANGED <<marker, session, history>>
    BY <1>2 DEF BootDone, SysfsUp, files
  <2>2. QED
    BY <1>1, <2>1 DEF BlameInv, Unlooped, Disarming, At, Busy
<1>3. CASE Confirm
  <2>1. session'.confirmed /\ ~history'.blamed /\ session'.armed = session.armed
    BY <1>3 DEF Confirm, IInv, StateInv, HistoryTyped, Given
  <2>2. QED
    BY <2>1 DEF BlameInv, Unlooped
<1>4. QED
  BY <1>2, <1>3

LEMMA BlameMachine ==
  ASSUME IInv, BlameInv, Crash \/ PowerOff \/ Shutdown
  PROVE  BlameInv' /\ Unlooped
<1>1. CASE Crash
  <2>1. ~At(Svc, "arm")'
    BY <1>1, CrashStep, MachineFacts DEF At, Busy
  <2>2. QED
    BY <1>1, <2>1, CrashStep DEF BlameInv, Unlooped
<1>2. CASE PowerOff
  <2>1. ~At(Svc, "arm")'
    BY <1>2, PowerOffStep, MachineFacts DEF At, Busy
  <2>2. QED
    BY <1>2, <2>1, PowerOffStep DEF BlameInv, Unlooped
<1>3. CASE Shutdown
  <2>1. todo'[Svc] \in Seq(Steps)
    BY <1>3, ShutdownStep, MachineFacts DEF IInv, ScriptInv
  <2>2. ~At(Svc, "arm")'
    BY <1>3, <2>1, ShutdownStep, PlainlyAt DEF At, Busy, ServiceOps
  <2>3. QED
    BY <1>3, <2>2, ShutdownStep DEF BlameInv, Unlooped
<1>4. QED
  BY <1>1, <1>2, <1>3

LEMMA BlameNext == IInv /\ BlameInv /\ [Next]_vars => BlameInv' /\ Unlooped
<1> SUFFICES ASSUME IInv, BlameInv, [Next]_vars PROVE BlameInv' /\ Unlooped
  OBVIOUS
<1>1. ASSUME NEW a \in Actors, ScriptStep(a) PROVE BlameInv' /\ Unlooped
  BY <1>1, BlameScript
<1>2. ASSUME NEW u \in Users, Command(u) PROVE BlameInv' /\ Unlooped
  <2>1. /\ UNCHANGED <<marker, session>> /\ ~history'.blamed /\ todo'[Svc] = todo[Svc]
        /\ history'.torn = history.torn
    <3>1. history'.torn = history.torn
      BY <1>2 DEF Command, StartOffset, StartCurve, StartKnob, StartReset, Start,
                  IInv, StateInv, HistoryTyped
    <3>2. QED
      BY <1>2, <3>1, CommandStep
  <2>2. QED
    BY <2>1 DEF BlameInv, Unlooped, Disarming, At, Busy
<1>3. CASE Try
  BY <1>3, BlameTry
<1>4. CASE DropMarker \/ MoveConf \/ Arm \/ Source
  BY <1>4, BlameOwn
<1>5. CASE BootDone \/ Confirm \/ SysfsUp
  BY <1>5, BlameResting
<1>6. CASE Crash \/ PowerOff \/ Shutdown
  BY <1>6, BlameMachine
<1>7. CASE UNCHANGED vars
  BY <1>7 DEF vars, files, BlameInv, Unlooped, Disarming, At, Busy
<1>8. QED
  BY <1>1, <1>2, <1>3, <1>4, <1>5, <1>6, <1>7 DEF Next, ServiceStep

(* However often the machine crashes and the service tries, settings that   *)
(* took it down before they were confirmed are not applied by a later boot, *)
(* unless a user chose since or a crash fell between removing the marker    *)
(* and moving the conf away.                                                *)
THEOREM LoopBroken == Spec => NoBootLoop
<1>1. Spec => [](IInv /\ BlameInv)
  BY IInvInit, BlameInit, IInvNext, BlameNext, PTL DEF Spec
<1>2. IInv /\ BlameInv /\ [Next]_vars =>
        [~session.armed /\ session'.armed => ~history.blamed \/ history.torn]_vars
  BY BlameNext DEF Unlooped
<1>3. QED
  BY <1>1, <1>2, PTL DEF Spec, NoBootLoop
=============================================================================
