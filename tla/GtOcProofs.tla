------------------------------ MODULE GtOcProofs ------------------------------
(***************************************************************************)
(* Proofs about GtOc: for any curve, lists, knobs and number of callers,    *)
(* whatever calls of the mailbox fail, and whether points take effect at    *)
(* once or when their session ends.                                         *)
(***************************************************************************)
EXTENDS GtOc, TLAPS

(* What PCODE holds, and a call under way                                   *)
Pieces   == UNION {[S -> Millivolts] : S \in SUBSET Points}
Sessions == [curve : [Points -> Millivolts], open : BOOLEAN, staged : Pieces,
             knob : [Knobs -> Int], stagedKnob : [Knobs -> Int \cup {Unset}],
             deferred : BOOLEAN, discards : BOOLEAN]
Requests == [pc : CallPcs, list : Lists \cup {Empty}, mv : Seq(Millivolts), next : Int,
             key : Knobs \cup {Unset}, val : Int, lone : BOOLEAN]

PcodeTyped(s) ==
  /\ s \in Sessions
  /\ \A k \in Knobs : s.knob[k] \in Knob(k) /\ s.stagedKnob[k] \in Knob(k) \cup {Unset}

(* A call that writes points has some, and the next one is among them; one  *)
(* that sets a knob has a value in range.                                   *)
CallTyped(r) ==
  /\ r \in Requests
  /\ Len(r.mv) <= OC_VF_NPTS
  /\ r.next \in 1..(OC_VF_NPTS + 1)
  /\ r.pc \in {"seed", "begin"} => r.next = 1
  /\ r.pc \in {"begin", "write", "end"} => r.mv # <<>>
  /\ r.pc = "write" => r.next <= Len(r.mv)
  /\ r.pc \in {"set", "commit"} => r.key \in Knobs /\ r.val \in Knob(r.key)

(* What was set is what is to be committed, or another caller's value       *)
Committable(s, r) == r.pc = "commit" => s.stagedKnob[r.key] \in Knob(r.key)

HistoryTyped(h) == h \in [listed : SUBSET (Nat \X Millivolts), calls : Int]

TypeInv ==
  /\ PcodeTyped(pcode) /\ HistoryTyped(history)
  /\ call \in [Callers -> Requests]
  /\ \A c \in Callers : CallTyped(call[c]) /\ Committable(pcode, call[c])

LEMMA PointFacts ==
  /\ OC_VF_NPTS \in Nat /\ OC_VF_NPTS >= 1
  /\ Points \subseteq Nat
  /\ StockCurve \in [Points -> Millivolts]
  /\ \A v \in Int : Clamp(v, VMAX) \in Millivolts
BY PointsAssumption, CurveAssumption DEF Points, Clamp, Millivolts

LEMMA KnobFacts ==
  /\ \A k \in Knobs : Knob(k) \subseteq Int /\ StockKnob[k] \in Knob(k)
  /\ \A k \in Knobs, v \in Int : InRange(k, v) => v \in Knob(k)
BY RangeAssumption DEF Knob, InRange

LEMMA EmptyFacts ==
  /\ DOMAIN Empty = {}
  /\ Empty \in Pieces
<1>1. DOMAIN Empty = {}
  BY DEF Empty
<1>2. Empty \in [{} -> Millivolts]
  BY DEF Empty
<1>3. QED
  BY <1>1, <1>2 DEF Pieces

LEMMA PieceFacts ==
  ASSUME NEW f \in Pieces
  PROVE  /\ DOMAIN f \subseteq Points
         /\ \A p \in DOMAIN f : f[p] \in Millivolts
BY DEF Pieces

LEMMA PieceIntro ==
  ASSUME NEW f, NEW S \in SUBSET Points, f \in [S -> Millivolts]
  PROVE  f \in Pieces
BY DEF Pieces

LEMMA ListFacts ==
  ASSUME NEW f \in Lists \cup {Empty}
  PROVE  \A p \in DOMAIN f : p \in Nat /\ f[p] \in Int
BY InputAssumption, EmptyFacts

(* A call as it starts; only one of a knob has a knob                       *)
LEMMA FreshTyped ==
  ASSUME NEW r \in Requests, r.mv = <<>>, r.next = 1,
         r.pc \in {"idle", "show", "seed", "set"},
         r.pc = "set" => r.key \in Knobs /\ r.val \in Knob(r.key)
  PROVE  CallTyped(r)
<1>1. Len(r.mv) = 0 /\ 0 <= OC_VF_NPTS /\ 1 \in 1..(OC_VF_NPTS + 1)
  BY PointFacts
<1>2. QED
  BY <1>1 DEF CallTyped

LEMMA IdleCall ==
  /\ CallTyped(Call("idle", Empty, Unset, 0))
  /\ Call("idle", Empty, Unset, 0).pc = "idle" /\ Call("idle", Empty, Unset, 0).lone
  /\ Call("idle", Empty, Unset, 0).mv = <<>>
<1> DEFINE r == Call("idle", Empty, Unset, 0)
<1>1. r.pc = "idle" /\ r.lone /\ r.mv = <<>> /\ r.next = 1
  BY DEF Call
<1>2. r \in Requests
  BY DEF Requests, CallPcs, Call
<1> HIDE DEF r
<1>3. CallTyped(r)
  BY <1>1, <1>2, FreshTyped
<1>4. QED
  BY <1>1, <1>3 DEF r

LEMMA ShowCalled ==
  /\ CallTyped(Call("show", Empty, Unset, 0))
  /\ Call("show", Empty, Unset, 0).pc = "show" /\ Call("show", Empty, Unset, 0).mv = <<>>
<1> DEFINE r == Call("show", Empty, Unset, 0)
<1>1. r.pc = "show" /\ r.mv = <<>> /\ r.next = 1
  BY DEF Call
<1>2. r \in Requests
  BY DEF Requests, CallPcs, Call
<1> HIDE DEF r
<1>3. CallTyped(r)
  BY <1>1, <1>2, FreshTyped
<1>4. QED
  BY <1>1, <1>3 DEF r

LEMMA SeedCalled ==
  ASSUME NEW f \in Lists
  PROVE  /\ CallTyped(Call("seed", f, Unset, 0))
         /\ Call("seed", f, Unset, 0).pc = "seed" /\ Call("seed", f, Unset, 0).mv = <<>>
         /\ Call("seed", f, Unset, 0).list = f
<1> DEFINE r == Call("seed", f, Unset, 0)
<1>1. r.pc = "seed" /\ r.mv = <<>> /\ r.next = 1 /\ r.list = f
  BY DEF Call
<1>2. r \in Requests
  BY DEF Requests, CallPcs, Call
<1> HIDE DEF r
<1>3. CallTyped(r)
  BY <1>1, <1>2, FreshTyped
<1>4. QED
  BY <1>1, <1>3 DEF r

LEMMA SetCalled ==
  ASSUME NEW k \in Knobs, NEW v \in Int, v \in Knob(k)
  PROVE  /\ CallTyped(Call("set", Empty, k, v))
         /\ Call("set", Empty, k, v).pc = "set" /\ Call("set", Empty, k, v).mv = <<>>
<1> DEFINE r == Call("set", Empty, k, v)
<1>1. r.pc = "set" /\ r.mv = <<>> /\ r.next = 1 /\ r.key = k /\ r.val = v
  BY DEF Call
<1>2. r \in Requests
  BY DEF Requests, CallPcs, Call
<1> HIDE DEF r
<1>3. CallTyped(r)
  BY <1>1, <1>2, FreshTyped
<1>4. QED
  BY <1>1, <1>3 DEF r

LEMMA IdleTyped ==
  CallTyped(Idle) /\ Idle.pc = "idle" /\ Idle.lone /\ Idle.mv = <<>>
BY IdleCall DEF Idle
-----------------------------------------------------------------------------
(* What Edited makes of points that were read *)
LEMMA EditedFacts ==
  ASSUME NEW mv \in Seq(Millivolts), NEW f \in Lists \cup {Empty}
  PROVE  /\ Edited(mv, f) \in Seq(Millivolts)
         /\ Len(Edited(mv, f)) = Len(mv)
         /\ DOMAIN Edited(mv, f) = DOMAIN mv
         /\ \A p \in DOMAIN mv :
              Edited(mv, f)[p] = IF p \in DOMAIN f THEN Clamp(f[p], VMAX) ELSE mv[p]
<1>1. DOMAIN mv = 1..Len(mv) /\ Len(mv) \in Nat /\ \A p \in DOMAIN mv : mv[p] \in Millivolts
  OBVIOUS
<1>2. \A p \in DOMAIN mv :
        (IF p \in DOMAIN f THEN Clamp(f[p], VMAX) ELSE mv[p]) \in Millivolts
  BY <1>1, PointFacts, ListFacts
<1>3. Edited(mv, f) \in [1..Len(mv) -> Millivolts]
  BY <1>1, <1>2 DEF Edited
<1>4. Edited(mv, f) \in Seq(Millivolts) /\ Len(Edited(mv, f)) = Len(mv)
  BY <1>1, <1>3
<1>5. QED
  BY <1>1, <1>4 DEF Edited

(* Starting a call changes no other but for its being alone                 *)
LEMMA StartFacts ==
  ASSUME NEW c \in Callers, NEW r, CallTyped(r), TypeInv, Start(c, r)
  PROVE  /\ call' \in [Callers -> Requests]
         /\ \A x \in Callers : CallTyped(call'[x])
         /\ \A x \in Callers \ {c} :
              /\ call'[x] = IF call[x].pc = "idle" THEN Idle ELSE [call[x] EXCEPT !.lone = FALSE]
              /\ \/ call'[x].pc = call[x].pc /\ call'[x].key = call[x].key
                 \/ call'[x] = Idle
         /\ call'[c] = [r EXCEPT !.lone = \A y \in Callers : call[y].pc = "idle"]
         /\ call[c].pc = "idle" /\ call'[c].pc = r.pc /\ call'[c].mv = r.mv
         /\ call'[c].list = r.list /\ call'[c].key = r.key
         /\ pcode' = pcode
<1> DEFINE Alone == \A y \in Callers : call[y].pc = "idle"
<1>1. /\ call' = [x \in Callers |->
           IF x = c THEN [r EXCEPT !.lone = Alone]
           ELSE IF call[x].pc = "idle" THEN Idle ELSE [call[x] EXCEPT !.lone = FALSE]]
      /\ call[c].pc = "idle" /\ pcode' = pcode
  BY DEF Start, At
<1>2. Alone \in BOOLEAN
  OBVIOUS
<1> HIDE DEF Alone
<1>3. CallTyped([r EXCEPT !.lone = Alone])
  BY <1>2 DEF CallTyped, Requests
<1>4. ASSUME NEW x \in Callers \ {c}
      PROVE  CallTyped(call'[x])
  <2>1. CASE call[x].pc = "idle"
    BY <1>1, <2>1, IdleTyped
  <2>2. CASE call[x].pc # "idle"
    <3>1. call'[x] = [call[x] EXCEPT !.lone = FALSE] /\ CallTyped(call[x])
      BY <1>1, <2>2 DEF TypeInv
    <3>2. QED
      BY <3>1 DEF CallTyped, Requests
  <2>3. QED
    BY <2>1, <2>2
<1>5. /\ call'[c] = [r EXCEPT !.lone = Alone]
      /\ \A x \in Callers \ {c} :
           call'[x] = IF call[x].pc = "idle" THEN Idle ELSE [call[x] EXCEPT !.lone = FALSE]
  BY <1>1
<1>6. \A x \in Callers : CallTyped(call'[x])
  BY <1>3, <1>4, <1>5
<1>7. call' \in [Callers -> Requests]
  BY <1>1, <1>6 DEF CallTyped
<1>8. ASSUME NEW x \in Callers \ {c}
      PROVE  \/ call'[x].pc = call[x].pc /\ call'[x].key = call[x].key
             \/ call'[x] = Idle
  <2>1. CASE call[x].pc = "idle"
    BY <1>5, <2>1
  <2>2. CASE call[x].pc # "idle"
    <3>1. call'[x] = [call[x] EXCEPT !.lone = FALSE] /\ call[x] \in Requests
      BY <1>5, <2>2 DEF TypeInv
    <3>2. QED
      BY <3>1 DEF Requests
  <2>3. QED
    BY <2>1, <2>2
<1>9. r \in Requests
  BY DEF CallTyped
<1>10. /\ call'[c].pc = r.pc /\ call'[c].mv = r.mv
       /\ call'[c].list = r.list /\ call'[c].key = r.key
  BY <1>5, <1>9 DEF Requests
<1>11. QED
  BY <1>1, <1>5, <1>6, <1>7, <1>8, <1>10 DEF Alone

(* Every other step changes one call only                                   *)
LEMMA OneCall ==
  ASSUME NEW c \in Callers, NEW r, CallTyped(r), TypeInv, call' = [call EXCEPT ![c] = r]
  PROVE  /\ call' \in [Callers -> Requests]
         /\ \A x \in Callers : CallTyped(call'[x])
         /\ call'[c] = r
         /\ \A x \in Callers \ {c} : call'[x] = call[x]
BY DEF TypeInv, CallTyped
-----------------------------------------------------------------------------
LEMMA TypeInit == Init => TypeInv
<1> SUFFICES ASSUME Init PROVE TypeInv
  OBVIOUS
<1>1. /\ pcode \in [curve : {StockCurve}, open : {FALSE}, staged : {Empty},
                    knob : {StockKnob}, stagedKnob : {[k \in Knobs |-> Unset]},
                    deferred : BOOLEAN, discards : BOOLEAN]
      /\ call = [c \in Callers |-> Idle]
      /\ history = [listed |-> {}, calls |-> 0]
  BY DEF Init
<1>2. PcodeTyped(pcode)
  <2>1. /\ pcode.curve = StockCurve /\ pcode.open = FALSE /\ pcode.staged = Empty
        /\ pcode.knob = StockKnob /\ pcode.stagedKnob = [k \in Knobs |-> Unset]
        /\ pcode.deferred \in BOOLEAN /\ pcode.discards \in BOOLEAN
        /\ pcode = [curve |-> pcode.curve, open |-> pcode.open, staged |-> pcode.staged,
                    knob |-> pcode.knob, stagedKnob |-> pcode.stagedKnob,
                    deferred |-> pcode.deferred, discards |-> pcode.discards]
    BY <1>1
  <2>2. [k \in Knobs |-> Unset] \in [Knobs -> Int \cup {Unset}]
    OBVIOUS
  <2>3. pcode \in Sessions
    BY <2>1, <2>2, PointFacts, EmptyFacts, RangeAssumption DEF Sessions
  <2>4. QED
    BY <2>1, <2>3, KnobFacts DEF PcodeTyped
<1>3. QED
  BY <1>1, <1>2, IdleTyped DEF TypeInv, HistoryTyped, CallTyped, Committable

(* A step that sets no knob leaves what is to be committed alone            *)
LEMMA StagedKnobsKept ==
  ASSUME TypeInv, NEW s, s.stagedKnob = pcode.stagedKnob
  PROVE  \A c \in Callers : Committable(s, call[c])
BY DEF TypeInv, Committable

LEMMA TypeStart ==
  ASSUME TypeInv, NEW c \in Callers, ShowCurve(c) \/ StoreCurve(c) \/ StoreKnob(c)
  PROVE  TypeInv'
<1>1. ASSUME NEW r, CallTyped(r), r.pc # "commit", Start(c, r), HistoryTyped(history')
      PROVE  TypeInv'
  <2>1. \A x \in Callers : Committable(pcode', call'[x])
    <3> SUFFICES ASSUME NEW x \in Callers PROVE Committable(pcode', call'[x])
      OBVIOUS
    <3>1. CASE x = c
      BY <1>1, <3>1, StartFacts DEF Committable
    <3>2. CASE x # c
      <4>1. \/ call'[x].pc = call[x].pc /\ call'[x].key = call[x].key
            \/ call'[x].pc = "idle"
        BY <1>1, <3>2, StartFacts, IdleTyped
      <4>2. pcode' = pcode /\ Committable(pcode, call[x])
        BY <1>1, StartFacts DEF TypeInv
      <4>3. QED
        BY <4>1, <4>2 DEF Committable
    <3>3. QED
      BY <3>1, <3>2
  <2>2. /\ call' \in [Callers -> Requests] /\ pcode' = pcode
        /\ \A x \in Callers : CallTyped(call'[x])
    BY <1>1, StartFacts
  <2>3. QED
    BY <1>1, <2>1, <2>2 DEF TypeInv
<1>2. CASE ShowCurve(c)
  <2>1. HistoryTyped(history')
    BY <1>2 DEF ShowCurve, TypeInv, HistoryTyped
  <2>2. CallTyped(Call("show", Empty, Unset, 0)) /\ Call("show", Empty, Unset, 0).pc = "show"
    BY ShowCalled
  <2>3. QED
    BY <1>1, <1>2, <2>1, <2>2 DEF ShowCurve
<1>3. CASE StoreCurve(c)
  <2>1. PICK f \in Lists :
          /\ Start(c, Call("seed", f, Unset, 0))
          /\ history' = [history EXCEPT !.calls = @ + 1,
                            !.listed = @ \cup {<<p, Clamp(f[p], VMAX)>> : p \in DOMAIN f}]
    BY <1>3 DEF StoreCurve
  <2>3. {<<p, Clamp(f[p], VMAX)>> : p \in DOMAIN f} \subseteq Nat \X Millivolts
    BY PointFacts, ListFacts
  <2>4. HistoryTyped(history')
    <3>1. history \in [listed : SUBSET (Nat \X Millivolts), calls : Int]
      BY DEF TypeInv, HistoryTyped
    <3>2. history' = [listed |-> history.listed \cup {<<p, Clamp(f[p], VMAX)>> : p \in DOMAIN f},
                      calls |-> history.calls + 1]
      BY <2>1, <3>1
    <3>3. QED
      BY <2>3, <3>1, <3>2 DEF HistoryTyped
  <2>5. CallTyped(Call("seed", f, Unset, 0)) /\ Call("seed", f, Unset, 0).pc = "seed"
    BY SeedCalled
  <2>6. QED
    BY <1>1, <2>1, <2>4, <2>5
<1>4. CASE StoreKnob(c)
  <2>1. PICK kv \in KnobChoices :
          /\ InRange(kv[1], kv[2])
          /\ Start(c, Call("set", Empty, kv[1], kv[2]))
          /\ history' = [history EXCEPT !.calls = @ + 1]
    BY <1>4 DEF StoreKnob
  <2>2. kv[1] \in Knobs /\ kv[2] \in Int /\ kv[2] \in Knob(kv[1])
    BY <2>1, KnobFacts, InputAssumption
  <2>4. HistoryTyped(history')
    BY <2>1 DEF TypeInv, HistoryTyped
  <2>5. /\ CallTyped(Call("set", Empty, kv[1], kv[2]))
        /\ Call("set", Empty, kv[1], kv[2]).pc = "set"
    BY <2>2, SetCalled
  <2>6. QED
    BY <1>1, <2>1, <2>4, <2>5
<1>5. QED
  BY <1>2, <1>3, <1>4

(* What the steps of a call leave in the call itself                        *)
LEMMA ReadFacts ==
  ASSUME TypeInv, NEW c \in Callers, ReadPoint(c)
  PROVE  /\ CallTyped(call'[c])
         /\ call'[c] = [call[c] EXCEPT !.mv = Append(@, pcode.curve[Len(@) + 1])]
         /\ Len(call[c].mv) + 1 \in Points
         /\ \A x \in Callers \ {c} : call'[x] = call[x]
         /\ call' \in [Callers -> Requests]
<1> DEFINE mv == call[c].mv
<1>1. /\ call[c] \in Requests /\ CallTyped(call[c]) /\ mv \in Seq(Millivolts)
      /\ pcode.curve \in [Points -> Millivolts]
  BY DEF TypeInv, PcodeTyped, Sessions, Requests
<1>2. Len(mv) + 1 \in Points /\ Len(mv) \in Nat
  BY <1>1, PointFacts DEF ReadPoint, Points
<1>3. Append(mv, pcode.curve[Len(mv) + 1]) \in Seq(Millivolts)
  BY <1>1, <1>2
<1>4. Len(Append(mv, pcode.curve[Len(mv) + 1])) = Len(mv) + 1
  BY <1>1, <1>2
<1>5. call' = [call EXCEPT ![c].mv = Append(mv, pcode.curve[Len(mv) + 1])]
  BY DEF ReadPoint
<1> HIDE DEF mv
<1> DEFINE r == [call[c] EXCEPT !.mv = Append(mv, pcode.curve[Len(mv) + 1])]
<1>6. CallTyped(r)
  <2>1. r \in Requests
    BY <1>1, <1>3 DEF Requests
  <2>2. /\ r.pc = call[c].pc /\ r.next = call[c].next /\ r.key = call[c].key
        /\ r.val = call[c].val /\ r.mv = Append(mv, pcode.curve[Len(mv) + 1])
    BY <1>1 DEF Requests
  <2>3. Len(r.mv) <= OC_VF_NPTS
    BY <1>2, <1>4, <2>2 DEF Points
  <2>4. r.pc \in {"show", "seed"}
    BY <2>2 DEF ReadPoint
  <2>5. QED
    BY <1>1, <2>1, <2>2, <2>3, <2>4 DEF CallTyped
<1>7. call' = [call EXCEPT ![c] = r]
  BY <1>5 DEF TypeInv
<1>8. QED
  BY <1>2, <1>6, <1>7, OneCall DEF mv

LEMMA EditFacts ==
  ASSUME TypeInv, NEW c \in Callers, Edit(c)
  PROVE  /\ CallTyped(call'[c])
         /\ call[c].pc = "seed" /\ call'[c].pc = "begin"
         /\ call'[c].mv = Edited(call[c].mv, call[c].list)
         /\ call'[c].list = call[c].list /\ call'[c].lone = call[c].lone
         /\ \A x \in Callers \ {c} : call'[x] = call[x]
         /\ call' \in [Callers -> Requests]
<1> DEFINE mv == Edited(call[c].mv, call[c].list)
           r  == [call[c] EXCEPT !.mv = mv, !.pc = "begin"]
<1>1. /\ call[c] \in Requests /\ CallTyped(call[c]) /\ call[c].mv \in Seq(Millivolts)
      /\ call[c].list \in Lists \cup {Empty} /\ call[c].mv # <<>> /\ call[c].pc = "seed"
  BY DEF TypeInv, Requests, Edit, At
<1>2. /\ mv \in Seq(Millivolts) /\ Len(mv) = Len(call[c].mv)
  BY <1>1, EditedFacts
<1>3. mv # <<>> /\ Len(mv) <= OC_VF_NPTS
  BY <1>1, <1>2 DEF CallTyped
<1>4. call' = [call EXCEPT ![c] = r]
  BY DEF Edit, TypeInv
<1> HIDE DEF mv
<1>5. /\ r \in Requests /\ r.mv = mv /\ r.pc = "begin" /\ r.next = call[c].next
      /\ r.list = call[c].list /\ r.lone = call[c].lone
  BY <1>1, <1>2 DEF Requests, CallPcs
<1>6. CallTyped(r)
  BY <1>1, <1>3, <1>5 DEF CallTyped
<1> HIDE DEF r
<1>7. call'[c] = r /\ CallTyped(call'[c])
  BY <1>4, <1>6, OneCall
<1>8. QED
  BY <1>1, <1>4, <1>5, <1>6, <1>7, OneCall DEF mv

(* The steps of a call that has its points, each with what follows of it    *)
LEMMA BeginFacts ==
  ASSUME TypeInv, NEW c \in Callers, Begin(c)
  PROVE  /\ CallTyped(call'[c])
         /\ call[c].pc = "begin" /\ call'[c].pc = "write" /\ call'[c].next = 1
         /\ call'[c].mv = call[c].mv /\ call'[c].list = call[c].list
         /\ call'[c].lone = call[c].lone
         /\ \A x \in Callers \ {c} : call'[x] = call[x]
         /\ call' \in [Callers -> Requests]
<1> DEFINE r == [call[c] EXCEPT !.pc = "write"]
<1>1. /\ call[c] \in Requests /\ CallTyped(call[c]) /\ call[c].mv \in Seq(Millivolts)
      /\ call[c].mv # <<>> /\ call[c].pc = "begin" /\ call[c].next = 1
  BY DEF TypeInv, Requests, Begin, At, CallTyped
<1>2. /\ r \in Requests /\ r.mv = call[c].mv /\ r.pc = "write" /\ r.next = 1
      /\ r.list = call[c].list /\ r.lone = call[c].lone
  BY <1>1 DEF Requests, CallPcs
<1>3. 1 <= Len(call[c].mv)
  BY <1>1
<1>4. CallTyped(r)
  BY <1>1, <1>2, <1>3 DEF CallTyped
<1>5. call' = [call EXCEPT ![c] = r]
  BY DEF Begin, TypeInv
<1> HIDE DEF r
<1>6. QED
  BY <1>1, <1>2, <1>4, <1>5, OneCall

Stepped(q, n, pc) == [q EXCEPT !.next = n, !.pc = pc]

LEMMA SteppedFacts ==
  ASSUME NEW q \in Requests, NEW n \in Int, NEW pc \in CallPcs
  PROVE  /\ Stepped(q, n, pc) \in Requests
         /\ Stepped(q, n, pc).next = n /\ Stepped(q, n, pc).pc = pc
         /\ Stepped(q, n, pc).mv = q.mv /\ Stepped(q, n, pc).list = q.list
         /\ Stepped(q, n, pc).lone = q.lone
BY DEF Requests, Stepped

LEMMA WriteFacts ==
  ASSUME TypeInv, NEW c \in Callers, WritePoint(c)
  PROVE  /\ CallTyped(call'[c])
         /\ call'[c] = Stepped(call[c], call[c].next + 1,
                              IF call[c].next = Len(call[c].mv) THEN "end" ELSE "write")
         /\ call[c].next \in DOMAIN call[c].mv /\ call[c].next \in Points
         /\ call[c].mv[call[c].next] \in Millivolts
         /\ \A x \in Callers \ {c} : call'[x] = call[x]
         /\ call' \in [Callers -> Requests]
<1> DEFINE p  == call[c].next
           pc == IF p = Len(call[c].mv) THEN "end" ELSE "write"
           r  == Stepped(call[c], p + 1, pc)
<1>1. /\ call[c] \in Requests /\ CallTyped(call[c]) /\ call[c].mv \in Seq(Millivolts)
      /\ call[c].mv # <<>> /\ call[c].pc = "write" /\ p \in 1..(OC_VF_NPTS + 1)
      /\ p <= Len(call[c].mv) /\ Len(call[c].mv) <= OC_VF_NPTS
  BY DEF TypeInv, Requests, WritePoint, At, CallTyped
<1>2. p \in DOMAIN call[c].mv /\ p \in Points /\ call[c].mv[p] \in Millivolts
  BY <1>1, PointFacts DEF Points
<1>3. p + 1 \in 1..(OC_VF_NPTS + 1) /\ p \in Int
  BY <1>1, PointFacts
<1>4. pc = "write" => p + 1 <= Len(call[c].mv)
  BY <1>1, PointFacts
<1>5. call' = [call EXCEPT ![c] = r]
  BY DEF WritePoint, TypeInv, Stepped
<1>6. pc \in {"write", "end"}
  OBVIOUS
<1> HIDE DEF p, pc
<1>7. /\ r \in Requests /\ r.mv = call[c].mv /\ r.pc = pc /\ r.next = p + 1
  <2>1. pc \in CallPcs /\ p + 1 \in Int
    BY <1>3, <1>6 DEF CallPcs
  <2>2. QED
    BY <1>1, <2>1, SteppedFacts
<1>8. CallTyped(r)
  BY <1>1, <1>3, <1>4, <1>6, <1>7 DEF CallTyped
<1>9. QED
  BY <1>2, <1>5, <1>8, OneCall DEF p, pc

LEMMA SetFacts ==
  ASSUME TypeInv, NEW c \in Callers, SetKnob(c)
  PROVE  /\ CallTyped(call'[c])
         /\ call'[c] = [call[c] EXCEPT !.pc = "commit"]
         /\ call[c].key \in Knobs /\ call[c].val \in Knob(call[c].key)
         /\ \A x \in Callers \ {c} : call'[x] = call[x]
         /\ call' \in [Callers -> Requests]
<1> DEFINE r == [call[c] EXCEPT !.pc = "commit"]
<1>1. /\ call[c] \in Requests /\ CallTyped(call[c]) /\ call[c].pc = "set"
  BY DEF TypeInv, SetKnob, At
<1>2. /\ r \in Requests /\ r.mv = call[c].mv /\ r.pc = "commit" /\ r.next = call[c].next
      /\ r.key = call[c].key /\ r.val = call[c].val
  BY <1>1 DEF Requests, CallPcs
<1>3. CallTyped(r)
  BY <1>1, <1>2 DEF CallTyped
<1>4. call' = [call EXCEPT ![c] = r]
  BY DEF SetKnob, TypeInv
<1>5. QED
  BY <1>1, <1>3, <1>4, OneCall DEF CallTyped

LEMMA ReturnFacts ==
  ASSUME TypeInv, NEW c \in Callers, Return(c)
  PROVE  /\ CallTyped(call'[c])
         /\ call'[c] = Idle
         /\ \A x \in Callers \ {c} : call'[x] = call[x]
         /\ call' \in [Callers -> Requests]
BY IdleTyped, OneCall DEF Return
-----------------------------------------------------------------------------
(* What the steps leave in PCODE                                            *)
LEMMA PcodeFacts ==
  ASSUME TypeInv
  PROVE  /\ pcode \in Sessions
         /\ pcode.curve \in [Points -> Millivolts]
         /\ pcode.staged \in Pieces
         /\ DOMAIN pcode.staged \subseteq Points
         /\ \A p \in DOMAIN pcode.staged : pcode.staged[p] \in Millivolts
         /\ \A k \in Knobs : pcode.knob[k] \in Knob(k) /\ pcode.stagedKnob[k] \in Knob(k) \cup {Unset}
BY PieceFacts DEF TypeInv, PcodeTyped, Sessions

LEMMA BeginPcode ==
  ASSUME TypeInv, NEW c \in Callers, Begin(c)
  PROVE  /\ PcodeTyped(pcode')
         /\ pcode'.curve = pcode.curve /\ pcode'.deferred = pcode.deferred /\ pcode'.discards = pcode.discards
         /\ pcode'.staged = IF pcode.discards THEN Empty ELSE pcode.staged
         /\ pcode'.stagedKnob = pcode.stagedKnob
<1>1. pcode' = [pcode EXCEPT !.open = TRUE,
                             !.staged = IF pcode.discards THEN Empty ELSE pcode.staged]
  BY DEF Begin, Opened
<1>2. QED
  BY <1>1, PcodeFacts, EmptyFacts DEF PcodeTyped, Sessions

LEMMA WritePcode ==
  ASSUME TypeInv, NEW c \in Callers, WritePoint(c)
  PROVE  LET p == call[c].next
             v == call[c].mv[p]
         IN /\ PcodeTyped(pcode')
            /\ pcode'.deferred = pcode.deferred /\ pcode'.discards = pcode.discards
            /\ pcode'.stagedKnob = pcode.stagedKnob
            /\ pcode.deferred =>
                 /\ pcode'.curve = pcode.curve
                 /\ DOMAIN pcode'.staged = DOMAIN pcode.staged \cup {p}
                 /\ \A q \in DOMAIN pcode'.staged :
                      pcode'.staged[q] = IF q = p THEN v ELSE pcode.staged[q]
            /\ ~pcode.deferred =>
                 /\ pcode'.staged = pcode.staged
                 /\ \A q \in Points : pcode'.curve[q] = IF q = p THEN v ELSE pcode.curve[q]
<1> DEFINE p == call[c].next
           v == call[c].mv[p]
           more == [q \in DOMAIN pcode.staged \cup {p} |-> IF q = p THEN v ELSE pcode.staged[q]]
<1>1. p \in Points /\ v \in Millivolts
  BY WriteFacts
<1>2. /\ pcode.deferred => pcode' = [pcode EXCEPT !.staged = more]
      /\ ~pcode.deferred => pcode' = [pcode EXCEPT !.curve[p] = v]
  BY DEF WritePoint
<1> HIDE DEF p, v
<1>3. CASE pcode.deferred
  <2>1. /\ DOMAIN pcode.staged \cup {p} \in SUBSET Points
        /\ more \in [DOMAIN pcode.staged \cup {p} -> Millivolts]
    BY <1>1, PcodeFacts
  <2>2. more \in Pieces
    BY <2>1, PieceIntro
  <2>3. DOMAIN more = DOMAIN pcode.staged \cup {p}
    OBVIOUS
  <2>4. \A q \in DOMAIN more : more[q] = IF q = p THEN v ELSE pcode.staged[q]
    OBVIOUS
  <2> HIDE DEF more
  <2>5. /\ PcodeTyped(pcode') /\ pcode'.curve = pcode.curve /\ pcode'.staged = more
        /\ pcode'.deferred = pcode.deferred /\ pcode'.discards = pcode.discards /\ pcode'.stagedKnob = pcode.stagedKnob
    BY <1>2, <1>3, <2>2, PcodeFacts DEF PcodeTyped, Sessions
  <2>6. QED
    BY <1>3, <2>3, <2>4, <2>5 DEF p, v
<1>4. CASE ~pcode.deferred
  <2>1. /\ PcodeTyped(pcode') /\ pcode'.curve = [pcode.curve EXCEPT ![p] = v]
        /\ pcode'.staged = pcode.staged
        /\ pcode'.deferred = pcode.deferred /\ pcode'.discards = pcode.discards /\ pcode'.stagedKnob = pcode.stagedKnob
    BY <1>1, <1>2, <1>4, PcodeFacts DEF PcodeTyped, Sessions
  <2>2. \A q \in Points : pcode'.curve[q] = IF q = p THEN v ELSE pcode.curve[q]
    BY <1>1, <2>1, PcodeFacts
  <2>3. QED
    BY <1>4, <2>1, <2>2 DEF p, v
<1>5. QED
  BY <1>3, <1>4

LEMMA EndPcode ==
  ASSUME TypeInv, NEW c \in Callers, End(c)
  PROVE  /\ PcodeTyped(pcode')
         /\ pcode'.deferred = pcode.deferred /\ pcode'.discards = pcode.discards /\ pcode'.stagedKnob = pcode.stagedKnob
         /\ \/ pcode' = pcode
            \/ /\ pcode'.staged = Empty
               /\ pcode'.curve = [p \in Points |-> IF p \in DOMAIN pcode.staged THEN pcode.staged[p]
                                                   ELSE pcode.curve[p]]
<1> DEFINE new == [p \in Points |-> IF p \in DOMAIN pcode.staged THEN pcode.staged[p]
                                    ELSE pcode.curve[p]]
<1>1. \/ pcode' = pcode
      \/ pcode' = [pcode EXCEPT !.open = FALSE, !.staged = Empty, !.curve = new]
  BY DEF End
<1>2. new \in [Points -> Millivolts]
  BY PcodeFacts
<1> HIDE DEF new
<1>3. ASSUME pcode' = pcode
      PROVE  PcodeTyped(pcode')
  BY <1>3 DEF TypeInv
<1>4. ASSUME pcode' = [pcode EXCEPT !.open = FALSE, !.staged = Empty, !.curve = new]
      PROVE  /\ PcodeTyped(pcode')
             /\ pcode'.staged = Empty /\ pcode'.curve = new
             /\ pcode'.deferred = pcode.deferred /\ pcode'.discards = pcode.discards /\ pcode'.stagedKnob = pcode.stagedKnob
  BY <1>2, <1>4, PcodeFacts, EmptyFacts DEF PcodeTyped, Sessions
<1>5. QED
  BY <1>1, <1>3, <1>4 DEF new

LEMMA SetPcode ==
  ASSUME TypeInv, NEW c \in Callers, SetKnob(c)
  PROVE  /\ PcodeTyped(pcode')
         /\ pcode'.curve = pcode.curve /\ pcode'.staged = pcode.staged
         /\ pcode'.deferred = pcode.deferred /\ pcode'.discards = pcode.discards
         /\ \A k \in Knobs : pcode'.stagedKnob[k] =
              IF k = call[c].key THEN call[c].val ELSE pcode.stagedKnob[k]
<1> DEFINE k == call[c].key
           v == call[c].val
<1>1. pcode' = [pcode EXCEPT !.stagedKnob[k] = v]
  BY DEF SetKnob
<1>2. k \in Knobs /\ v \in Knob(k) /\ v \in Int
  BY SetFacts, KnobFacts
<1> HIDE DEF k, v
<1>3. /\ pcode' \in Sessions
      /\ pcode'.curve = pcode.curve /\ pcode'.staged = pcode.staged
      /\ pcode'.deferred = pcode.deferred /\ pcode'.discards = pcode.discards /\ pcode'.knob = pcode.knob
      /\ pcode'.stagedKnob = [pcode.stagedKnob EXCEPT ![k] = v]
      /\ pcode.stagedKnob \in [Knobs -> Int \cup {Unset}]
  BY <1>1, <1>2, PcodeFacts DEF Sessions
<1>4. \A j \in Knobs : pcode'.stagedKnob[j] = IF j = k THEN v ELSE pcode.stagedKnob[j]
  BY <1>2, <1>3
<1>5. PcodeTyped(pcode')
  BY <1>2, <1>3, <1>4, PcodeFacts DEF PcodeTyped
<1>6. QED
  BY <1>3, <1>4, <1>5 DEF k, v

LEMMA CommitPcode ==
  ASSUME TypeInv, NEW c \in Callers, CommitKnob(c)
  PROVE  /\ PcodeTyped(pcode')
         /\ pcode'.curve = pcode.curve /\ pcode'.staged = pcode.staged
         /\ pcode'.deferred = pcode.deferred /\ pcode'.discards = pcode.discards /\ pcode'.stagedKnob = pcode.stagedKnob
<1> DEFINE k == call[c].key
           v == pcode.stagedKnob[k]
<1>1. \/ pcode' = [pcode EXCEPT !.knob[k] = v]
      \/ pcode' = pcode
  BY DEF CommitKnob
<1>2. k \in Knobs /\ v \in Knob(k)
  BY DEF TypeInv, CommitKnob, At, Committable, CallTyped
<1>3. v \in Int
  BY <1>2, KnobFacts
<1> HIDE DEF k, v
<1>4. CASE pcode' = [pcode EXCEPT !.knob[k] = v]
  <2>1. /\ pcode' \in Sessions
        /\ pcode'.curve = pcode.curve /\ pcode'.staged = pcode.staged
        /\ pcode'.deferred = pcode.deferred /\ pcode'.discards = pcode.discards /\ pcode'.stagedKnob = pcode.stagedKnob
        /\ pcode'.knob = [pcode.knob EXCEPT ![k] = v]
        /\ pcode.knob \in [Knobs -> Int]
    BY <1>2, <1>3, <1>4, PcodeFacts DEF Sessions
  <2>2. QED
    BY <1>2, <2>1, PcodeFacts DEF PcodeTyped
<1>5. CASE pcode' = pcode
  BY <1>5 DEF TypeInv
<1>6. QED
  BY <1>1, <1>4, <1>5
-----------------------------------------------------------------------------
(* A step of a call under way *)
Steps(c) ==
  \/ ReadPoint(c) \/ Printed(c) \/ Edit(c) \/ Begin(c) \/ WritePoint(c) \/ End(c)
  \/ SetKnob(c) \/ CommitKnob(c) \/ Fails(c)

LEMMA StepFacts ==
  ASSUME TypeInv, NEW c \in Callers, Steps(c)
  PROVE  /\ call' \in [Callers -> Requests]
         /\ CallTyped(call'[c])
         /\ \A x \in Callers \ {c} : call'[x] = call[x]
         /\ history' = history
         /\ PcodeTyped(pcode')
         /\ ~SetKnob(c) => pcode'.stagedKnob = pcode.stagedKnob /\ call'[c].pc # "commit"
<1>1. CASE ReadPoint(c)
  <2>1. call'[c].pc = call[c].pc /\ call[c].pc \in {"show", "seed"}
    BY <1>1, ReadFacts DEF ReadPoint, TypeInv, Requests
  <2>2. QED
    BY <1>1, <2>1, ReadFacts DEF ReadPoint, TypeInv
<1>2. CASE Printed(c) \/ Fails(c)
  <2>1. Return(c) /\ pcode' = pcode /\ history' = history
    BY <1>2 DEF Printed, Fails
  <2>2. QED
    BY <2>1, ReturnFacts, IdleTyped DEF TypeInv
<1>3. CASE Edit(c)
  <2>1. call'[c].pc = "begin"
    BY <1>3, EditFacts
  <2>2. QED
    BY <1>3, <2>1, EditFacts DEF Edit, TypeInv
<1>4. CASE Begin(c)
  <2>1. call'[c].pc = "write"
    BY <1>4, BeginFacts
  <2>2. QED
    BY <1>4, <2>1, BeginFacts, BeginPcode DEF Begin
<1>5. CASE WritePoint(c)
  <2>1. call'[c].pc \in {"write", "end"}
    BY <1>5, WriteFacts DEF TypeInv, Requests, Stepped
  <2>2. QED
    BY <1>5, <2>1, WriteFacts, WritePcode DEF WritePoint
<1>6. CASE End(c)
  <2>1. Return(c) /\ history' = history
    BY <1>6 DEF End
  <2>2. QED
    BY <1>6, <2>1, ReturnFacts, EndPcode, IdleTyped
<1>7. CASE SetKnob(c)
  BY <1>7, SetFacts, SetPcode DEF SetKnob
<1>8. CASE CommitKnob(c)
  <2>1. Return(c) /\ history' = history
    BY <1>8 DEF CommitKnob
  <2>2. QED
    BY <1>8, <2>1, ReturnFacts, CommitPcode, IdleTyped
<1>9. QED
  BY <1>1, <1>2, <1>3, <1>4, <1>5, <1>6, <1>7, <1>8 DEF Steps

LEMMA TypeSteps ==
  ASSUME TypeInv, NEW c \in Callers, Steps(c)
  PROVE  TypeInv'
<1>1. ASSUME NEW x \in Callers
      PROVE  CallTyped(call'[x]) /\ Committable(pcode', call'[x])
  <2>1. CASE ~SetKnob(c) /\ x = c
    BY <2>1, StepFacts DEF Committable
  <2>2. CASE ~SetKnob(c) /\ x # c
    <3>1. call'[x] = call[x] /\ pcode'.stagedKnob = pcode.stagedKnob
      BY <2>2, StepFacts
    <3>2. QED
      BY <3>1 DEF TypeInv, Committable
  <2>3. CASE SetKnob(c) /\ x = c
    <3>1. call'[c].key = call[c].key /\ call[c].key \in Knobs /\ call[c].val \in Knob(call[c].key)
      BY <2>3, SetFacts DEF TypeInv, Requests
    <3>2. QED
      BY <2>3, <3>1, SetPcode, StepFacts DEF Committable
  <2>4. CASE SetKnob(c) /\ x # c
    <3>1. call'[x] = call[x] /\ CallTyped(call[x]) /\ Committable(pcode, call[x])
      BY <2>4, StepFacts DEF TypeInv
    <3>2. CASE call[x].pc = "commit"
      <4>1. call[x].key \in Knobs
        BY <3>1, <3>2 DEF CallTyped
      <4>2. pcode'.stagedKnob[call[x].key] =
              IF call[x].key = call[c].key THEN call[c].val ELSE pcode.stagedKnob[call[x].key]
        BY <2>4, <4>1, SetPcode
      <4>3. call[c].val \in Knob(call[c].key)
        BY <2>4, SetFacts
      <4>4. QED
        BY <3>1, <4>2, <4>3 DEF Committable
    <3>3. CASE call[x].pc # "commit"
      BY <3>1, <3>3 DEF Committable
    <3>4. QED
      BY <3>2, <3>3
  <2>5. QED
    BY <2>1, <2>2, <2>3, <2>4
<1>2. QED
  BY <1>1, StepFacts DEF TypeInv

LEMMA TypeNext ==
  ASSUME TypeInv, [Next]_vars
  PROVE  TypeInv'
<1>1. CASE UNCHANGED vars
  BY <1>1 DEF vars, TypeInv
<1>2. CASE Next
  <2>1. PICK c \in Callers : ShowCurve(c) \/ StoreCurve(c) \/ StoreKnob(c) \/ Steps(c)
    BY <1>2 DEF Next, Steps
  <2>2. QED
    BY <2>1, TypeStart, TypeSteps
<1>3. QED
  BY <1>1, <1>2

LEMMA TypeInvImpliesType ==
  ASSUME TypeInv PROVE TypeOK
<1>1. PcodeOK
  BY PcodeFacts DEF PcodeOK, Sessions
<1>2. ASSUME NEW c \in Callers PROVE CallOK(c)
  BY DEF TypeInv, CallTyped, Requests, CallOK
<1>3. QED
  BY <1>1, <1>2 DEF TypeOK

LEMMA TypeInvariance == Spec => []TypeInv
<1>1. TypeInv /\ [Next]_vars => TypeInv'
  BY TypeNext
<1>2. QED
  BY <1>1, TypeInit, PTL DEF Spec

(* Every variable keeps its type; above all, a session is only ever given   *)
(* points that the card has, clamped, and a commit finds a value in range.  *)
THEOREM TypeCorrect == Spec => []TypeOK
<1>1. TypeInv => TypeOK
  BY TypeInvImpliesType
<1>2. QED
  BY <1>1, TypeInvariance, PTL
-----------------------------------------------------------------------------
(* Whatever a point is, was or is about to be set to is stock or was listed *)
Known(l, p, v) == v = StockCurve[p] \/ <<p, v>> \in l

KnownPcode(l, s) ==
  /\ \A p \in Points : Known(l, p, s.curve[p])
  /\ \A p \in DOMAIN s.staged : Known(l, p, s.staged[p])

KnownCall(l, r) ==
  /\ \A p \in DOMAIN r.mv : Known(l, p, r.mv[p])
  /\ r.pc = "seed" => \A p \in DOMAIN r.list : <<p, Clamp(r.list[p], VMAX)>> \in l

PointsInv ==
  /\ KnownPcode(history.listed, pcode)
  /\ \A c \in Callers : KnownCall(history.listed, call[c])

LEMMA PointsInit == Init => PointsInv
<1> SUFFICES ASSUME Init PROVE PointsInv
  OBVIOUS
<1>1. pcode.curve = StockCurve /\ pcode.staged = Empty /\ \A c \in Callers : call[c] = Idle
  BY DEF Init
<1>2. DOMAIN Idle.mv = {} /\ Idle.pc # "seed"
  BY IdleTyped
<1>3. QED
  BY <1>1, <1>2, EmptyFacts DEF PointsInv, KnownPcode, KnownCall, Known

LEMMA PointsStart ==
  ASSUME TypeInv, PointsInv, NEW c \in Callers, NEW r, CallTyped(r), Start(c, r),
         history.listed \subseteq history'.listed, r.mv = <<>>,
         r.pc = "seed" => \A p \in DOMAIN r.list : <<p, Clamp(r.list[p], VMAX)>> \in history'.listed
  PROVE  PointsInv'
<1>0. /\ call'[c].mv = r.mv /\ call'[c].pc = r.pc /\ call'[c].list = r.list
      /\ pcode' = pcode
  BY StartFacts, Zenon
<1>1. ASSUME NEW p, NEW v, Known(history.listed, p, v) PROVE Known(history'.listed, p, v)
  BY <1>1 DEF Known
<1>2. KnownPcode(history'.listed, pcode')
  BY <1>0, <1>1 DEF PointsInv, KnownPcode
<1>3. ASSUME NEW x \in Callers PROVE KnownCall(history'.listed, call'[x])
  <2>1. CASE x = c
    <3>1. call'[c].mv = <<>> /\ call'[c].pc = r.pc /\ call'[c].list = r.list
      BY <1>0
    <3>2. DOMAIN call'[c].mv = {}
      BY <3>1
    <3>3. QED
      BY <2>1, <3>1, <3>2 DEF KnownCall
  <2>2. CASE x # c /\ call[x].pc = "idle"
    <3>1. call'[x] = Idle
      BY <2>2, StartFacts
    <3>2. DOMAIN Idle.mv = {} /\ Idle.pc # "seed"
      BY IdleTyped
    <3>3. QED
      BY <3>1, <3>2 DEF KnownCall
  <2>3. CASE x # c /\ call[x].pc # "idle"
    <3>1. call'[x] = [call[x] EXCEPT !.lone = FALSE] /\ call[x] \in Requests
      BY <2>3, StartFacts DEF TypeInv
    <3>2. /\ call'[x].mv = call[x].mv /\ call'[x].pc = call[x].pc /\ call'[x].list = call[x].list
      BY <3>1 DEF Requests
    <3>3. KnownCall(history.listed, call[x])
      BY DEF PointsInv
    <3>4. QED
      BY <1>1, <3>2, <3>3 DEF KnownCall
  <2>4. QED
    BY <2>1, <2>2, <2>3
<1>4. QED
  BY <1>2, <1>3 DEF PointsInv

LEMMA PointsStarts ==
  ASSUME TypeInv, PointsInv, NEW c \in Callers, ShowCurve(c) \/ StoreCurve(c) \/ StoreKnob(c)
  PROVE  PointsInv'
<1>0. history \in [listed : SUBSET (Nat \X Millivolts), calls : Int]
  BY DEF TypeInv, HistoryTyped
<1>1. CASE ShowCurve(c)
  <2>1. history'.listed = history.listed
    BY <1>0, <1>1 DEF ShowCurve
  <2>2. /\ CallTyped(Call("show", Empty, Unset, 0))
        /\ Call("show", Empty, Unset, 0).mv = <<>> /\ Call("show", Empty, Unset, 0).pc = "show"
    BY ShowCalled
  <2>3. Start(c, Call("show", Empty, Unset, 0))
    BY <1>1 DEF ShowCurve
  <2>4. QED
    BY <2>1, <2>2, <2>3, PointsStart
<1>2. CASE StoreCurve(c)
  <2>1. PICK f \in Lists :
          /\ Start(c, Call("seed", f, Unset, 0))
          /\ history' = [history EXCEPT !.calls = @ + 1,
                            !.listed = @ \cup {<<p, Clamp(f[p], VMAX)>> : p \in DOMAIN f}]
    BY <1>2 DEF StoreCurve
  <2>2. history'.listed = history.listed \cup {<<p, Clamp(f[p], VMAX)>> : p \in DOMAIN f}
    BY <1>0, <2>1
  <2>3. LET r == Call("seed", f, Unset, 0)
        IN CallTyped(r) /\ r.mv = <<>> /\ r.list = f
    BY SeedCalled
  <2>4. QED
    BY <2>1, <2>2, <2>3, PointsStart
<1>3. CASE StoreKnob(c)
  <2>1. PICK kv \in KnobChoices :
          /\ InRange(kv[1], kv[2])
          /\ Start(c, Call("set", Empty, kv[1], kv[2]))
          /\ history' = [history EXCEPT !.calls = @ + 1]
    BY <1>3 DEF StoreKnob
  <2>2. kv[1] \in Knobs /\ kv[2] \in Int /\ kv[2] \in Knob(kv[1])
    BY <2>1, KnobFacts, InputAssumption
  <2>3. history'.listed = history.listed
    BY <1>0, <2>1
  <2>4. /\ CallTyped(Call("set", Empty, kv[1], kv[2]))
        /\ Call("set", Empty, kv[1], kv[2]).mv = <<>>
        /\ Call("set", Empty, kv[1], kv[2]).pc = "set"
    <3>1. CallTyped(Call("set", Empty, kv[1], kv[2]))
      BY <2>2, SetCalled
    <3>2. QED
      BY <3>1 DEF Call
  <2>5. QED
    BY <2>1, <2>3, <2>4, PointsStart
<1>4. QED
  BY <1>1, <1>2, <1>3

LEMMA AppendFacts ==
  ASSUME NEW mv \in Seq(Millivolts), NEW v \in Millivolts
  PROVE  \A p \in DOMAIN Append(mv, v) :
           \/ p = Len(mv) + 1 /\ Append(mv, v)[p] = v
           \/ p \in DOMAIN mv /\ Append(mv, v)[p] = mv[p]
<1>1. /\ DOMAIN Append(mv, v) = 1..(Len(mv) + 1) /\ Len(mv) \in Nat
      /\ DOMAIN mv = 1..Len(mv)
  OBVIOUS
<1>2. Append(mv, v)[Len(mv) + 1] = v
  OBVIOUS
<1>3. \A p \in 1..Len(mv) : Append(mv, v)[p] = mv[p]
  OBVIOUS
<1>4. QED
  BY <1>1, <1>2, <1>3

LEMMA PointsSteps ==
  ASSUME TypeInv, PointsInv, NEW c \in Callers, Steps(c)
  PROVE  PointsInv'
<1> DEFINE l == history.listed
<1>1. ASSUME KnownPcode(l, pcode'), KnownCall(l, call'[c])
      PROVE  PointsInv'
  BY <1>1, StepFacts DEF PointsInv
<1>2. /\ KnownPcode(l, pcode) /\ KnownCall(l, call[c])
      /\ call[c] \in Requests /\ call[c].mv \in Seq(Millivolts)
  BY DEF PointsInv, TypeInv, Requests
<1>3. KnownCall(l, Idle)
  <2>1. DOMAIN Idle.mv = {} /\ Idle.pc # "seed"
    BY IdleTyped
  <2>2. QED
    BY <2>1 DEF KnownCall
<1> HIDE DEF l
<1>4. CASE ReadPoint(c)
  <2> DEFINE mv == call[c].mv
             v  == pcode.curve[Len(mv) + 1]
  <2>1. call'[c] = [call[c] EXCEPT !.mv = Append(mv, v)] /\ Len(mv) + 1 \in Points
    BY <1>4, ReadFacts
  <2>2. call'[c].mv = Append(mv, v) /\ call'[c].pc = call[c].pc /\ call'[c].list = call[c].list
    BY <1>2, <2>1 DEF Requests
  <2>3. Known(l, Len(mv) + 1, v)
    BY <1>2, <2>1 DEF KnownPcode
  <2>4. v \in Millivolts
    BY <2>1, PcodeFacts
  <2>0. mv \in Seq(Millivolts)
    BY <1>2
  <2> HIDE DEF v, mv
  <2>5. \A p \in DOMAIN Append(mv, v) :
          \/ p = Len(mv) + 1 /\ Append(mv, v)[p] = v
          \/ p \in DOMAIN mv /\ Append(mv, v)[p] = mv[p]
    BY <2>0, <2>4, AppendFacts
  <2>6. KnownCall(l, call'[c])
    BY <1>2, <2>2, <2>3, <2>5 DEF KnownCall, mv
  <2>7. QED
    BY <1>1, <1>2, <1>4, <2>6 DEF ReadPoint
<1>5. CASE Printed(c) \/ Fails(c)
  <2>1. call'[c] = Idle /\ pcode' = pcode
    BY <1>5, ReturnFacts DEF Printed, Fails
  <2>2. QED
    BY <1>1, <1>2, <1>3, <2>1
<1>6. CASE Edit(c)
  <2>1. /\ call[c].pc = "seed" /\ call'[c].pc = "begin" /\ pcode' = pcode
        /\ call'[c].mv = Edited(call[c].mv, call[c].list)
        /\ call[c].list \in Lists \cup {Empty}
    BY <1>2, <1>6, EditFacts DEF Edit, Requests
  <2>2. ASSUME NEW p \in DOMAIN call'[c].mv PROVE Known(l, p, call'[c].mv[p])
    <3>1. p \in DOMAIN call[c].mv
      BY <1>2, <2>1, EditedFacts
    <3>2. call'[c].mv[p] = IF p \in DOMAIN call[c].list THEN Clamp(call[c].list[p], VMAX)
                           ELSE call[c].mv[p]
      BY <1>2, <2>1, <3>1, EditedFacts
    <3>3. QED
      BY <1>2, <2>1, <3>1, <3>2 DEF KnownCall, Known
  <2>3. QED
    BY <1>1, <1>2, <2>1, <2>2 DEF KnownCall
<1>7. CASE Begin(c)
  <2>1. KnownPcode(l, pcode')
    BY <1>2, <1>7, BeginPcode, EmptyFacts DEF KnownPcode
  <2>2. KnownCall(l, call'[c])
    BY <1>2, <1>7, BeginFacts DEF KnownCall
  <2>3. QED
    BY <1>1, <2>1, <2>2
<1>8. CASE WritePoint(c)
  <2> DEFINE p == call[c].next
  <2>1. p \in DOMAIN call[c].mv /\ Known(l, p, call[c].mv[p])
    BY <1>2, <1>8, WriteFacts DEF KnownCall
  <2>2. KnownPcode(l, pcode')
    <3>1. CASE pcode.deferred
      <4>1. /\ pcode'.curve = pcode.curve
            /\ DOMAIN pcode'.staged = DOMAIN pcode.staged \cup {p}
            /\ \A q \in DOMAIN pcode'.staged :
                 pcode'.staged[q] = IF q = p THEN call[c].mv[p] ELSE pcode.staged[q]
        BY <1>8, <3>1, WritePcode
      <4>2. ASSUME NEW q \in DOMAIN pcode'.staged PROVE Known(l, q, pcode'.staged[q])
        BY <1>2, <2>1, <4>1 DEF KnownPcode
      <4>3. QED
        BY <1>2, <4>1, <4>2 DEF KnownPcode
    <3>2. CASE ~pcode.deferred
      BY <1>2, <1>8, <2>1, <3>2, WritePcode DEF KnownPcode
    <3>3. QED
      BY <3>1, <3>2
  <2>3. call'[c].mv = call[c].mv /\ call'[c].pc # "seed"
    <3>1. call'[c] = Stepped(call[c], p + 1, IF p = Len(call[c].mv) THEN "end" ELSE "write")
      BY <1>8, WriteFacts
    <3>2. call'[c].mv = call[c].mv
      BY <1>2, <3>1 DEF Requests, Stepped
    <3>3. call'[c].pc # "seed"
      BY <1>2, <3>1 DEF Requests, Stepped
    <3>4. QED
      BY <3>2, <3>3
  <2>4. KnownCall(l, call'[c])
    BY <1>2, <2>3 DEF KnownCall
  <2>5. QED
    BY <1>1, <2>2, <2>4
<1>9. CASE End(c)
  <2>1. call'[c] = Idle
    BY <1>9, ReturnFacts DEF End
  <2>2. KnownPcode(l, pcode')
    BY <1>2, <1>9, EndPcode, EmptyFacts DEF KnownPcode
  <2>3. QED
    BY <1>1, <1>3, <2>1, <2>2
<1>10. CASE SetKnob(c)
  <2>1. KnownPcode(l, pcode')
    BY <1>2, <1>10, SetPcode DEF KnownPcode
  <2>2. call'[c].mv = call[c].mv /\ call'[c].pc = "commit"
    BY <1>2, <1>10, SetFacts DEF Requests
  <2>3. KnownCall(l, call'[c])
    BY <1>2, <2>2 DEF KnownCall
  <2>4. QED
    BY <1>1, <2>1, <2>3
<1>11. CASE CommitKnob(c)
  <2>1. call'[c] = Idle
    BY <1>11, ReturnFacts DEF CommitKnob
  <2>2. KnownPcode(l, pcode')
    BY <1>2, <1>11, CommitPcode DEF KnownPcode
  <2>3. QED
    BY <1>1, <1>3, <2>1, <2>2
<1>12. QED
  BY <1>4, <1>5, <1>6, <1>7, <1>8, <1>9, <1>10, <1>11 DEF Steps

(* Whatever calls fail and however many stores interleave, each point of    *)
(* the curve in force is its stock value or one that was listed for it.     *)
THEOREM AllPointsAccountedFor == Spec => []PointsAccountedFor
<1>1. TypeInv /\ PointsInv /\ [Next]_vars => PointsInv'
  <2> SUFFICES ASSUME TypeInv, PointsInv, [Next]_vars PROVE PointsInv'
    OBVIOUS
  <2>1. CASE UNCHANGED vars
    BY <2>1 DEF vars, PointsInv
  <2>2. CASE Next
    <3>1. PICK c \in Callers : ShowCurve(c) \/ StoreCurve(c) \/ StoreKnob(c) \/ Steps(c)
      BY <2>2 DEF Next, Steps
    <3>2. QED
      BY <3>1, PointsStarts, PointsSteps
  <2>3. QED
    BY <2>1, <2>2
<1>2. PointsInv => PointsAccountedFor
  BY DEF PointsInv, KnownPcode, Known, PointsAccountedFor
<1>3. QED
  BY <1>1, <1>2, PointsInit, TypeInvariance, PTL DEF Spec
-----------------------------------------------------------------------------
(* A call that no other overlaps: every other caller is idle, so that the   *)
(* curve it has read is the curve, but for what it has written itself.      *)
Alone(r) == r.lone /\ r.pc # "idle"

Reads(s, r) ==
  r.pc = "seed" => \A p \in DOMAIN r.mv : r.mv[p] = s.curve[p]

Merges(s, r) ==
  r.pc \in {"begin", "write", "end"} =>
    \A p \in DOMAIN r.mv :
      IF p \in DOMAIN r.list THEN r.mv[p] = Clamp(r.list[p], VMAX) ELSE r.mv[p] = s.curve[p]

Stages(s, r) ==
  s.deferred /\ s.discards =>
    /\ r.pc = "write" => DOMAIN s.staged = 1..(r.next - 1)
    /\ r.pc = "end" => DOMAIN s.staged = DOMAIN r.mv
    /\ r.pc \in {"write", "end"} => \A p \in DOMAIN s.staged : s.staged[p] = r.mv[p]

Follows(s, r) == Alone(r) => Reads(s, r) /\ Merges(s, r) /\ Stages(s, r)

LoneInv ==
  /\ ~pcode.deferred => DOMAIN pcode.staged = {}
  /\ \A c \in Callers : Follows(pcode, call[c])
  /\ \A c \in Callers : Alone(call[c]) => \A x \in Callers \ {c} : call[x].pc = "idle"

LEMMA LoneInit == Init => LoneInv
<1> SUFFICES ASSUME Init PROVE LoneInv
  OBVIOUS
<1>1. pcode.staged = Empty /\ \A c \in Callers : call[c] = Idle
  BY DEF Init
<1>2. QED
  BY <1>1, EmptyFacts, IdleTyped DEF LoneInv, Follows, Alone

LEMMA LoneStart ==
  ASSUME TypeInv, LoneInv, NEW c \in Callers, NEW r, CallTyped(r), Start(c, r), r.mv = <<>>,
         r.pc \in {"show", "seed", "set"}
  PROVE  LoneInv'
<1>1. /\ pcode' = pcode /\ call'[c].pc = r.pc /\ call'[c].mv = <<>>
      /\ call'[c] = [r EXCEPT !.lone = \A y \in Callers : call[y].pc = "idle"]
      /\ r \in Requests
  BY StartFacts DEF CallTyped
<1>2. call'[c].lone <=> \A y \in Callers : call[y].pc = "idle"
  BY <1>1 DEF Requests
<1>3. ASSUME NEW x \in Callers \ {c}
      PROVE  /\ ~Alone(call'[x])
             /\ call[x].pc = "idle" => call'[x].pc = "idle"
  <2>1. CASE call[x].pc = "idle"
    BY <2>1, StartFacts, IdleTyped DEF Alone
  <2>2. CASE call[x].pc # "idle"
    <3>1. call'[x] = [call[x] EXCEPT !.lone = FALSE] /\ call[x] \in Requests
      BY <2>2, StartFacts DEF TypeInv
    <3>2. ~call'[x].lone
      BY <3>1 DEF Requests
    <3>3. QED
      BY <2>2, <3>2 DEF Alone
  <2>3. QED
    BY <2>1, <2>2
<1>4. Follows(pcode', call'[c])
  <2>1. DOMAIN call'[c].mv = {}
    BY <1>1
  <2>2. QED
    BY <1>1, <2>1 DEF Follows, Reads, Merges, Stages
<1>5. \A x \in Callers : Follows(pcode', call'[x])
  BY <1>3, <1>4 DEF Follows
<1>6. \A x \in Callers : Alone(call'[x]) => \A y \in Callers \ {x} : call'[y].pc = "idle"
  BY <1>2, <1>3 DEF Alone
<1>7. QED
  BY <1>1, <1>5, <1>6 DEF LoneInv

LEMMA LoneStarts ==
  ASSUME TypeInv, LoneInv, NEW c \in Callers, ShowCurve(c) \/ StoreCurve(c) \/ StoreKnob(c)
  PROVE  LoneInv'
<1>1. CASE ShowCurve(c)
  <2>1. CallTyped(Call("show", Empty, Unset, 0)) /\ Call("show", Empty, Unset, 0).pc = "show"
    BY ShowCalled
  <2>2. QED
    BY <1>1, <2>1, LoneStart DEF ShowCurve, Call
<1>2. CASE StoreCurve(c)
  <2>1. PICK f \in Lists : Start(c, Call("seed", f, Unset, 0))
    BY <1>2 DEF StoreCurve
  <2>2. /\ CallTyped(Call("seed", f, Unset, 0)) /\ Call("seed", f, Unset, 0).pc = "seed"
        /\ Call("seed", f, Unset, 0).mv = <<>>
    BY SeedCalled
  <2>3. QED
    BY <2>1, <2>2, LoneStart
<1>3. CASE StoreKnob(c)
  <2>1. PICK kv \in KnobChoices :
          InRange(kv[1], kv[2]) /\ Start(c, Call("set", Empty, kv[1], kv[2]))
    BY <1>3 DEF StoreKnob
  <2>2. kv[1] \in Knobs /\ kv[2] \in Int /\ kv[2] \in Knob(kv[1])
    BY <2>1, KnobFacts, InputAssumption
  <2>3. CallTyped(Call("set", Empty, kv[1], kv[2]))
    BY <2>2, SetCalled
  <2>4. Call("set", Empty, kv[1], kv[2]).mv = <<>> /\ Call("set", Empty, kv[1], kv[2]).pc = "set"
    BY DEF Call
  <2>5. QED
    BY <2>1, <2>3, <2>4, LoneStart
<1>4. QED
  BY <1>1, <1>2, <1>3

(* A step that leaves the curve alone is one of a lone store's *)
LEMMA CurveKept ==
  ASSUME NEW c \in Callers, pcode'.curve = pcode.curve
  PROVE  LoneStep(c)
BY DEF LoneStep

LEMMA IdleFollows == \A s : Follows(s, Idle)
BY IdleTyped DEF Follows, Alone

LEMMA EditFollows ==
  ASSUME TypeInv, LoneInv, NEW c \in Callers, Edit(c), Alone(call[c])
  PROVE  Follows(pcode', call'[c])
<1>1. /\ call[c].pc = "seed" /\ call'[c].pc = "begin" /\ pcode' = pcode
      /\ call'[c].mv = Edited(call[c].mv, call[c].list) /\ call'[c].list = call[c].list
      /\ call[c].list \in Lists \cup {Empty} /\ call[c].mv \in Seq(Millivolts)
  BY EditFacts DEF Edit, TypeInv, Requests
<1>2. \A p \in DOMAIN call[c].mv : call[c].mv[p] = pcode.curve[p]
  BY <1>1 DEF LoneInv, Follows, Reads
<1>3. ASSUME NEW p \in DOMAIN call'[c].mv
      PROVE  IF p \in DOMAIN call'[c].list THEN call'[c].mv[p] = Clamp(call'[c].list[p], VMAX)
             ELSE call'[c].mv[p] = pcode'.curve[p]
  <2>1. p \in DOMAIN call[c].mv
    BY <1>1, EditedFacts
  <2>2. call'[c].mv[p] = IF p \in DOMAIN call[c].list THEN Clamp(call[c].list[p], VMAX)
                         ELSE call[c].mv[p]
    BY <1>1, <2>1, EditedFacts
  <2>3. QED
    BY <1>1, <1>2, <2>1, <2>2
<1>4. QED
  BY <1>1, <1>3 DEF Follows, Reads, Merges, Stages

LEMMA ReadFollows ==
  ASSUME TypeInv, LoneInv, NEW c \in Callers, ReadPoint(c), Alone(call[c])
  PROVE  Follows(pcode', call'[c])
<1> DEFINE mv == call[c].mv
           v  == pcode.curve[Len(mv) + 1]
<1>1. /\ call'[c] = [call[c] EXCEPT !.mv = Append(mv, v)] /\ Len(mv) + 1 \in Points
      /\ call[c] \in Requests /\ pcode' = pcode /\ call[c].pc \in {"show", "seed"}
  BY ReadFacts DEF ReadPoint, TypeInv
<1>2. call'[c].mv = Append(mv, v) /\ call'[c].pc = call[c].pc /\ mv \in Seq(Millivolts)
  BY <1>1 DEF Requests
<1>3. v \in Millivolts
  BY <1>1, PcodeFacts
<1>4. call[c].pc = "seed" => \A p \in DOMAIN mv : mv[p] = pcode.curve[p]
  BY DEF LoneInv, Follows, Reads
<1>5. ASSUME call[c].pc = "seed", NEW p \in DOMAIN Append(mv, v)
      PROVE  Append(mv, v)[p] = pcode.curve[p]
  <2> HIDE DEF mv
  <2>1. v \in Millivolts /\ v = pcode.curve[Len(mv) + 1]
    BY <1>3
  <2> HIDE DEF v
  <2>2. \/ p = Len(mv) + 1 /\ Append(mv, v)[p] = v
        \/ p \in DOMAIN mv /\ Append(mv, v)[p] = mv[p]
    BY <1>2, <2>1, AppendFacts
  <2>3. QED
    BY <1>4, <1>5, <2>1, <2>2
<1>6. QED
  BY <1>1, <1>2, <1>5 DEF Follows, Reads, Merges, Stages

LEMMA BeginFollows ==
  ASSUME TypeInv, LoneInv, NEW c \in Callers, Begin(c), Alone(call[c])
  PROVE  Follows(pcode', call'[c])
<1>1. /\ call[c].pc = "begin" /\ call'[c].pc = "write" /\ call'[c].next = 1
      /\ call'[c].mv = call[c].mv /\ call'[c].list = call[c].list
      /\ pcode'.curve = pcode.curve /\ pcode'.discards = pcode.discards
      /\ pcode.discards => DOMAIN pcode'.staged = {}
  BY BeginFacts, BeginPcode, EmptyFacts
<1>2. Merges(pcode, call[c])
  BY DEF LoneInv, Follows
<1>3. Merges(pcode', call'[c])
  BY <1>1, <1>2 DEF Merges
<1>4. QED
  BY <1>1, <1>3 DEF Follows, Reads, Stages

LEMMA WriteFollows ==
  ASSUME TypeInv, LoneInv, NEW c \in Callers, WritePoint(c), Alone(call[c])
  PROVE  Follows(pcode', call'[c]) /\ LoneStep(c)
<1> DEFINE p == call[c].next
           r == call'[c]
<1>1. /\ call[c] \in Requests /\ CallTyped(call[c]) /\ call[c].pc = "write"
      /\ call[c].mv \in Seq(Millivolts) /\ p \in 1..Len(call[c].mv) /\ p \in Points
  <2>1. call[c] \in Requests /\ CallTyped(call[c]) /\ call[c].pc = "write"
    BY DEF TypeInv, WritePoint, At
  <2>2. call[c].mv \in Seq(Millivolts)
    BY <2>1 DEF Requests
  <2>3. p \in DOMAIN call[c].mv /\ p \in Points
    BY WriteFacts
  <2>4. DOMAIN call[c].mv = 1..Len(call[c].mv)
    BY <2>2
  <2>5. QED
    BY <2>1, <2>2, <2>3, <2>4
<1>2. r = Stepped(call[c], p + 1, IF p = Len(call[c].mv) THEN "end" ELSE "write")
  BY WriteFacts
<1>3. /\ r.mv = call[c].mv /\ r.list = call[c].list /\ r.next = p + 1
      /\ r.pc = IF p = Len(call[c].mv) THEN "end" ELSE "write"
  BY <1>1, <1>2 DEF Requests, Stepped
<1>4. Merges(pcode, call[c]) /\ Stages(pcode, call[c])
  BY DEF LoneInv, Follows
<1>5. \A q \in DOMAIN call[c].mv :
        IF q \in DOMAIN call[c].list THEN call[c].mv[q] = Clamp(call[c].list[q], VMAX)
        ELSE call[c].mv[q] = pcode.curve[q]
  BY <1>1, <1>4 DEF Merges
<1>6. r.pc \in {"write", "end"} /\ DOMAIN call[c].mv = 1..Len(call[c].mv)
  BY <1>1, <1>3
<1> HIDE DEF r
<1>7. CASE pcode.deferred
  <2>1. /\ pcode'.deferred /\ pcode'.curve = pcode.curve
        /\ DOMAIN pcode'.staged = DOMAIN pcode.staged \cup {p}
        /\ \A q \in DOMAIN pcode'.staged :
             pcode'.staged[q] = IF q = p THEN call[c].mv[p] ELSE pcode.staged[q]
        /\ pcode'.discards = pcode.discards
    BY <1>7, WritePcode
  <2>2. pcode.discards =>
        /\ DOMAIN pcode.staged = 1..(p - 1)
        /\ \A q \in DOMAIN pcode.staged : pcode.staged[q] = call[c].mv[q]
    BY <1>1, <1>4, <1>7 DEF Stages
  <2>3. pcode.discards => DOMAIN pcode'.staged = 1..p
    <3>1. p \in Nat /\ p >= 1
      BY <1>1, PointFacts DEF Points
    <3>2. 1..(p - 1) \cup {p} = 1..p
      BY <3>1
    <3>3. QED
      BY <2>1, <2>2, <3>2
  <2>4. Stages(pcode', r)
    <3>1. pcode.discards => \A q \in DOMAIN pcode'.staged : pcode'.staged[q] = r.mv[q]
      BY <1>3, <2>1, <2>2
    <3>2. p \in Int
      BY <1>1
    <3>3. QED
      BY <1>3, <1>6, <2>1, <2>3, <3>1, <3>2 DEF Stages
  <2>5. Merges(pcode', r)
    BY <1>3, <1>5, <2>1 DEF Merges
  <2>6. QED
    BY <1>6, <2>1, <2>4, <2>5, CurveKept DEF Follows, Reads, r
<1>8. CASE ~pcode.deferred
  <2>1. /\ ~pcode'.deferred
        /\ \A q \in Points : pcode'.curve[q] = IF q = p THEN call[c].mv[p] ELSE pcode.curve[q]
    BY <1>8, WritePcode
  <2>2. ASSUME NEW q \in Points, q \notin DOMAIN call[c].list
        PROVE  pcode'.curve[q] = pcode.curve[q]
    BY <1>1, <1>5, <1>6, <2>1, <2>2
  <2>3. LoneStep(c)
    BY <1>8, <2>2 DEF LoneStep
  <2>4. DOMAIN call[c].mv \subseteq Points
    BY <1>1, PointFacts DEF CallTyped, Points
  <2>5. Merges(pcode', r)
    BY <1>3, <1>5, <2>2, <2>4 DEF Merges
  <2>6. QED
    BY <1>6, <2>1, <2>3, <2>5 DEF Follows, Reads, Stages, r
<1>9. QED
  BY <1>7, <1>8

LEMMA EndSteps ==
  ASSUME TypeInv, LoneInv, NEW c \in Callers, End(c), Alone(call[c])
  PROVE  LoneStep(c)
<1> DEFINE mv == call[c].mv
           list == call[c].list
<1>1. /\ call[c].pc = "end" /\ Merges(pcode, call[c]) /\ Stages(pcode, call[c])
      /\ pcode.curve \in [Points -> Millivolts]
  BY PcodeFacts DEF LoneInv, Follows, End, At
<1>2. CASE pcode' = pcode
  BY <1>2, CurveKept
<1>3. CASE pcode'.curve = [p \in Points |-> IF p \in DOMAIN pcode.staged THEN pcode.staged[p]
                                           ELSE pcode.curve[p]]
  <2>1. CASE ~pcode.deferred
    <3>1. DOMAIN pcode.staged = {}
      BY <2>1 DEF LoneInv
    <3>2. pcode'.curve = pcode.curve
      BY <1>1, <1>3, <3>1
    <3>3. QED
      BY <3>2, CurveKept
  <2>2. CASE pcode.deferred /\ pcode.discards
    <3>1. /\ DOMAIN pcode.staged = DOMAIN mv
          /\ \A p \in DOMAIN mv : pcode.staged[p] = mv[p]
          /\ \A p \in DOMAIN mv : IF p \in DOMAIN list THEN mv[p] = Clamp(list[p], VMAX)
                                 ELSE mv[p] = pcode.curve[p]
      BY <1>1, <2>2 DEF Stages, Merges
    <3>2. ASSUME NEW p \in Points
          PROVE  pcode'.curve[p] = IF p \in DOMAIN list \cap DOMAIN mv THEN Clamp(list[p], VMAX)
                                   ELSE pcode.curve[p]
      BY <1>3, <3>1
    <3>3. /\ DOMAIN Seen(c) = DOMAIN list \cap DOMAIN mv
          /\ \A p \in DOMAIN Seen(c) : Seen(c)[p] = list[p]
      BY DEF Seen
    <3>4. Store(pcode.curve, Seen(c)) =
            [p \in Points |-> IF p \in DOMAIN list \cap DOMAIN mv THEN Clamp(list[p], VMAX)
                              ELSE pcode.curve[p]]
      BY <3>3 DEF Store
    <3>5. pcode'.curve = Store(pcode.curve, Seen(c))
      BY <1>3, <3>2, <3>4
    <3>6. \A p \in Points \ DOMAIN list : pcode'.curve[p] = pcode.curve[p]
      BY <3>2
    <3>7. QED
      BY <1>1, <3>5, <3>6 DEF LoneStep, At
  <2>3. CASE pcode.deferred /\ ~pcode.discards
    BY <2>3 DEF LoneStep
  <2>4. QED
    BY <2>1, <2>2, <2>3
<1>4. QED
  BY <1>2, <1>3, EndPcode

(* Every step of a lone call keeps what a lone call relies on, and changes  *)
(* the curve only as a lone store may.                                      *)
LEMMA OwnSteps ==
  ASSUME TypeInv, LoneInv, NEW c \in Callers, Steps(c), Alone(call[c])
  PROVE  Follows(pcode', call'[c]) /\ LoneStep(c)
<1>1. CASE ReadPoint(c)
  BY <1>1, ReadFollows, CurveKept DEF ReadPoint
<1>2. CASE Printed(c) \/ Fails(c)
  <2>1. call'[c] = Idle /\ pcode' = pcode
    BY <1>2, ReturnFacts DEF Printed, Fails
  <2>2. QED
    BY <2>1, IdleFollows, CurveKept
<1>3. CASE Edit(c)
  BY <1>3, EditFollows, CurveKept DEF Edit
<1>4. CASE Begin(c)
  BY <1>4, BeginFollows, BeginPcode, CurveKept
<1>5. CASE WritePoint(c)
  BY <1>5, WriteFollows
<1>6. CASE End(c)
  <2>1. call'[c] = Idle
    BY <1>6, ReturnFacts DEF End
  <2>2. QED
    BY <1>6, <2>1, EndSteps, IdleFollows
<1>7. CASE SetKnob(c)
  <2>0. call[c] \in Requests /\ call'[c] = [call[c] EXCEPT !.pc = "commit"]
    BY <1>7, SetFacts DEF TypeInv
  <2>1. call'[c].pc = "commit"
    BY <2>0 DEF Requests
  <2>2. Follows(pcode', call'[c])
    BY <2>1 DEF Follows, Reads, Merges, Stages
  <2>3. QED
    BY <1>7, <2>2, SetPcode, CurveKept
<1>8. CASE CommitKnob(c)
  <2>1. call'[c] = Idle
    BY <1>8, ReturnFacts DEF CommitKnob
  <2>2. QED
    BY <1>8, <2>1, CommitPcode, IdleFollows, CurveKept
<1>9. QED
  BY <1>1, <1>2, <1>3, <1>4, <1>5, <1>6, <1>7, <1>8 DEF Steps

(* Nothing is staged where points take effect at once *)
LEMMA NothingStaged ==
  ASSUME TypeInv, LoneInv, NEW c \in Callers, Steps(c)
  PROVE  ~pcode'.deferred => DOMAIN pcode'.staged = {}
<1>1. ~pcode.deferred => DOMAIN pcode.staged = {}
  BY DEF LoneInv
<1>2. CASE ReadPoint(c) \/ Printed(c) \/ Edit(c) \/ Fails(c)
  BY <1>1, <1>2 DEF ReadPoint, Printed, Edit, Fails
<1>3. CASE Begin(c)
  BY <1>1, <1>3, BeginPcode, EmptyFacts
<1>4. CASE WritePoint(c)
  BY <1>1, <1>4, WritePcode
<1>5. CASE End(c)
  BY <1>1, <1>5, EndPcode, EmptyFacts
<1>6. CASE SetKnob(c)
  BY <1>1, <1>6, SetPcode
<1>7. CASE CommitKnob(c)
  BY <1>1, <1>7, CommitPcode
<1>8. QED
  BY <1>2, <1>3, <1>4, <1>5, <1>6, <1>7 DEF Steps

(* A call that is under way keeps its mark, or returns *)
LEMMA MarkKept ==
  ASSUME TypeInv, NEW c \in Callers, Steps(c)
  PROVE  /\ call[c].pc # "idle"
         /\ call'[c].lone = call[c].lone \/ call'[c].pc = "idle"
<1>0. call[c] \in Requests
  BY DEF TypeInv
<1>1. CASE ReadPoint(c)
  BY <1>0, <1>1, ReadFacts DEF ReadPoint, Requests
<1>2. CASE Printed(c) \/ End(c) \/ CommitKnob(c) \/ Fails(c)
  <2>1. call'[c].pc = "idle"
    BY <1>2, ReturnFacts, IdleTyped DEF Printed, End, CommitKnob, Fails
  <2>2. call[c].pc # "idle"
    BY <1>2 DEF Printed, End, CommitKnob, Fails, At
  <2>3. QED
    BY <2>1, <2>2
<1>3. CASE Edit(c)
  BY <1>3, EditFacts
<1>4. CASE Begin(c)
  BY <1>4, BeginFacts
<1>5. CASE WritePoint(c)
  <2>1. call'[c].lone = call[c].lone
    BY <1>0, <1>5, WriteFacts DEF Requests, Stepped
  <2>2. QED
    BY <1>5, <2>1 DEF WritePoint, At
<1>6. CASE SetKnob(c)
  <2>1. call'[c].lone = call[c].lone
    BY <1>0, <1>6, SetFacts DEF Requests
  <2>2. QED
    BY <1>6, <2>1 DEF SetKnob, At
<1>7. QED
  BY <1>1, <1>2, <1>3, <1>4, <1>5, <1>6 DEF Steps

LEMMA LoneSteps ==
  ASSUME TypeInv, LoneInv, NEW c \in Callers, Steps(c)
  PROVE  LoneInv'
<1>1. /\ call[c].pc # "idle"
      /\ call'[c].lone = call[c].lone \/ call'[c].pc = "idle"
      /\ \A x \in Callers \ {c} : call'[x] = call[x]
  BY MarkKept, StepFacts
<1>2. \A x \in Callers \ {c} : ~Alone(call[x])
  BY <1>1 DEF LoneInv
<1>3. Alone(call'[c]) => Alone(call[c])
  BY <1>1 DEF Alone
<1>4. Follows(pcode', call'[c])
  BY <1>3, OwnSteps DEF Follows
<1>5. ASSUME NEW x \in Callers PROVE Follows(pcode', call'[x])
  BY <1>1, <1>2, <1>4 DEF Follows
<1>6. ASSUME NEW x \in Callers, Alone(call'[x]), NEW y \in Callers \ {x}
      PROVE  call'[y].pc = "idle"
  BY <1>1, <1>2, <1>3, <1>6 DEF LoneInv
<1>7. QED
  BY <1>5, <1>6, NothingStaged DEF LoneInv

LEMMA LoneNext ==
  ASSUME TypeInv, LoneInv, [Next]_vars
  PROVE  /\ LoneInv'
         /\ [\A c \in Callers :
               call'[c] # call[c] /\ call[c].lone /\ ~At(c, "idle") => LoneStep(c)]_vars
<1>1. CASE UNCHANGED vars
  BY <1>1 DEF vars, LoneInv
<1>2. CASE Next
  <2>1. PICK x \in Callers : ShowCurve(x) \/ StoreCurve(x) \/ StoreKnob(x) \/ Steps(x)
    BY <1>2 DEF Next, Steps
  <2>2. LoneInv'
    BY <2>1, LoneStarts, LoneSteps
  <2>3. ASSUME NEW c \in Callers, call'[c] # call[c], call[c].lone, ~At(c, "idle")
        PROVE  LoneStep(c)
    <3>1. Alone(call[c])
      BY <2>3 DEF Alone, At
    <3>2. CASE ShowCurve(x) \/ StoreCurve(x) \/ StoreKnob(x)
      <4>1. pcode' = pcode
        BY <3>2 DEF ShowCurve, StoreCurve, StoreKnob, Start
      <4>2. QED
        BY <4>1, CurveKept
    <3>3. CASE Steps(x)
      <4>1. c = x
        BY <2>3, <3>3, StepFacts
      <4>2. QED
        BY <3>1, <3>3, <4>1, OwnSteps
    <3>4. QED
      BY <2>1, <3>2, <3>3
  <2>4. QED
    BY <2>2, <2>3
<1>3. QED
  BY <1>1, <1>2

(* A store of the curve that no other call overlaps changes it in one step, *)
(* to what Store makes of it, or not at all, if PCODE holds points back     *)
(* until a session ends and starts each session afresh; and, unless PCODE   *)
(* keeps what an unfinished session staged, never touches a point that it   *)
(* does not list.                                                           *)
THEOREM LoneStoresAtomic == Spec => LoneStoreIsAtomic
<1>1. Init => LoneInv
  BY LoneInit
<1>2. TypeInv /\ LoneInv /\ [Next]_vars => LoneInv'
  BY LoneNext
<1>3. TypeInv /\ LoneInv /\ [Next]_vars =>
        [\A c \in Callers :
           call'[c] # call[c] /\ call[c].lone /\ ~At(c, "idle") => LoneStep(c)]_vars
  BY LoneNext
<1>4. QED
  BY <1>1, <1>2, <1>3, TypeInvariance, PTL DEF Spec, LoneStoreIsAtomic
===============================================================================
