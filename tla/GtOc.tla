--------------------------------- MODULE GtOc ---------------------------------
(***************************************************************************)
(* The overclocking files of xe_gt_oc.c: vf_curve, mem_speed and            *)
(* temp_limit.  A reader or writer of one is a sequence of calls of PCODE's *)
(* mailbox, any of which may fail.  Only a single call holds PCODE's lock:  *)
(* the calls of several processes interleave.                               *)
(*                                                                          *)
(* Of PCODE the file says that a write session begins, takes points and     *)
(* ends.  It does not say whether a point is in force at once or only when  *)
(* its session ends, nor whether a session discards what one that was never *)
(* ended has staged: pcode.deferred and pcode.discards are either, for the  *)
(* whole of a behaviour.                                                    *)
(***************************************************************************)
EXTENDS OcCard

CONSTANTS
  Knobs,       \* "mem" and "temp": the two late-binding domains
  KnobRange,   \* [Knobs -> <<lowest, highest>>]
  StockKnob,   \* [Knobs -> value before anything is staged]
  Unset,       \* nothing staged since the card was powered up
  Callers,     \* processes
  Lists,       \* index-to-mV lists that processes write to vf_curve
  KnobChoices, \* <<knob, value>> that processes write
  MaxCalls     \* bound on the calls of a behaviour

ASSUME RangeAssumption ==
  /\ KnobRange \in [Knobs -> Int \X Int]
  /\ StockKnob \in [Knobs -> Int]
  /\ \A k \in Knobs : StockKnob[k] \in KnobRange[k][1]..KnobRange[k][2]
ASSUME CurveAssumption ==
  /\ VMIN \in Int /\ VMAX \in Int /\ VMIN <= VMAX
  /\ StockCurve \in [Points -> VMIN..VMAX]
ASSUME InputAssumption ==
  /\ \A f \in Lists : DOMAIN f \subseteq Nat /\ \A p \in DOMAIN f : f[p] \in Int
  /\ KnobChoices \subseteq Knobs \X Int
  /\ Unset \notin Int

VARIABLES
  pcode,    \* settings in force, the write session, what is staged
  call,     \* [Callers -> the call under way]
  history   \* what was asked for, and the number of calls

vars == <<pcode, call, history>>

Empty == [p \in {} |-> 0]
Call(pc, list, key, val) ==
  [pc |-> pc, list |-> list, mv |-> <<>>, next |-> 1, key |-> key, val |-> val, lone |-> TRUE]
Idle  == Call("idle", Empty, Unset, 0)

At(c, pc) == call[c].pc = pc
Return(c) == call' = [call EXCEPT ![c] = Idle]

(* Every call that is under way when another starts is no longer alone      *)
Start(c, request) ==
  /\ At(c, "idle")
  /\ history.calls < MaxCalls
  /\ call' = [x \in Callers |->
       IF x = c THEN [request EXCEPT !.lone = \A y \in Callers : At(y, "idle")]
       ELSE IF At(x, "idle") THEN Idle ELSE [call[x] EXCEPT !.lone = FALSE]]
  /\ pcode' = pcode
-----------------------------------------------------------------------------
(* vf_curve: both handlers read points until one fails or all are read      *)
ShowCurve(c) ==
  /\ Start(c, Call("show", Empty, Unset, 0))
  /\ history' = [history EXCEPT !.calls = @ + 1]

StoreCurve(c) ==
  \E f \in Lists :
    /\ Start(c, Call("seed", f, Unset, 0))
    /\ history' = [history EXCEPT !.calls = @ + 1,
                                  !.listed = @ \cup {<<p, Clamp(f[p], VMAX)>> : p \in DOMAIN f}]

ReadPoint(c) ==
  /\ call[c].pc \in {"show", "seed"}
  /\ Len(call[c].mv) < OC_VF_NPTS
  /\ call' = [call EXCEPT ![c].mv = Append(@, pcode.curve[Len(@) + 1])]
  /\ UNCHANGED <<pcode, history>>

(* The points read are printed; the error only if there are none            *)
Printed(c) ==
  /\ At(c, "show")
  /\ Return(c)
  /\ UNCHANGED <<pcode, history>>

(* A slip: the index read from the list is one too high for mv              *)
EditedOffByOne(mv, f) ==
  [p \in DOMAIN mv |-> IF p + 1 \in DOMAIN f THEN Clamp(f[p + 1], VMAX) ELSE mv[p]]

(* The list, over the points that were read *)
Edited(mv, f) ==
  [p \in DOMAIN mv |-> IF p \in DOMAIN f THEN Clamp(f[p], VMAX) ELSE mv[p]]

Edit(c) ==
  /\ At(c, "seed")
  /\ call' = [call EXCEPT ![c].mv = Edited(@, call[c].list),
                          ![c].pc = "begin"]
  /\ call[c].mv # <<>>
  /\ UNCHANGED <<pcode, history>>

Opened == [pcode EXCEPT !.open = TRUE,
                        !.staged = IF pcode.discards THEN Empty ELSE pcode.staged]

(* A slip: unread points are written too, as 0 from the uninitialised mv    *)
BeginWritingAll(c) ==
  /\ At(c, "begin")
  /\ pcode' = Opened
  /\ call' = [call EXCEPT ![c].pc = "write",
                          ![c].mv = [p \in Points |-> IF p \in DOMAIN @ THEN @[p] ELSE 0]]
  /\ history' = history

Begin(c) ==
  /\ At(c, "begin")
  /\ pcode' = Opened
  /\ call' = [call EXCEPT ![c].pc = "write"]
  /\ history' = history

(* A slip: the loop ends one point early *)
WritePointButLast(c) ==
  /\ At(c, "write")
  /\ pcode.open
  /\ LET p == call[c].next
     IN /\ pcode' = IF p = Len(call[c].mv) THEN pcode
                    ELSE IF pcode.deferred
                    THEN [pcode EXCEPT !.staged = [q \in DOMAIN @ \cup {p} |->
                                         IF q = p THEN call[c].mv[p] ELSE @[q]]]
                    ELSE [pcode EXCEPT !.curve[p] = call[c].mv[p]]
        /\ call' = [call EXCEPT ![c].next = p + 1,
                                ![c].pc = IF p = Len(call[c].mv) THEN "end" ELSE "write"]
  /\ history' = history

(* PCODE rejects a point outside a session *)
WritePoint(c) ==
  /\ At(c, "write")
  /\ pcode.open
  /\ LET p == call[c].next
     IN /\ pcode' = IF pcode.deferred
                    THEN [pcode EXCEPT !.staged = [q \in DOMAIN @ \cup {p} |->
                                         IF q = p THEN call[c].mv[p] ELSE @[q]]]
                    ELSE [pcode EXCEPT !.curve[p] = call[c].mv[p]]
        /\ call' = [call EXCEPT ![c].next = p + 1,
                                ![c].pc = IF p = Len(call[c].mv) THEN "end" ELSE "write"]
  /\ history' = history

(* END's result is not looked at *)
End(c) ==
  /\ At(c, "end")
  /\ \/ /\ pcode.open
        /\ pcode' = [pcode EXCEPT !.open = FALSE, !.staged = Empty,
                       !.curve = [p \in Points |->
                         IF p \in DOMAIN pcode.staged THEN pcode.staged[p] ELSE @[p]]]
     \/ pcode' = pcode
  /\ Return(c)
  /\ history' = history
-----------------------------------------------------------------------------
(* mem_speed and temp_limit *)
InRange(k, v) == v >= KnobRange[k][1] /\ v <= KnobRange[k][2]

StoreKnob(c) ==
  \E kv \in KnobChoices :
    /\ InRange(kv[1], kv[2])
    /\ Start(c, Call("set", Empty, kv[1], kv[2]))
    /\ history' = [history EXCEPT !.calls = @ + 1]

SetKnob(c) ==
  /\ At(c, "set")
  /\ pcode' = [pcode EXCEPT !.stagedKnob[call[c].key] = call[c].val]
  /\ call' = [call EXCEPT ![c].pc = "commit"]
  /\ history' = history

(* COMMIT's result is not looked at *)
CommitKnob(c) ==
  /\ At(c, "commit")
  /\ \/ pcode' = [pcode EXCEPT !.knob[call[c].key] = pcode.stagedKnob[call[c].key]]
     \/ pcode' = pcode
  /\ Return(c)
  /\ history' = history

(* A call of the mailbox fails, and the handler returns its error           *)
Fails(c) ==
  /\ \/ At(c, "begin") \/ At(c, "write") \/ At(c, "set")
     \/ At(c, "seed") /\ call[c].mv = <<>>
  /\ Return(c)
  /\ UNCHANGED <<pcode, history>>
-----------------------------------------------------------------------------
Init ==
  /\ pcode \in [curve : {StockCurve}, open : {FALSE}, staged : {Empty},
                knob : {StockKnob}, stagedKnob : {[k \in Knobs |-> Unset]},
                deferred : BOOLEAN, discards : BOOLEAN]
  /\ call = [c \in Callers |-> Idle]
  /\ history = [listed |-> {}, calls |-> 0]

Next ==
  \E c \in Callers :
    \/ ShowCurve(c) \/ StoreCurve(c) \/ StoreKnob(c)
    \/ ReadPoint(c) \/ Printed(c) \/ Edit(c) \/ Begin(c) \/ WritePoint(c) \/ End(c)
    \/ SetKnob(c) \/ CommitKnob(c)
    \/ Fails(c)

Spec == Init /\ [][Next]_vars
-----------------------------------------------------------------------------
Millivolts == VMIN..VMAX
Knob(k) == KnobRange[k][1]..KnobRange[k][2]
CallPcs == {"idle", "show", "seed", "begin", "write", "end", "set", "commit"}

PcodeOK ==
  /\ pcode.curve \in [Points -> Millivolts]
  /\ pcode.open \in BOOLEAN /\ pcode.deferred \in BOOLEAN /\ pcode.discards \in BOOLEAN
  /\ DOMAIN pcode.staged \subseteq Points
  /\ \A p \in DOMAIN pcode.staged : pcode.staged[p] \in Millivolts
  /\ \A k \in Knobs : /\ pcode.knob[k] \in Knob(k)
                      /\ pcode.stagedKnob[k] \in Knob(k) \cup {Unset}

CallOK(c) ==
  /\ call[c].pc \in CallPcs
  /\ call[c].list \in Lists \cup {Empty}
  /\ call[c].mv \in Seq(Millivolts) /\ Len(call[c].mv) <= OC_VF_NPTS
  /\ call[c].next \in 1..(OC_VF_NPTS + 1)
  /\ call[c].lone \in BOOLEAN

TypeOK == PcodeOK /\ \A c \in Callers : CallOK(c)

(* Whatever calls fail, and however several stores interleave: every point  *)
(* of the curve in force is stock or was listed, for that very point, by    *)
(* some store; no voltage is torn, shifted to another point or unclamped.   *)
PointsAccountedFor ==
  \A p \in Points : pcode.curve[p] = StockCurve[p] \/ <<p, pcode.curve[p]>> \in history.listed

(* What OcBoot relies on, of a firmware whose points take effect when their *)
(* session ends and whose sessions start afresh: a store that no other call *)
(* overlaps changes the curve in one step, to what Store makes of the       *)
(* listed points that it could read, or not at all, and sessions that       *)
(* earlier stores left open do not show.  Such a store leaves every point   *)
(* alone that it does not list, also where points take effect at once; only *)
(* a firmware that keeps what an unfinished session staged commits that     *)
(* along with the next store.                                               *)
Seen(c) == [p \in DOMAIN call[c].list \cap DOMAIN call[c].mv |-> call[c].list[p]]
LoneStep(c) ==
  /\ pcode.deferred /\ pcode.discards =>
       \/ pcode'.curve = pcode.curve
       \/ At(c, "end") /\ pcode'.curve = Store(pcode.curve, Seen(c))
  /\ pcode.discards \/ ~pcode.deferred =>
       \A p \in Points \ DOMAIN call[c].list : pcode'.curve[p] = pcode.curve[p]
LoneStoreIsAtomic ==
  [][\A c \in Callers : call'[c] # call[c] /\ call[c].lone /\ ~At(c, "idle") => LoneStep(c)]_vars
-----------------------------------------------------------------------------
(* A statement of the source that the code does not keep                    *)

(* "unlisted points keep their current value" (xe_gt_oc.c:23-24), also      *)
(* while another process writes points of its own.                          *)
UnlistedKept ==
  [][\A c \in Callers : call'[c] # call[c] /\ ~At(c, "idle") =>
       \A p \in Points \ DOMAIN call[c].list : pcode'.curve[p] = pcode.curve[p]]_vars
===============================================================================
