----------------------------- MODULE MachineState ------------------------------
(***************************************************************************)
(* The two stacks of the interpreter (interp/machine_state.cpp): the array *)
(* of InterpFrames and the evaluation stack, both of fixed size, shared by *)
(* every nested activation of Interpreter::execute.  A call from the       *)
(* interpreter puts the callee's evaluation area over the arguments that   *)
(* the caller pushed; a call from native code allocates one on top.  Each  *)
(* activation of execute saves both tops and puts them back when it ends.  *)
(*                                                                         *)
(* `leaked` and `calls` are history variables, on which nothing of the     *)
(* code's own state depends: `calls` is the chain of calls in progress,    *)
(* which the stacks must represent, `leaked` the slots failed calls took.  *)
(***************************************************************************)
EXTENDS Naturals, Sequences

CONSTANTS
  FrameSize,    \* _frame_stack_size
  EvalSize,     \* _eval_stack_size
  Need          \* max_stack_object_size of the methods there are

ASSUME SizeAssumption == FrameSize \in Nat /\ EvalSize \in Nat
ASSUME NeedAssumption == Need \subseteq Nat

VARIABLES
  slots,        \* the array of frames, contents of unused ones included
  ftop,         \* _frame_stack_top
  etop,         \* _eval_stack_top
  acts,         \* activations of execute: their save point, their `frame`
  leaked,       \* slots that a failed call took and did not give back
  calls         \* the calls in progress: their slot and frame

vars == <<slots, ftop, etop, acts, leaked, calls>>

--------------------------------------------------------------------------------
Unset == [base |-> 0, size |-> 0, old |-> 0]
Rec(base, n) == [base |-> base, size |-> n, old |-> etop]

Act == acts[Len(acts)]
Last(s) == s[Len(s)]
Front(s) == SubSeq(s, 1, Len(s) - 1)
Cur == slots[Act.cur]

(* The interpreter stands in a slot that no call in progress owns. *)
Stale == Act.cur # Last(calls).slot

Init ==
  /\ slots = [i \in 0 .. FrameSize - 1 |-> Unset]
  /\ ftop = 0 /\ etop = 0
  /\ acts = <<>> /\ leaked = {} /\ calls = <<>>

(* alloc_frame_stack, alloc_eval_stack *)
FrameFits == ftop + 1 <= FrameSize
EvalFits(newTop) == newTop <= EvalSize

(* The frame of a callee is the slot at the top. *)
Entered(rec, native, stale) ==
  /\ slots' = [slots EXCEPT ![ftop] = rec]
  /\ ftop' = ftop + 1
  /\ calls' = Append(calls,
       [slot |-> ftop, frame |-> rec, native |-> native, stale |-> stale])
  /\ UNCHANGED leaked

--------------------------------------------------------------------------------
(* Interpreter::execute, called by the host or by native code that the     *)
(* current frame runs: the save point, then enter_frame_from_native.       *)
Execute(n) ==
  /\ FrameFits /\ EvalFits(etop + n)
  /\ Entered(Rec(etop, n), TRUE, FALSE)
  /\ etop' = etop + n
  /\ acts' = Append(acts, [ftop |-> ftop, etop |-> etop, cur |-> ftop])

(* The evaluation stack is full: execute fails after the frame was taken,  *)
(* and its save point gives the frame back.                                *)
ExecuteOverflows(n) ==
  /\ FrameFits /\ ~EvalFits(etop + n)
  /\ slots' = [slots EXCEPT ![ftop].old = etop]
  /\ UNCHANGED <<ftop, etop, acts, leaked, calls>>

(* Mutant: the top is not moved past the callee's area. *)
CallInterpWrongTop(k, n) ==
  /\ acts # <<>> /\ k <= Cur.size
  /\ FrameFits /\ EvalFits(Cur.base + k + n)
  /\ Entered(Rec(Cur.base + k, n), FALSE, Stale)
  /\ etop' = Cur.base + k
  /\ acts' = [acts EXCEPT ![Len(acts)].cur = ftop]

(* enter_frame_from_interp, at offset k of the caller's area.              *)
CallInterp(k, n) ==
  /\ acts # <<>> /\ k <= Cur.size
  /\ FrameFits /\ EvalFits(Cur.base + k + n)
  /\ Entered(Rec(Cur.base + k, n), FALSE, Stale)
  /\ etop' = Cur.base + k + n
  /\ acts' = [acts EXCEPT ![Len(acts)].cur = ftop]

(* The evaluation stack is full: the frame was taken and stays taken, and  *)
(* the error is raised in the caller.                                      *)
CallOverflows(k, n) ==
  /\ acts # <<>> /\ k <= Cur.size
  /\ FrameFits /\ ~EvalFits(Cur.base + k + n)
  /\ slots' = [slots EXCEPT ![ftop].old = etop]
  /\ ftop' = ftop + 1
  /\ leaked' = leaked \cup {ftop}
  /\ UNCHANGED <<etop, acts, calls>>

(* leave_frame, at a return or when no handler of the frame takes an       *)
(* exception, in a build without assertions: what lies above the frame     *)
(* goes with it.  `top` is the new top of the frame stack.  No call ends   *)
(* when the frame left is a stale one.                                     *)
FirstFrame == Act.cur <= Act.ftop

Left(top) ==
  /\ ftop' = top
  /\ leaked' = {i \in leaked : i < top}
  /\ calls' = IF Stale THEN calls ELSE Front(calls)
  /\ UNCHANGED slots

(* Mutant: the interpreter goes on in the slot where the activation began. *)
LeaveToFirst ==
  /\ acts # <<>> /\ ~FirstFrame
  /\ Left(Act.cur)
  /\ etop' = Cur.old
  /\ acts' = [acts EXCEPT ![Len(acts)].cur = Act.ftop]

(* The interpreter goes on in the slot below, whatever it holds.  Of one   *)
(* that a failed call left, that is what an earlier call wrote there, but  *)
(* for `old`, and it calls and returns like any other.  (One that no call  *)
(* ever entered is all zeros and would crash; here it goes on too, with an *)
(* empty area.)                                                            *)
LeaveToInterp ==
  /\ acts # <<>> /\ ~FirstFrame
  /\ Left(Act.cur)
  /\ etop' = Cur.old
  /\ acts' = [acts EXCEPT ![Len(acts)].cur = @ - 1]

(* Mutant: the save point restores the frame stack only. *)
LeaveToNativeNoRestore ==
  /\ acts # <<>> /\ FirstFrame
  /\ Left(Act.ftop)
  /\ UNCHANGED etop
  /\ acts' = Front(acts)

(* leave_frame answers null: execute returns, and its save point restores  *)
(* both tops.                                                              *)
LeaveToNative ==
  /\ acts # <<>> /\ FirstFrame
  /\ Left(Act.ftop)
  /\ etop' = Act.etop
  /\ acts' = Front(acts)

Next ==
  \/ \E n \in Need : Execute(n) \/ ExecuteOverflows(n)
  \/ \E k \in 0 .. EvalSize, n \in Need : CallInterp(k, n) \/ CallOverflows(k, n)
  \/ LeaveToInterp
  \/ LeaveToNative

Spec == Init /\ [][Next]_vars

--------------------------------------------------------------------------------
(* Types.                                                                  *)
FrameRec == [base : Nat, size : Nat, old : Nat]
TypeOK ==
  /\ slots \in [0 .. FrameSize - 1 -> FrameRec]
  /\ ftop \in 0 .. FrameSize /\ etop \in 0 .. EvalSize
  /\ acts \in Seq([ftop : Nat, etop : Nat, cur : 0 .. FrameSize - 1])
  /\ leaked \subseteq 0 .. FrameSize - 1
  /\ calls \in Seq([slot : 0 .. FrameSize - 1, frame : FrameRec,
                native : BOOLEAN, stale : BOOLEAN])

(* Whatever calls failed or returned before, no call in progress had its   *)
(* frame overwritten, and the interpreter stands in the innermost one, or  *)
(* else in a slot above it that a failed call left, where leave_frame went *)
(* on; if no slot leaked, always in the innermost one.                     *)
FramesIntact ==
  /\ Len(acts) = 0 <=> Len(calls) = 0
  /\ acts # <<>> =>
       \/ Act.cur = Last(calls).slot
       \/ Act.cur \in leaked /\ Act.cur > Last(calls).slot
  /\ \A i \in 1 .. Len(calls) : slots[calls[i].slot] = calls[i].frame

(* Both tops are what the calls in progress need, however the calls before *)
(* them ended, stale frames included: the evaluation stack ends with the   *)
(* area of the innermost call, and only slots leaked since it began lie    *)
(* above its frame.                                                        *)
TopsExact ==
  /\ calls = <<>> => ftop = 0 /\ etop = 0
  /\ calls # <<>> =>
       LET c == Last(calls)
       IN /\ etop = c.frame.base + c.frame.size
          /\ ftop > c.slot
          /\ c.slot + 1 .. ftop - 1 = {i \in leaked : i > c.slot}

(* What a call may still use of its area: what lies below the arguments it *)
(* passed on to the next one, or all of it if it runs native code.         *)
LiveEnd(i) ==
  LET c == calls[i].frame
  IN IF i < Len(calls) /\ ~calls[i + 1].native THEN calls[i + 1].frame.base
     ELSE c.base + c.size

(* Up to this call, none was made by a stale frame. *)
Regular(j) == \A m \in 1 .. j : ~calls[m].stale

(* No call in progress lies over the live part of another, except that a   *)
(* call which a stale frame made, and those after it, may lie anywhere.    *)
LiveDisjoint ==
  \A i, j \in 1 .. Len(calls) :
    i < j /\ Regular(j) => LiveEnd(i) <= calls[j].frame.base /\ calls[i].frame.base <= LiveEnd(i)

(* As long as no slot leaked, the caller of a frame is in the slot below,  *)
(* where leave_frame looks for it.                                         *)
CallerBelow ==
  leaked = {} =>
    \A i \in 1 .. Len(calls) : calls[i].slot = i - 1

(* The assertion of leave_frame, wherever a frame may be left.             *)
FrameIsTop == acts # <<>> => ftop = Act.cur + 1

--------------------------------------------------------------------------------
(* The inductive invariant.                                                *)

N == Len(calls)
End(i) == calls[i].frame.base + calls[i].frame.size

(* Frames lie in the order of their calls; between the frames of two calls *)
(* there are leaked slots only.                                            *)
SlotsInOrder ==
  /\ \A i, j \in 1 .. N : i < j => calls[i].slot < calls[j].slot
  /\ \A i \in 2 .. N : calls[i - 1].slot + 1 .. calls[i].slot - 1 \subseteq leaked
  /\ \A i \in 1 .. N :
       {l \in leaked : l < calls[i].slot} = {} => calls[i].slot = i - 1
  /\ IF calls = <<>> THEN leaked = {} ELSE calls[1].slot = 0

(* The area of a call begins where native code found the top, or, unless a *)
(* stale frame made the call, within that of its caller; its frame         *)
(* remembers where that one ends.                                          *)
AreasInOrder ==
  /\ \A i \in 1 .. N : calls[i].frame.old = IF i = 1 THEN 0 ELSE End(i - 1)
  /\ \A i \in 1 .. N :
       IF calls[i].native THEN calls[i].frame.base = calls[i].frame.old
       ELSE i > 1 /\ (~calls[i].stale =>
                         /\ calls[i - 1].frame.base <= calls[i].frame.base
                         /\ calls[i].frame.base <= End(i - 1))
  /\ \A i, j \in 1 .. N :
       i < j /\ Regular(j) => calls[i].frame.base <= calls[j].frame.base
  /\ \A i \in 1 .. N : End(i) <= EvalSize

(* Slot l lies between the frames of call i and of the next one.           *)
Above(l, i) == calls[i].slot < l /\ (i < N => l < calls[i + 1].slot)

(* A slot that a failed call left remembers, like the frame of a call that *)
(* goes through, where the area of the call below it ends.                 *)
LeakedInOrder ==
  \A l \in leaked, i \in 1 .. N : Above(l, i) => slots[l].old = End(i)

(* Slot s is that of call i, or a leaked one above it.                     *)
StandsIn(s, i) == s = calls[i].slot \/ (s \in leaked /\ Above(s, i))

(* The activations of execute are those of the calls from native code, and *)
(* the one below stands in the call before, or in a leaked slot above it.  *)
ActsMatchCalls ==
  /\ \A i, j \in 1 .. Len(acts) : i < j => acts[i].ftop < acts[j].ftop
  /\ \A j \in 1 .. Len(acts) : \E i \in 1 .. N :
       calls[i].native /\ calls[i].slot = acts[j].ftop /\ calls[i].frame.base = acts[j].etop
  /\ \A i \in 1 .. N : calls[i].native =>
       \E j \in 1 .. Len(acts) : calls[i].slot = acts[j].ftop
  /\ \A j \in 1 .. Len(acts), i \in 1 .. N : calls[i].slot = acts[j].ftop =>
       IF j = 1 THEN i = 1 ELSE i > 1 /\ StandsIn(acts[j - 1].cur, i - 1)

IInv ==
  /\ TypeOK /\ FramesIntact /\ TopsExact
  /\ SlotsInOrder /\ AreasInOrder /\ LeakedInOrder /\ ActsMatchCalls
================================================================================
