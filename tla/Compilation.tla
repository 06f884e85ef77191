----------------------------- MODULE Compilation -----------------------------
(***************************************************************************)
(* A method is compiled by hl::Transformer and ll::Transformer and then    *)
(* run by the interpreter, in step with its IL: the IL executes one        *)
(* instruction, then the compiled code executes what that instruction was  *)
(* compiled to.                                                            *)
(***************************************************************************)
EXTENDS ILMachine

CONSTANTS Leftovers,        \* what the slots of a new frame may hold
          ArgValues(_)      \* the values tried for an argument of a type

VARIABLES pending           \* the IL instruction the code has to catch up with

vars == <<tvars, irvars, ilvars, pending>>

\* The code has caught up; it is at the head of the method.
None  == 0
Entry == -1

Init ==
    /\ TInit
    /\ code = <<>> /\ clauses = <<>> /\ frameSize = 0
    /\ \E left \in Leftovers : /\ frame = [s \in 0..(Slots - 1) |-> left]
                              /\ memory = [c \in 0..Cells |-> left]
    /\ ilMem = memory
    /\ high = 0 /\ ip = 1 /\ outcome = Running
    /\ ilPc = 1 /\ ilStack = <<>> /\ ilArgs = <<>> /\ ilLocals = <<>>
    /\ ilOutcome = Running /\ pending = None

Compile == Transform /\ UNCHANGED <<irvars, ilvars, pending>>

\* The second transformer runs; the method is called when its code is built.
Assemble ==
    /\ phase = "transformed"
    /\ phase' = "call"
    /\ code' = LoweredCode
    /\ clauses' = LoweredClauses(LoweredCode)
    /\ frameSize' = FrameSize
    /\ UNCHANGED <<method, argVars, localVars, base, inStack, bb, il, stack, top,
                   maxStack, params, hl, frame, high, memory, ip, outcome, ilvars, pending>>

\* The caller has left the arguments in the first slots of the frame: the
\* value in the low bytes, anything in the rest.
PassArg ==
    /\ phase = "call"
    /\ Len(ilArgs) < Len(argVars)
    /\ \E v \in ArgValues(argVars[Len(ilArgs) + 1].reduce) :
          LET var == argVars[Len(ilArgs) + 1]
          IN  /\ ilArgs' = Append(ilArgs, v)
              /\ frame' = PutCells(frame, var.offset, var.reduce, v)
    /\ UNCHANGED <<tvars, code, clauses, frameSize, high, memory, ip, outcome,
                   ilPc, ilStack, ilLocals, ilMem, ilOutcome, pending>>

\* Locals start as zero, or as what their slots hold if the method says so.
Enter ==
    /\ phase = "call"
    /\ Len(ilArgs) = Len(argVars)
    /\ phase' = "run"
    /\ ilLocals' = [k \in DOMAIN localVars |->
                       IF method.initLocals
                           THEN [j \in DOMAIN Decode(frame, localVars[k].reduce, 0) |-> 0]
                           ELSE Decode(frame, localVars[k].reduce, localVars[k].offset)]
    /\ pending' = Entry
    /\ UNCHANGED <<method, argVars, localVars, base, inStack, bb, il, stack, top,
                   maxStack, params, hl, irvars, ilPc, ilStack, ilArgs, ilMem, ilOutcome>>

RunIL ==
    /\ phase = "run" /\ pending = None /\ ilOutcome = Running
    /\ ILStep
    /\ pending' = ilPc
    /\ UNCHANGED <<tvars, irvars>>

\* The code still has instructions of the pending IL instruction to execute;
\* at the head of the method, the one that zeroes the locals.
BehindAt(p) ==
    /\ p \in DOMAIN code
    /\ IF pending = Entry THEN code[p].op = "InitLocals" ELSE code[p].il = pending

Behind == BehindAt(ip)

RunCode ==
    /\ phase = "run" /\ pending # None /\ Behind
    /\ Exec
    /\ pending' = IF ip' = ip + 1 /\ BehindAt(ip') THEN pending ELSE None
    /\ UNCHANGED <<tvars, ilvars>>

\* The IL instruction was compiled to nothing.
SkipCode ==
    /\ phase = "run" /\ pending # None /\ ~Behind
    /\ pending' = None
    /\ UNCHANGED <<tvars, irvars, ilvars>>

Next == Compile \/ Assemble \/ PassArg \/ Enter \/ RunIL \/ RunCode \/ SkipCode

Spec == Init /\ [][Next]_vars

-----------------------------------------------------------------------------
InStep == phase = "run" /\ pending = None

\* The slot of the k-th entry of the IL stack.
StackSlot(k) ==
    LET Slot[j \in 1..k] == IF j = 1 THEN base
            ELSE Slot[j - 1] + StackObjects(PrimitiveReduce(ilStack[j - 1].data))
    IN  Slot[k]

\* The code of the IL instruction at pc, behind what zeroes the locals.
CodeAt(pc) == BlockStart(code, pc)
              + Cardinality({k \in DOMAIN code : code[k].op = "InitLocals"
                                                 /\ code[k].il = pc})

SameValues ==
    /\ \A k \in DOMAIN ilArgs :
          Decode(frame, argVars[k].reduce, argVars[k].offset) = ilArgs[k]
    /\ \A k \in DOMAIN ilLocals :
          Decode(frame, localVars[k].reduce, localVars[k].offset) = ilLocals[k]
    /\ \A k \in DOMAIN ilStack :
          Decode(frame, PrimitiveReduce(ilStack[k].data), StackSlot(k)) = ilStack[k].v
    /\ memory = ilMem

(* A verified method that compiles means what its IL means: whenever the     *)
(* code has caught up with an instruction, it has ended the same way - the   *)
(* same result or the same exception - or it is at the code of the same IL   *)
(* instruction, and every argument, local and stack entry has the same value *)
(* in its slot, at the width of its type.                                    *)
SameMeaning ==
    InStep => /\ outcome = ilOutcome
              /\ outcome = Running => ip = CodeAt(ilPc) /\ SameValues

(* The compiler takes every method whose stack is the same on all paths: no  *)
(* join of branches, handler or block entry is mistaken for a mismatch.      *)
RejectsOnlyIllTyped == phase = "rejected" => ~WellTyped

(* A running method stays in the frame that was reserved for it: no          *)
(* instruction writes a slot at or above max_stack_object_size.  Only an     *)
(* exception may, by one slot, in a method that never pushes anything.       *)
FrameHolds == high <= LargerOf(frameSize, base + 1)
=============================================================================
