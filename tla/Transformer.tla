---------------------------- MODULE Transformer ----------------------------
(***************************************************************************)
(* The first half of the method compiler: hl::Transformer with its basic   *)
(* block splitter.  It lays the arguments and the locals of a method out   *)
(* in the slots of a frame, cuts the IL into basic blocks, and walks the   *)
(* blocks in order, simulating the evaluation stack with typed variables   *)
(* whose slots the emitted instructions name.                              *)
(*                                                                         *)
(* IL offsets count instructions, from 1; CodeEnd is the code size.  An    *)
(* instruction is a record whose op names a family (Arith, Compare, ...)   *)
(* and whose other fields are its operands.  The loops of the code that    *)
(* visit arguments, locals, blocks, instructions and call parameters are   *)
(* one step per round.                                                     *)
(***************************************************************************)
EXTENDS EvalTypes, FiniteSets

CONSTANTS Methods      \* the method bodies that may be compiled

VARIABLES phase,       \* where the compilation is
          method,      \* the method being compiled
          argVars,     \* _arg_vars
          localVars,   \* _local_vars
          base,        \* _total_arg_and_local_stack_object_size
          inStack,     \* per block: inited_eval_stack, in_eval_stack, ..._top
          bb,          \* _cur_bb
          il,          \* il_offset_cur
          stack,       \* _cur_bb->eval_stack
          top,         \* _cur_bb->eval_stack_top
          maxStack,    \* _max_eval_stack_size
          params,      \* the parameters popped so far by add_call_common
          hl           \* the instructions emitted so far, block after block

tvars == <<phase, method, argVars, localVars, base, inStack, bb, il,
           stack, top, maxStack, params, hl>>

Body    == method.body
CodeEnd == Len(Body) + 1
Instr   == Body[il]

\* A variable that lives in the slots from offset on.
Var(reduce, offset) ==
    [reduce |-> reduce, data |-> DataTypeOf(reduce),
     size |-> StackObjects(reduce), offset |-> offset]

\* push_primitive_to_eval_stack gives a computed value its full type.
PrimitiveReduce(data) == IF data = "RefOrPtr" THEN "I" ELSE data

Primitive(data, offset) == Var(PrimitiveReduce(data), offset)

-----------------------------------------------------------------------------
(***************************************************************************)
(* Basic blocks.                                                           *)
(***************************************************************************)
CondBranches == {"BrTrue", "BrFalse", "Beq", "Bge", "Bgt", "Ble", "Blt",
                 "BneUn", "BgeUn", "BgtUn", "BleUn", "BltUn"}

SplitsAt(k) ==
    LET i == Body[k]
    IN  CASE i.op \in {"Ret", "Throw"} -> {k + 1}
          [] i.op = "Leave"            -> {k + 1, i.to}
          [] i.op \in CondBranches \cup {"Br"} ->
                 IF i.to = k + 1 THEN {} ELSE {k + 1, i.to}
          [] i.op = "Switch" ->
                 LET far == {i.cases[j] : j \in DOMAIN i.cases} \ {k + 1}
                 IN  IF far = {} THEN {} ELSE far \cup {k + 1}
          [] OTHER -> {}

Clauses == {method.clauses[c] : c \in DOMAIN method.clauses}

Splits == UNION {SplitsAt(k) : k \in DOMAIN Body}
          \cup UNION {{c.try, c.tryEnd, c.handler, c.handlerEnd} : c \in Clauses}

Blocks == {1} \cup Splits

LaterBlocks(b) == {s \in Blocks : s > b}
NextBlock(b) == CHOOSE n \in LaterBlocks(b) : \A s \in LaterBlocks(b) : n <= s
BlockEnd(b)  == IF LaterBlocks(b) = {} THEN CodeEnd ELSE NextBlock(b)

\* setup_exception_clauses: a clause overlaps the one before it only if it
\* encloses it, and the handlers are disjoint or nested.
WellNested(inner, outer) ==
    /\ \/ outer.try >= inner.tryEnd
       \/ inner.try >= outer.tryEnd
       \/ outer.try <= inner.try /\ outer.tryEnd >= inner.tryEnd
    /\ \/ outer.handler >= inner.handlerEnd
       \/ inner.handler >= outer.handlerEnd
       \/ outer.handler <= inner.handler /\ outer.handlerEnd >= inner.handlerEnd
       \/ inner.handler <= outer.handler /\ inner.handlerEnd >= outer.handlerEnd

SplittingFails ==
    \/ Splits = {}
    \/ ~(Splits \subseteq 1..CodeEnd)
    \/ \E c \in 2..Len(method.clauses) :
           ~WellNested(method.clauses[c - 1], method.clauses[c])

\* A catch handler starts with the exception as its only stack entry.
InitialInStack(b) ==
    LET caught == IF \E c \in Clauses : c.handler = b /\ c.flags = "Exception"
                      THEN <<Primitive("RefOrPtr", base)>> ELSE <<>>
    IN  [inited |-> FALSE, vars |-> caught,
         top |-> IF caught = <<>> THEN base ELSE base + caught[1].size]

-----------------------------------------------------------------------------
(***************************************************************************)
(* The state while a method is being set up.                               *)
(***************************************************************************)
TInit ==
    /\ phase = "args"
    /\ method \in Methods
    /\ argVars = <<>> /\ localVars = <<>> /\ base = 0
    /\ inStack = <<>> /\ bb = 1 /\ il = 1
    /\ stack = <<>> /\ top = 0 /\ maxStack = 0
    /\ params = <<>> /\ hl = <<>>

bodyVars == <<inStack, bb, il, stack, top, maxStack, params, hl>>

\* setup_args, one parameter a step.
SetupArg ==
    /\ phase = "args"
    /\ IF Len(argVars) < Len(method.args)
           THEN LET v == Var(method.args[Len(argVars) + 1], base)
                IN  /\ argVars' = Append(argVars, v)
                    /\ base' = base + v.size
                    /\ UNCHANGED phase
           ELSE phase' = "locals" /\ UNCHANGED <<argVars, base>>
    /\ UNCHANGED <<method, localVars, bodyVars>>

\* setup_locals, one local a step.
SetupLocal ==
    /\ phase = "locals"
    /\ IF Len(localVars) < Len(method.locals)
           THEN LET v == Var(method.locals[Len(localVars) + 1], base)
                IN  /\ localVars' = Append(localVars, v)
                    /\ base' = base + v.size
                    /\ UNCHANGED phase
           ELSE phase' = "blocks" /\ UNCHANGED <<localVars, base>>
    /\ UNCHANGED <<method, argVars, bodyVars>>

\* The instructions the compiler emits: the IL instruction "of" they come
\* from, the variables they read and the one they write.
Inst(op, of, srcs, dsts) ==
    [op |-> op, of |-> of, il |-> il, src |-> srcs, dst |-> dsts]

\* add_init_locals: the locals are zeroed at the head of the first block.
InitLocals ==
    IF method.initLocals /\ localVars # <<>>
        THEN <<Inst("InitLocals",
                    [from |-> localVars[1].offset, size |-> base - localVars[1].offset],
                    <<>>, <<>>)>>
        ELSE <<>>

\* setup_basic_blocks, setup_exception_clauses, add_init_locals, and the
\* entry of transform_body into the first block.
SetupBlocks ==
    /\ phase = "blocks"
    /\ UNCHANGED <<method, argVars, localVars, base, params>>
    /\ IF SplittingFails
           THEN /\ phase' = "rejected"
                /\ UNCHANGED <<inStack, bb, il, stack, top, maxStack, hl>>
           ELSE /\ phase' = "body"
                /\ inStack' = [[b \in Blocks |-> InitialInStack(b)]
                                   EXCEPT ![1].inited = TRUE]
                /\ bb' = 1 /\ il' = 1
                /\ stack' = InitialInStack(1).vars
                /\ top' = InitialInStack(1).top
                /\ maxStack' = base
                /\ hl' = InitLocals

-----------------------------------------------------------------------------
(***************************************************************************)
(* The evaluation stack of the current block.                              *)
(***************************************************************************)
InBody == phase = "body" /\ il < BlockEnd(bb)

\* The k-th entry from the top, and the stack without its k top entries.
FromTop(k) == stack[Len(stack) + 1 - k]
Below(k)   == SubSeq(stack, 1, Len(stack) - k)
TopBelow(k) == CASE k = 0 -> top
                 [] k = 1 -> top - FromTop(1).size
                 [] k = 2 -> top - FromTop(1).size - FromTop(2).size
                 [] k = 3 -> top - FromTop(1).size - FromTop(2).size - FromTop(3).size

LargerOf(a, b) == IF a > b THEN a ELSE b

\* k pops, then perhaps a push (a sequence of at most one variable), and
\* the instructions emitted meanwhile.
Simulate(k, pushed, insts) ==
    LET newTop == IF pushed = <<>> THEN TopBelow(k)
                                   ELSE TopBelow(k) + pushed[1].size
    IN  /\ stack' = Below(k) \o pushed
        /\ top' = newTop
        /\ maxStack' = IF pushed = <<>> THEN maxStack
                                        ELSE LargerOf(maxStack, newTop)
        /\ hl' = hl \o insts

Next1 == il' = il + 1
Keeps == UNCHANGED <<phase, method, argVars, localVars, base, bb>>

\* add_ldarg, add_ldloc: a copy of the variable, with its own small type.
Load(var) == LET dst == [var EXCEPT !.offset = top]
             IN  Simulate(0, <<dst>>, <<Inst(Instr.op, Instr, <<var>>, <<dst>>)>>)

\* add_starg, add_stloc
StoreTo(var) == Simulate(1, <<>>, <<Inst(Instr.op, Instr, <<FromTop(1)>>, <<var>>)>>)

\* add_ldci4, add_ldci8, add_ldnull
Constant(data) == LET dst == Primitive(data, top)
                  IN  Simulate(0, <<dst>>, <<Inst(Instr.op, Instr, <<>>, <<dst>>)>>)

\* What an operator with k operands leaves: a full-width variable in the
\* lowest of their slots.
Result(k, data) == Primitive(data, TopBelow(k))

LoadOrStore ==
    /\ InBody
    /\ \/ Instr.op = "LdArg" /\ Instr.n \in DOMAIN argVars /\ Load(argVars[Instr.n])
       \/ Instr.op = "LdLoc" /\ Instr.n \in DOMAIN localVars /\ Load(localVars[Instr.n])
       \/ Instr.op = "Dup" /\ stack # <<>> /\ Load(FromTop(1))
       \/ Instr.op = "LdcI4" /\ Constant("I4")
       \/ Instr.op = "LdcI8" /\ Constant("I8")
       \/ Instr.op = "LdNull" /\ Constant("RefOrPtr")
       \/ Instr.op = "StArg" /\ Instr.n \in DOMAIN argVars /\ stack # <<>>
             /\ StoreTo(argVars[Instr.n])
       \/ Instr.op = "StLoc" /\ Instr.n \in DOMAIN localVars /\ stack # <<>>
             /\ StoreTo(localVars[Instr.n])
       \/ Instr.op = "Nop" /\ Simulate(0, <<>>, <<>>)
       \/ Instr.op = "Pop" /\ stack # <<>> /\ Simulate(1, <<>>, <<>>)
    /\ Next1 /\ Keeps /\ UNCHANGED <<inStack, params>>

-----------------------------------------------------------------------------
(***************************************************************************)
(* Operators.  FromTop(2) is the left operand and FromTop(1) the right.    *)
(***************************************************************************)
ArithOps == {"Add", "Sub", "Mul", "Div", "DivUn", "Rem", "RemUn", "AddOvf",
             "AddOvfUn", "SubOvf", "SubOvfUn", "MulOvf", "MulOvfUn"}
BitOps     == {"And", "Or", "Xor"}
ShiftOps   == {"Shl", "Shr", "ShrUn"}
UnaryOps   == {"Neg", "Not"}
CompareOps == {"Ceq", "Cgt", "CgtUn", "Clt", "CltUn"}

\* calc_bin_arith_result_type, calc_bitop_result_type
BinResult(left, right) ==
    CASE "I8" \in {left, right}       -> "I8"
      [] "RefOrPtr" \in {left, right} -> "RefOrPtr"
      [] OTHER                        -> "I4"

\* calc_arith_op_eval_data_size_by_data_type
ArithRank(data) == CASE data = "I4" -> 1 [] data = "RefOrPtr" -> 2 [] data = "I8" -> 3

\* insert_conv_from_to: the operand is widened in its own slot.
Widen(from, to) ==
    Inst("Conv",
         [op |-> "Conv", kind |-> "Conv",
          type |-> CASE to.data = "I4" -> "I4" [] to.data = "I8" -> "I8"
                     [] to.data = "RefOrPtr" -> "I"],
         <<from>>, <<[to EXCEPT !.offset = from.offset]>>)

(* Mutant: the operands of an operator stay as wide as they are. *)
WideningLeftOut(left, right) == <<>>

\* insert_conv_for_bin_arith_op
Widening(left, right) ==
    CASE left.data = right.data -> <<>>
      [] ArithRank(left.data) < ArithRank(right.data) -> <<Widen(left, right)>>
      [] ArithRank(left.data) > ArithRank(right.data) -> <<Widen(right, left)>>

TwoPrimitives ==
    Len(stack) >= 2 /\ IsPrimitive(FromTop(1).data) /\ IsPrimitive(FromTop(2).data)

\* add_bin_arith_op
BinArith ==
    /\ InBody /\ Instr.op \in ArithOps /\ TwoPrimitives
    /\ LET left == FromTop(2)
           right == FromTop(1)
           dst == Result(2, BinResult(left.data, right.data))
       IN  Simulate(2, <<dst>>,
                    Widening(left, right)
                    \o <<Inst(Instr.op, Instr, <<left, right>>, <<dst>>)>>)
    /\ Next1 /\ Keeps /\ UNCHANGED <<inStack, params>>

\* add_bin_bit_op: the operands are not widened.
BinBit ==
    /\ InBody /\ Instr.op \in BitOps /\ TwoPrimitives
    /\ LET left == FromTop(2)
           right == FromTop(1)
           dst == Result(2, BinResult(left.data, right.data))
       IN  Simulate(2, <<dst>>, <<Inst(Instr.op, Instr, <<left, right>>, <<dst>>)>>)
    /\ Next1 /\ Keeps /\ UNCHANGED <<inStack, params>>

\* add_bit_shift_op: the amount is an int32 or a native int.
Shift ==
    /\ InBody /\ Instr.op \in ShiftOps /\ TwoPrimitives /\ FromTop(1).data # "I8"
    /\ LET dst == Result(2, FromTop(2).data)
       IN  Simulate(2, <<dst>>,
                    <<Inst(Instr.op, Instr, <<FromTop(2), FromTop(1)>>, <<dst>>)>>)
    /\ Next1 /\ Keeps /\ UNCHANGED <<inStack, params>>

\* add_neg, add_not
Unary ==
    /\ InBody /\ Instr.op \in UnaryOps
    /\ stack # <<>> /\ IsPrimitive(FromTop(1).data)
    /\ LET dst == Result(1, FromTop(1).data)
       IN  Simulate(1, <<dst>>, <<Inst(Instr.op, Instr, <<FromTop(1)>>, <<dst>>)>>)
    /\ Next1 /\ Keeps /\ UNCHANGED <<inStack, params>>

\* add_bin_compare_op: the operands have the same type.
Compare ==
    /\ InBody /\ Instr.op \in CompareOps /\ TwoPrimitives
    /\ FromTop(1).data = FromTop(2).data
    /\ LET dst == Result(2, "I4")
       IN  Simulate(2, <<dst>>,
                    <<Inst(Instr.op, Instr, <<FromTop(2), FromTop(1)>>, <<dst>>)>>)
    /\ Next1 /\ Keeps /\ UNCHANGED <<inStack, params>>

\* The type on the stack of a value converted to an integer type.
StackType(type) == CASE type \in {"I8", "U8"} -> "I8"
                     [] type \in {"I", "U"}   -> "RefOrPtr"
                     [] OTHER                 -> "I4"

\* add_conv: nothing to do when the source has the target's stack type and
\* the conversion can neither truncate nor overflow.
Redundant(src, i) ==
    /\ src.data = StackType(i.type)
    /\ \/ i.kind = "Conv" /\ i.type \in {"I4", "U4", "I8", "U8", "I", "U"}
       \/ i.kind = "ConvOvf" /\ i.type \in {"I4", "I8", "I"}

Convert ==
    /\ InBody /\ Instr.op = "Conv"
    /\ stack # <<>> /\ IsPrimitive(FromTop(1).data)
    /\ LET src == FromTop(1)
           dst == Result(1, StackType(Instr.type))
       IN  IF Redundant(src, Instr)
               THEN Simulate(1, <<src>>, <<>>)
               ELSE Simulate(1, <<dst>>, <<Inst("Conv", Instr, <<src>>, <<dst>>)>>)
    /\ Next1 /\ Keeps /\ UNCHANGED <<inStack, params>>

-----------------------------------------------------------------------------
(***************************************************************************)
(* Memory: variables by address, fields, elements.  A field is the type    *)
(* and the place of its value in the object, the static area or the value. *)
(***************************************************************************)
AddressOps == {"LdArga", "LdLoca", "Ldsflda", "Ldflda", "Ldelema"}
LoadOps    == {"LdInd", "LdObj", "Ldfld", "Ldsfld", "LdLen", "Ldelem", "LdelemAny"}

IsReference(var) == var.data = "RefOrPtr"
IsIndex(var)     == var.data \in {"I4", "RefOrPtr"}

\* k operands, named in the order they were pushed.
Names(k) == [j \in 1..k |-> FromTop(k + 1 - j)]

Emit(k, pushed) ==
    /\ Simulate(k, pushed, <<Inst(Instr.op, Instr, Names(k), pushed)>>)
    /\ Next1 /\ Keeps /\ UNCHANGED <<inStack, params>>

\* add_ldarga, add_ldloca
AddressOf ==
    /\ InBody /\ Instr.op \in {"LdArga", "LdLoca"}
    /\ LET list == IF Instr.op = "LdArga" THEN argVars ELSE localVars
           dst == Result(0, "RefOrPtr")
       IN  /\ Instr.n \in DOMAIN list
           /\ Simulate(0, <<dst>>, <<Inst(Instr.op, Instr, <<list[Instr.n]>>, <<dst>>)>>)
    /\ Next1 /\ Keeps /\ UNCHANGED <<inStack, params>>

\* add_ldind widens what it loads; add_stind.
Indirect ==
    /\ InBody
    /\ \/ Instr.op = "LdInd" /\ stack # <<>> /\ Emit(1, <<Result(1, DataTypeOf(Instr.type))>>)
       \/ Instr.op = "StInd" /\ Len(stack) >= 2 /\ Emit(2, <<>>)

\* add_initobj, add_cpobj
ClearOrCopy ==
    /\ InBody
    /\ \/ Instr.op = "InitObj" /\ stack # <<>> /\ IsReference(FromTop(1)) /\ Emit(1, <<>>)
       \/ /\ Instr.op = "CpObj" /\ Len(stack) >= 2
          /\ IsReference(FromTop(1)) /\ IsReference(FromTop(2))
          /\ Emit(2, <<>>)

\* add_ldobj keeps the type of what it loads; add_stobj.
ObjectAt ==
    /\ InBody
    /\ \/ /\ Instr.op = "LdObj" /\ stack # <<>> /\ IsReference(FromTop(1))
          /\ Emit(1, <<Var(Instr.type, TopBelow(1))>>)
       \/ /\ Instr.op = "StObj" /\ Len(stack) >= 2 /\ IsReference(FromTop(2))
          /\ Emit(2, <<>>)

\* add_ldfld, from an object or from a value, add_ldflda, add_stfld
Field ==
    /\ InBody
    /\ \/ /\ Instr.op = "Ldfld" /\ stack # <<>> /\ FromTop(1).data \in {"RefOrPtr", "Other"}
          /\ Emit(1, <<Var(Instr.type, TopBelow(1))>>)
       \/ /\ Instr.op = "Ldflda" /\ stack # <<>> /\ IsReference(FromTop(1))
          /\ Emit(1, <<Result(1, "RefOrPtr")>>)
       \/ /\ Instr.op = "Stfld" /\ Len(stack) >= 2 /\ IsReference(FromTop(2))
          /\ Emit(2, <<>>)

\* add_ldsfld, add_ldsflda, add_stsfld
StaticField ==
    /\ InBody
    /\ \/ Instr.op = "Ldsfld" /\ Emit(0, <<Var(Instr.type, top)>>)
       \/ Instr.op = "Ldsflda" /\ Emit(0, <<Result(0, "RefOrPtr")>>)
       \/ Instr.op = "Stsfld" /\ stack # <<>> /\ Emit(1, <<>>)

\* add_ldlen, add_ldelema, add_ldelem and add_ldelem_any, which widen small
\* elements.
Element ==
    /\ InBody
    /\ \/ Instr.op = "LdLen" /\ stack # <<>> /\ Emit(1, <<Result(1, "I4")>>)
       \/ /\ Instr.op \in {"Ldelema", "Ldelem", "LdelemAny"} /\ Len(stack) >= 2
          /\ IsIndex(FromTop(1)) /\ IsReference(FromTop(2))
          /\ Emit(2, <<IF Instr.op = "Ldelema" THEN Result(2, "RefOrPtr")
                       ELSE IF Instr.type = "Other" THEN Var("Other", TopBelow(2))
                       ELSE Result(2, DataTypeOf(Instr.type))>>)

\* add_stelem, add_stelem_any
StoreElement ==
    /\ InBody /\ Instr.op \in {"Stelem", "StelemAny"} /\ Len(stack) >= 3
    /\ FromTop(1).data = DataTypeOf(Instr.type)
    /\ IsIndex(FromTop(2)) /\ IsReference(FromTop(3))
    /\ Emit(3, <<>>)

-----------------------------------------------------------------------------
(***************************************************************************)
(* Control flow.  The stack left after k pops is handed to the blocks a    *)
(* branch may reach; a block that has one already must agree with it.      *)
(***************************************************************************)
(* Mutant: the small types of the variables must agree as well. *)
AgreesInReduceType(b, vars, t) ==
    inStack[b].inited => inStack[b].top = t /\ inStack[b].vars = vars

Agrees(b, vars, t) ==
    inStack[b].inited =>
        /\ inStack[b].top = t
        /\ Len(inStack[b].vars) = Len(vars)
        /\ \A j \in DOMAIN vars : /\ inStack[b].vars[j].data = vars[j].data
                                  /\ inStack[b].vars[j].offset = vars[j].offset

\* setup_target_branch_eval_stack for every block of bs.
HandOver(bs, vars, t) ==
    /\ bs \subseteq Blocks
    /\ \A b \in bs : Agrees(b, vars, t)
    /\ inStack' = [b \in Blocks |->
                      IF b \in bs /\ ~inStack[b].inited
                          THEN [inited |-> TRUE, vars |-> vars, top |-> t]
                          ELSE inStack[b]]

Following == IF LaterBlocks(bb) = {} THEN {} ELSE {NextBlock(bb)}

\* add_br; a branch to the next instruction emits nothing.
Branch ==
    /\ InBody /\ Instr.op = "Br"
    /\ IF Instr.to = il + 1
           THEN Simulate(0, <<>>, <<>>) /\ UNCHANGED inStack
           ELSE /\ Simulate(0, <<>>, <<Inst("Br", Instr, <<>>, <<>>)>>)
                /\ HandOver({Instr.to}, stack, top)
    /\ Next1 /\ Keeps /\ UNCHANGED params

\* add_brtrue_or_false, add_condition_branch
Operands(op) == IF op \in {"BrTrue", "BrFalse"} THEN 1 ELSE 2

CondBranch ==
    /\ InBody /\ Instr.op \in CondBranches
    /\ LET k == Operands(Instr.op)
       IN  /\ Len(stack) >= k
           /\ IF Instr.to = il + 1
                  THEN Simulate(k, <<>>, <<>>) /\ UNCHANGED inStack
                  ELSE /\ FromTop(1).data = FromTop(k).data
                       /\ IsPrimitive(FromTop(1).data)
                       /\ Simulate(k, <<>>,
                              <<Inst(Instr.op, Instr,
                                     [j \in 1..k |-> FromTop(k + 1 - j)], <<>>)>>)
                       /\ HandOver({Instr.to} \cup Following, Below(k), TopBelow(k))
    /\ Next1 /\ Keeps /\ UNCHANGED params

\* add_switch
Switch ==
    /\ InBody /\ Instr.op = "Switch"
    /\ stack # <<>> /\ FromTop(1).data = "I4"
    /\ LET targets == {Instr.cases[j] : j \in DOMAIN Instr.cases}
       IN  IF targets \subseteq {il + 1}
               THEN Simulate(1, <<>>, <<>>) /\ UNCHANGED inStack
               ELSE /\ Simulate(1, <<>>, <<Inst("Switch", Instr, <<FromTop(1)>>, <<>>)>>)
                    /\ HandOver(targets \cup Following, Below(1), TopBelow(1))
    /\ Next1 /\ Keeps /\ UNCHANGED params

\* add_call_common and add_newobj pop the parameters, the last one first.
Calls == {"Call", "CallVirt", "NewObj"}

PopParam ==
    /\ InBody /\ Instr.op \in Calls
    /\ Len(params) < Len(Instr.params) /\ stack # <<>>
    /\ params' = <<FromTop(1)>> \o params
    /\ Simulate(1, <<>>, <<>>)
    /\ Keeps /\ UNCHANGED <<il, inStack>>

Popped == InBody /\ Instr.op \in Calls /\ Len(params) = Len(Instr.params)

\* The slots the popped parameters were in.
ParamSlots == IF params = <<>> THEN 0
              ELSE params[Len(params)].offset + params[Len(params)].size - top

\* The call finds its frame at the slot of the first parameter.
CallInst(op, dst) ==
    Inst(op, [op |-> op, params |-> Instr.params, ret |-> Instr.ret,
              throws |-> Instr.throws, frame |-> top, total |-> ParamSlots], params, dst)

\* add_ldind_ref_inplace: a constrained call gets the object its this
\* parameter points to.
Dereference ==
    IF Instr.op = "CallVirt" /\ Instr.constrained
        THEN <<Inst("LdInd", [op |-> "LdInd", type |-> "Ref"], <<params[1]>>,
                    <<Primitive("RefOrPtr", params[1].offset)>>)>>
        ELSE <<>>

\* add_call_common: the result is left in the first slot of that frame.
Call ==
    /\ Popped /\ Instr.op \in {"Call", "CallVirt"}
    /\ LET dst == IF Instr.ret = "Void" THEN <<>> ELSE <<Var(Instr.ret, top)>>
       IN  Simulate(0, dst, Dereference \o <<CallInst(Instr.op, dst)>>)
    /\ params' = <<>>
    /\ Next1 /\ Keeps /\ UNCHANGED inStack

\* add_newobj: the object, or the place of the value and a pointer to it,
\* will be put below the parameters; the value counts its bytes as slots.
NewObj ==
    /\ Popped /\ Instr.op = "NewObj"
    /\ LET dst == Var(Instr.ret, top)
           room == IF Instr.ret = "Ref" THEN 1 ELSE ByteSize(Instr.ret)
       IN  /\ stack' = Append(stack, dst)
           /\ top' = top + dst.size
           /\ maxStack' = LargerOf(LargerOf(maxStack, top + ParamSlots + room),
                                   top + dst.size)
           /\ hl' = Append(hl, CallInst("NewObj", <<dst>>))
    /\ params' = <<>>
    /\ Next1 /\ Keeps /\ UNCHANGED inStack

\* add_ret
Return ==
    /\ InBody /\ Instr.op = "Ret"
    /\ IF method.ret = "Void"
           THEN Simulate(0, <<>>, <<Inst("Ret", Instr, <<>>, <<>>)>>)
           ELSE /\ stack # <<>>
                /\ Simulate(1, <<>>, <<Inst("Ret", Instr, <<FromTop(1)>>, <<>>)>>)
    /\ Next1 /\ Keeps /\ UNCHANGED <<inStack, params>>

\* clear_eval_stack, then the instruction: add_throw and add_leave.
Cleared(insts) ==
    /\ stack' = <<>> /\ top' = base
    /\ hl' = hl \o insts
    /\ UNCHANGED maxStack

Throw ==
    /\ InBody /\ Instr.op = "Throw" /\ stack # <<>>
    /\ Cleared(<<Inst("Throw", Instr, <<FromTop(1)>>, <<>>)>>)
    /\ Next1 /\ Keeps /\ UNCHANGED <<inStack, params>>

Leave ==
    /\ InBody /\ Instr.op = "Leave"
    /\ Cleared(<<Inst("Leave", Instr, <<>>, <<>>)>>)
    /\ HandOver({Instr.to}, <<>>, base)
    /\ Next1 /\ Keeps /\ UNCHANGED params

(* A method comes from metadata that the loader has resolved: its types are *)
(* known, and what a constrained call dereferences is its this parameter.   *)
ASSUME MethodAssumption ==
    \A m \in Methods :
        /\ m.args \in Seq(ReduceTypes) /\ m.locals \in Seq(ReduceTypes)
        /\ Len(m.body) \in Nat /\ DOMAIN m.body = 1..Len(m.body)
        /\ \A k \in DOMAIN m.body :
              LET i == m.body[k]
              IN  /\ i.op \in {"LdObj", "Ldfld", "Ldsfld"} => i.type \in ReduceTypes
                  /\ i.op \in Calls => /\ i.params \in Seq(ReduceTypes)
                                       /\ i.ret \in ReduceTypes \cup {"Void"}
                  /\ i.op = "NewObj" => i.ret # "Void"
                  /\ i.op = "Conv" => i.kind \in {"Conv", "ConvOvf", "ConvOvfUn"}
                  /\ i.op = "Stsfld" => i.at \in Nat
                  /\ i.op = "CallVirt" /\ i.constrained => i.params # <<>>

-----------------------------------------------------------------------------
\* transform_body goes on to the next block with the stack that block was
\* handed, whatever is on the stack of the block it leaves.
EnterBlock ==
    /\ phase = "body" /\ il = BlockEnd(bb) /\ LaterBlocks(bb) # {}
    /\ LET next == NextBlock(bb)
       IN  /\ bb' = next
           /\ stack' = inStack[next].vars
           /\ top' = inStack[next].top
           /\ inStack' = [inStack EXCEPT ![next].inited = TRUE]
    /\ UNCHANGED <<phase, method, argVars, localVars, base, il, maxStack, params, hl>>

Finish ==
    /\ phase = "body" /\ il = BlockEnd(bb) /\ LaterBlocks(bb) = {}
    /\ phase' = "transformed"
    /\ UNCHANGED <<method, argVars, localVars, base, bodyVars>>

Instruction ==
    \/ LoadOrStore \/ BinArith \/ BinBit \/ Shift \/ Unary \/ Compare \/ Convert
    \/ AddressOf \/ Indirect \/ ClearOrCopy \/ ObjectAt \/ Field \/ StaticField
    \/ Element \/ StoreElement \/ Branch \/ CondBranch \/ Switch \/ PopParam
    \/ Call \/ NewObj \/ Return \/ Throw \/ Leave

\* RET_ASSERT_ERR: the method cannot be compiled.
Reject ==
    /\ InBody /\ ~ENABLED Instruction
    /\ phase' = "rejected"
    /\ UNCHANGED <<method, argVars, localVars, base, bodyVars>>

Transform ==
    SetupArg \/ SetupLocal \/ SetupBlocks \/ Instruction \/ EnterBlock \/ Finish \/ Reject
=============================================================================
