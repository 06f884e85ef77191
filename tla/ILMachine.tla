------------------------------ MODULE ILMachine ------------------------------
(***************************************************************************)
(* What the IL of a method means, by the CLI standard (ECMA-335, partition *)
(* III): a stack of typed values, arguments and locals that narrow what is *)
(* stored in them, and exceptions that clear the stack.  It knows nothing  *)
(* of slots, blocks and opcodes; the compiled code is compared with it.    *)
(***************************************************************************)
EXTENDS IRMachine

VARIABLES ilPc,        \* the IL offset of the next instruction
          ilStack,     \* the evaluation stack: a sequence of typed values
          ilArgs,      \* the values of the arguments
          ilLocals,    \* the values of the locals
          ilMem,       \* the cells of the object
          ilOutcome    \* how the method ended

ilvars == <<ilPc, ilStack, ilArgs, ilLocals, ilMem, ilOutcome>>

ILInstr == Body[ilPc]

\* A stack value: integers are kept as mathematical integers.
Value(data, v)    == [data |-> data, v |-> v]
Num(data, n)      == Value(data, <<n>>)

\* A value stored in a variable of the given type, and loaded again.
Narrow(reduce, v) ==
    IF reduce = "Other" THEN v ELSE <<Cast(reduce, v[1])>>

Width(data) == ByteSize(PrimitiveReduce(data))

\* The k-th operand from the top.
Op(k)   == ilStack[Len(ilStack) + 1 - k]
Rest(k) == SubSeq(ilStack, 1, Len(ilStack) - k)

\* How many operands an instruction takes from the stack.
Taken(i) ==
    CASE i.op \in ArithOps \cup BitOps \cup ShiftOps \cup CompareOps -> 2
      [] i.op \in {"Stelem", "StelemAny"} -> 3
      [] i.op \in {"Ldelem", "LdelemAny", "Ldelema", "StInd", "StObj", "CpObj", "Stfld"} -> 2
      [] i.op \in CondBranches -> Operands(i.op)
      [] i.op \in UnaryOps \cup {"Conv", "Dup", "Pop", "StArg", "StLoc", "Switch", "Throw"} -> 1
      [] i.op \in {"LdInd", "LdObj", "Ldfld", "LdLen", "Ldflda", "InitObj", "Stsfld"} -> 1
      [] i.op \in Calls -> Len(i.params)
      [] i.op = "Ret" -> IF method.ret = "Void" THEN 0 ELSE 1
      [] OTHER -> 0

Advance(newStack) ==
    /\ ilStack' = newStack /\ ilPc' = ilPc + 1
    /\ UNCHANGED <<ilArgs, ilLocals, ilMem, ilOutcome>>

Jump(b, newStack) ==
    /\ ilStack' = newStack /\ ilPc' = b
    /\ UNCHANGED <<ilArgs, ilLocals, ilMem, ilOutcome>>

\* The innermost handler: an enclosing clause is listed after the inner one.
ILRaise(ex) ==
    LET covering == {c \in DOMAIN method.clauses :
                        ilPc \in method.clauses[c].try..(method.clauses[c].tryEnd - 1)}
    IN  IF covering = {}
            THEN /\ ilOutcome' = [kind |-> "threw", value |-> <<ex>>]
                 /\ UNCHANGED <<ilPc, ilStack, ilArgs, ilLocals, ilMem>>
            ELSE Jump(method.clauses[CHOOSE c \in covering :
                                        \A d \in covering : c <= d].handler,
                      <<Num("RefOrPtr", ex)>>)

\* A binary operation is done in the wider of the operand types.
Signed(data, n)   == ReadS(Width(data), n)
Magnitude(data, n) == ReadU(Width(data), n)

ILArith ==
    LET data == BinResult(Op(2).data, Op(1).data)
        a == Op(2).v[1]
        b == Op(1).v[1]
        un == ILInstr.op \in {"AddOvfUn", "SubOvfUn", "MulOvfUn", "DivUn", "RemUn"}
        x == IF un THEN Magnitude(data, a) ELSE a
        y == IF un THEN Magnitude(data, b) ELSE b
        Representable(n) == n = IF un THEN Magnitude(data, n) ELSE Signed(data, n)
        exact == CASE ILInstr.op \in {"Add", "AddOvf", "AddOvfUn"} -> x + y
                   [] ILInstr.op \in {"Sub", "SubOvf", "SubOvfUn"} -> x - y
                   [] ILInstr.op \in {"Mul", "MulOvf", "MulOvfUn"} -> x * y
                   [] ILInstr.op \in {"Div", "DivUn"} -> Quotient(x, y)
                   [] ILInstr.op \in {"Rem", "RemUn"} -> Remainder(x, y)
    IN  IF ILInstr.op \in {"Div", "DivUn", "Rem", "RemUn"}
            THEN IF y = 0 THEN ILRaise(DivideByZero)
                 ELSE IF ~Representable(Quotient(x, y)) THEN ILRaise(Arithmetic)
                 ELSE Advance(Append(Rest(2), Num(data, Signed(data, exact))))
        ELSE IF ILInstr.op \notin {"Add", "Sub", "Mul"} /\ ~Representable(exact)
            THEN ILRaise(Overflow)
        ELSE Advance(Append(Rest(2), Num(data, Signed(data, exact))))

ILBits ==
    LET data == BinResult(Op(2).data, Op(1).data)
    IN  Advance(Append(Rest(2), Num(data, Signed(data,
            BitOp(ILInstr.op, Width(data) * ByteBits,
                  Magnitude(data, Op(2).v[1]), Magnitude(data, Op(1).v[1]))))))

ILShift ==
    LET data == Op(2).data
        x == IF ILInstr.op = "ShrUn" THEN Magnitude(data, Op(2).v[1]) ELSE Op(2).v[1]
        factor == 2 ^ Op(1).v[1]
    IN  Advance(Append(Rest(2), Num(data, Signed(data,
            IF ILInstr.op = "Shl" THEN x * factor ELSE x \div factor))))

ILUnary ==
    LET data == Op(1).data
        x == Op(1).v[1]
    IN  Advance(Append(Rest(1),
            Num(data, Signed(data, IF ILInstr.op = "Neg" THEN -x ELSE -1 - x))))

\* conv.u8 and conv.u take an int32 as unsigned; the checked forms overflow
\* when the value, signed or taken as unsigned, is not one of the target.
ILConv ==
    LET i == ILInstr
        a == Op(1).v[1]
        x == IF i.kind = "ConvOvfUn" \/ (i.kind = "Conv" /\ i.type \in {"U8", "U"})
                 THEN Magnitude(Op(1).data, a) ELSE a
        target == StackType(i.type)
    IN  IF i.kind # "Conv" /\ Cast(i.type, x) # x
            THEN ILRaise(Overflow)
            ELSE Advance(Append(Rest(1),
                            Num(target, Signed(target, Cast(i.type, x)))))

ILHolds(op) ==
    LET data == Op(2).data
        x == Op(2).v[1]
        y == Op(1).v[1]
        ux == Magnitude(data, x)
        uy == Magnitude(data, y)
    IN  CASE op \in {"Ceq", "Beq"} -> x = y
          [] op = "BneUn" -> x # y
          [] op \in {"Cgt", "Bgt"} -> x > y
          [] op \in {"Clt", "Blt"} -> x < y
          [] op = "Bge" -> x >= y
          [] op = "Ble" -> x <= y
          [] op \in {"CgtUn", "BgtUn"} -> ux > uy
          [] op \in {"CltUn", "BltUn"} -> ux < uy
          [] op = "BgeUn" -> ux >= uy
          [] op = "BleUn" -> ux <= uy

ILTaken ==
    CASE ILInstr.op = "BrTrue"  -> Op(1).v[1] # 0
      [] ILInstr.op = "BrFalse" -> Op(1).v[1] = 0
      [] OTHER -> ILHolds(ILInstr.op)

ILSwitch ==
    LET index == Magnitude("I4", Op(1).v[1]) + 1
    IN  Jump(IF index \in DOMAIN ILInstr.cases THEN ILInstr.cases[index] ELSE ilPc + 1,
             Rest(1))

-----------------------------------------------------------------------------
(***************************************************************************)
(* Memory.  An address means the same in the IL as in the code.            *)
(***************************************************************************)
Holder(vars, a) ==
    {k \in DOMAIN vars : a - 1 \in vars[k].offset..(vars[k].offset + vars[k].size - 1)}

ILCell(a) ==
    LET vars == argVars \o localVars
    IN  IF a > Slots THEN ilMem[a - Object]
        ELSE LET k == CHOOSE k \in Holder(vars, a) : TRUE
             IN  (ilArgs \o ilLocals)[k][a - vars[k].offset]

ReadAs(type, a) ==
    IF type = "Other"
        THEN [j \in 1..StackObjects(type) |-> ReadU(StructBytes(j), ILCell(a + j - 1))]
        ELSE <<Cast(type, ILCell(a))>>

Loaded(type, a) == Value(DataTypeOf(type), ReadAs(type, a))

\* The values after the cells have been put into the variable at a.
Stored(values, vars, type, a, cells) ==
    [k \in DOMAIN values |->
        IF k \in Holder(vars, a)
            THEN Narrow(vars[k].reduce, PutCells(values[k], a - vars[k].offset, type, cells))
            ELSE values[k]]

Store(type, a, cells, newStack) ==
    /\ ilArgs' = Stored(ilArgs, argVars, type, a, cells)
    /\ ilLocals' = Stored(ilLocals, localVars, type, a, cells)
    /\ ilMem' = IF a > Slots THEN PutCells(ilMem, a - Object, type, cells) ELSE ilMem
    /\ ilStack' = newStack /\ ilPc' = ilPc + 1
    /\ UNCHANGED ilOutcome

ILAddress ==
    Advance(Append(ilStack, Num("RefOrPtr",
        CASE ILInstr.op = "LdArga" -> SlotAddress(argVars[ILInstr.n].offset)
          [] ILInstr.op = "LdLoca" -> SlotAddress(localVars[ILInstr.n].offset)
          [] ILInstr.op = "Ldsflda" -> Object + ILInstr.at)))

ILIndirect ==
    LET i == ILInstr
        zero == [j \in 1..StackObjects(i.type) |-> 0]
    IN  \/ i.op \in {"LdInd", "LdObj"} /\ Advance(Append(Rest(1), Loaded(i.type, Op(1).v[1])))
        \/ i.op = "Ldsfld" /\ Advance(Append(ilStack, Loaded(i.type, Object + i.at)))
        \/ i.op \in {"StInd", "StObj"} /\ Store(i.type, Op(2).v[1], Op(1).v, Rest(2))
        \/ i.op = "InitObj" /\ Store(i.type, Op(1).v[1], zero, Rest(1))
        \/ i.op = "CpObj"
           /\ Store(i.type, Op(2).v[1], ReadAs(i.type, Op(1).v[1]), Rest(2))
        \/ i.op = "Stsfld" /\ Store(i.type, Object + i.at, Op(1).v, Rest(1))

\* The field of an object, behind a pointer, or of a value on the stack.
ILField ==
    LET i == ILInstr
        obj == Op(Taken(i))
        a == obj.v[1] + i.at
    IN  IF obj.data = "Other"
            THEN Advance(Append(Rest(1),
                    Value(DataTypeOf(i.type), <<Cast(i.type, obj.v[i.at + 1])>>)))
        ELSE IF obj.v[1] = 0 THEN ILRaise(NullReference)
        ELSE \/ i.op = "Ldfld" /\ Advance(Append(Rest(1), Loaded(i.type, a)))
             \/ i.op = "Ldflda" /\ Advance(Append(Rest(1), Num("RefOrPtr", a)))
             \/ i.op = "Stfld" /\ Store(i.type, a, Op(1).v, Rest(2))

ILElement ==
    LET i == ILInstr
        k == Taken(i)
        array == Op(k).v[1]
        index == Op(k - 1).v[1]
        a == array + 1 + index * StackObjects(i.type)
    IN  IF array = 0 THEN ILRaise(NullReference)
        ELSE IF i.op = "LdLen" THEN Advance(Append(Rest(1), Num("I4", Elements)))
        ELSE IF index \notin 0..(Elements - 1) THEN ILRaise(IndexOutOfRange)
        ELSE \/ i.op \in {"Ldelem", "LdelemAny"} /\ Advance(Append(Rest(2), Loaded(i.type, a)))
             \/ i.op = "Ldelema" /\ Advance(Append(Rest(2), Num("RefOrPtr", a)))
             \/ i.op \in {"Stelem", "StelemAny"} /\ Store(i.type, a, Op(1).v, Rest(3))

\* The parameters are narrowed to the types of the callee, the result is a
\* value of its return type.  A constrained call takes its object from the
\* place its first parameter points to.
ILParams ==
    LET n == Len(ILInstr.params)
    IN  [k \in 1..n |-> Narrow(ILInstr.params[k],
            IF k = 1 /\ ILInstr.op = "CallVirt" /\ ILInstr.constrained
                THEN ReadAs("Ref", Op(n).v[1]) ELSE Op(n + 1 - k).v)]

ILCall ==
    LET i == ILInstr
        below == Rest(Taken(i))
    IN  IF i.op = "CallVirt" /\ ILParams[1] = <<0>> THEN ILRaise(NullReference)
        ELSE IF i.throws THEN ILRaise(CalleeFault)
        ELSE Advance(IF i.ret = "Void" THEN below
                     ELSE Append(below, Value(DataTypeOf(i.ret),
                                              CalleeResult(i.ret, ILParams))))

\* A new object or value has only what its constructor has put there.
ILNewObj ==
    LET made == CalleeResult("I8", ILParams)[1] % Range2(8)
        below == Rest(Taken(ILInstr))
    IN  IF ILInstr.ret = "Ref"
            THEN /\ ilMem' = [c \in DOMAIN ilMem |-> CASE c = 0 -> ilMem[0]
                                                      [] c = 1 -> made
                                                      [] OTHER -> 0]
                 /\ ilStack' = Append(below, Num("RefOrPtr", Object))
                 /\ ilPc' = ilPc + 1
                 /\ UNCHANGED <<ilArgs, ilLocals, ilOutcome>>
            ELSE Advance(Append(below, Value("Other",
                    [j \in 1..StackObjects("Other") |-> IF j = 1 THEN made ELSE 0])))

ILReturn ==
    /\ ilOutcome' = [kind |-> "returned",
                     value |-> IF method.ret = "Void" THEN <<>>
                               ELSE Narrow(method.ret, Op(1).v)]
    /\ UNCHANGED <<ilPc, ilStack, ilArgs, ilLocals, ilMem>>

ILStep ==
    LET i == ILInstr
    IN  \/ i.op \in {"Nop"} /\ Advance(ilStack)
        \/ i.op = "Pop" /\ Advance(Rest(1))
        \/ i.op = "Dup" /\ Advance(Append(ilStack, Op(1)))
        \/ i.op = "LdArg" /\ Advance(Append(ilStack,
                                 Value(DataTypeOf(method.args[i.n]), ilArgs[i.n])))
        \/ i.op = "LdLoc" /\ Advance(Append(ilStack,
                                 Value(DataTypeOf(method.locals[i.n]), ilLocals[i.n])))
        \/ i.op = "LdcI4" /\ Advance(Append(ilStack, Num("I4", i.n)))
        \/ i.op = "LdcI8" /\ Advance(Append(ilStack, Num("I8", i.n)))
        \/ i.op = "LdNull" /\ Advance(Append(ilStack, Num("RefOrPtr", 0)))
        \/ /\ i.op = "StArg"
           /\ ilArgs' = [ilArgs EXCEPT ![i.n] = Narrow(method.args[i.n], Op(1).v)]
           /\ ilStack' = Rest(1) /\ ilPc' = ilPc + 1
           /\ UNCHANGED <<ilLocals, ilMem, ilOutcome>>
        \/ /\ i.op = "StLoc"
           /\ ilLocals' = [ilLocals EXCEPT ![i.n] = Narrow(method.locals[i.n], Op(1).v)]
           /\ ilStack' = Rest(1) /\ ilPc' = ilPc + 1
           /\ UNCHANGED <<ilArgs, ilMem, ilOutcome>>
        \/ i.op \in {"LdArga", "LdLoca", "Ldsflda"} /\ ILAddress
        \/ i.op \in {"LdInd", "LdObj", "Ldsfld", "StInd", "StObj", "InitObj", "CpObj", "Stsfld"}
           /\ ILIndirect
        \/ i.op \in {"Ldfld", "Ldflda", "Stfld"} /\ ILField
        \/ i.op \in {"LdLen", "Ldelem", "LdelemAny", "Ldelema", "Stelem", "StelemAny"}
           /\ ILElement
        \/ i.op \in ArithOps /\ ILArith
        \/ i.op \in BitOps /\ ILBits
        \/ i.op \in ShiftOps /\ ILShift
        \/ i.op \in UnaryOps /\ ILUnary
        \/ i.op = "Conv" /\ ILConv
        \/ i.op \in CompareOps /\ Advance(Append(Rest(2),
                                      Num("I4", IF ILHolds(i.op) THEN 1 ELSE 0)))
        \/ i.op = "Br" /\ Jump(i.to, ilStack)
        \/ i.op \in CondBranches
           /\ Jump(IF ILTaken THEN i.to ELSE ilPc + 1, Rest(Operands(i.op)))
        \/ i.op = "Switch" /\ ILSwitch
        \/ i.op \in {"Call", "CallVirt"} /\ ILCall
        \/ i.op = "NewObj" /\ ILNewObj
        \/ i.op = "Ret" /\ ILReturn
        \/ i.op = "Throw" /\ ILRaise(IF Op(1).v[1] = 0 THEN NullReference ELSE Op(1).v[1])
        \/ i.op = "Leave" /\ Jump(i.to, <<>>)
-----------------------------------------------------------------------------
(***************************************************************************)
(* The rules a body keeps to (ECMA-335, III.1.7): along every path the     *)
(* stack holds the operands an instruction needs, and whatever the path,   *)
(* an instruction is reached with the same types on the stack.             *)
(***************************************************************************)
\* The types an instruction leaves in the place of its operands.
Left(i, operands) ==
    CASE i.op = "LdArg" -> <<DataTypeOf(method.args[i.n])>>
      [] i.op = "LdLoc" -> <<DataTypeOf(method.locals[i.n])>>
      [] i.op = "LdcI4" -> <<"I4">>
      [] i.op = "LdcI8" -> <<"I8">>
      [] i.op = "LdNull" -> <<"RefOrPtr">>
      [] i.op = "Dup" -> operands \o operands
      [] i.op \in ArithOps \cup BitOps -> <<BinResult(operands[1], operands[2])>>
      [] i.op \in ShiftOps \cup UnaryOps -> <<operands[1]>>
      [] i.op \in CompareOps -> <<"I4">>
      [] i.op = "Conv" -> <<StackType(i.type)>>
      [] i.op \in AddressOps -> <<"RefOrPtr">>
      [] i.op \in LoadOps -> <<IF i.op = "LdLen" THEN "I4" ELSE DataTypeOf(i.type)>>
      [] i.op \in Calls /\ i.ret # "Void" -> <<DataTypeOf(i.ret)>>
      [] OTHER -> <<>>

Targets(pc) ==
    LET i == Body[pc]
    IN  CASE i.op \in {"Ret", "Throw"} -> {}
          [] i.op \in {"Br", "Leave"}  -> {i.to}
          [] i.op \in CondBranches     -> {i.to, pc + 1}
          [] i.op = "Switch"           -> {i.cases[j] : j \in DOMAIN i.cases} \cup {pc + 1}
          [] OTHER                     -> {pc + 1}

\* A place is an IL offset and the types on the stack there.
Sound(place) ==
    /\ place[1] \in DOMAIN Body
    /\ Taken(Body[place[1]]) <= Len(place[2])

After(place) ==
    LET i == Body[place[1]]
        types == place[2]
        kept == SubSeq(types, 1, Len(types) - Taken(i))
        operands == SubSeq(types, Len(kept) + 1, Len(types))
    IN  {<<pc, IF i.op = "Leave" THEN <<>> ELSE kept \o Left(i, operands)>> :
            pc \in Targets(place[1])}

Places ==
    LET entries == {<<1, <<>>>>} \cup {<<c.handler, <<"RefOrPtr">>>> : c \in Clauses}
        Reached[k \in 0..CodeEnd] ==
            IF k = 0 THEN entries
            ELSE LET before == Reached[k - 1]
                 IN  before \cup UNION {After(p) : p \in {q \in before : Sound(q)}}
    IN  Reached[CodeEnd]

WellTyped ==
    /\ \A p \in Places : Sound(p)
    /\ \A p, q \in Places : p[1] = q[1] => p[2] = q[2]
    /\ \A c \in 2..Len(method.clauses) :
           WellNested(method.clauses[c - 1], method.clauses[c])
=============================================================================
