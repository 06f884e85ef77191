------------------------------ MODULE IRMachine ------------------------------
(***************************************************************************)
(* The execution of compiled code by the interpreter's main loop: every    *)
(* opcode reads and writes slots of the frame at the width in its name.    *)
(* The frame comes from memory that other frames have used, so a slot      *)
(* holds whatever was left there until it is written.                      *)
(*                                                                         *)
(* A callee is atomic: it reads its parameters from the slots at its frame *)
(* base, leaves anything in the slots from there on, and leaves its result *)
(* in the first of them.                                                   *)
(***************************************************************************)
EXTENDS Lowering

CONSTANTS Slots,       \* slots of evaluation stack from the frame's first on
          Cells,       \* 8-byte cells of the object, behind its header
          Elements     \* its length when it is an array

ASSUME SlotsAssumption == Slots \in Nat

VARIABLES code,        \* the instructions of the method
          clauses,     \* its exception clauses
          frameSize,   \* max_stack_object_size
          frame,       \* eval_stack_base[..]
          high,        \* one more than the highest slot written so far
          memory,      \* the cells of the object, 0 for its header
          ip,          \* the next instruction
          outcome      \* how the method ended

irvars == <<code, clauses, frameSize, frame, high, memory, ip, outcome>>

Running == [kind |-> "running", value |-> <<>>]

\* The exceptions the runtime raises by itself, as the objects that stand
\* for them.
DivideByZero  == 1
Arithmetic    == 2
Overflow      == 3
NullReference == 4
IndexOutOfRange == 6

\* The exception of a callee that throws.
CalleeFault   == 5

Cur    == code[ip]
Src(k) == frame[Cur.src[k]]

\* The value of an operand of the instruction's type.
Bytes  == ByteSize(Cur.type)
SignedOp(k)   == ReadS(Bytes, Src(k))
UnsignedOp(k) == ReadU(Bytes, Src(k))

LoadInto(slot, bytes, value) ==
    /\ frame' = [frame EXCEPT ![slot] = Overwrite(bytes, @, value)]
    /\ high' = LargerOf(high, slot + 1)

CopySlots(dst, src, n) ==
    /\ frame' = [s \in DOMAIN frame |->
                   IF s \in dst..(dst + n - 1) THEN frame[src + (s - dst)] ELSE frame[s]]
    /\ high' = LargerOf(high, dst + n)

Continue == ip' = ip + 1 /\ UNCHANGED outcome
GoTo(b)  == ip' = BlockStart(code, b) /\ UNCHANGED outcome

\* A value of the given type in the slots from slot on.
Decode(f, reduce, slot) ==
    IF reduce = "Other"
        THEN [k \in 1..StackObjects(reduce) |-> ReadU(StructBytes(k), f[slot + k - 1])]
        ELSE <<Cast(reduce, f[slot])>>

\* RAISE_RUNTIME_EXCEPTION: the first clause whose try range holds the
\* position catches; the exception goes to the first evaluation slot.
RaiseAt(position, ex) ==
    LET covering == {c \in DOMAIN clauses : /\ clauses[c].try <= position
                                            /\ position < clauses[c].tryEnd}
    IN  IF covering = {}
            THEN /\ outcome' = [kind |-> "threw", value |-> <<ex>>]
                 /\ UNCHANGED <<frame, high, ip>>
            ELSE /\ LoadInto(base, PtrSize, ex)
                 /\ ip' = clauses[CHOOSE c \in covering :
                                     \A d \in covering : c <= d].handler
                 /\ UNCHANGED outcome

Raise(ex) == RaiseAt(ip, ex)

-----------------------------------------------------------------------------
\* LdLocI1 .. LdLocAny: small values are widened to 32 bits.
ExecLoad ==
    /\ Cur.op = "LdLoc"
    /\ IF Cur.type = "Any"
           THEN CopySlots(Cur.dst[1], Cur.src[1], Cur.size)
           ELSE LoadInto(Cur.dst[1], IF Cur.type = "I8" THEN 8 ELSE 4,
                         Cast(Cur.type, Src(1)))
    /\ Continue

\* StLocI1 .. StLocAny
ExecStore ==
    /\ Cur.op = "StLoc"
    /\ IF Cur.type = "Any"
           THEN CopySlots(Cur.dst[1], Cur.src[1], Cur.size)
           ELSE LoadInto(Cur.dst[1], Bytes, Src(1))
    /\ Continue

ExecConst ==
    /\ \/ Cur.op = "LdcI4" /\ LoadInto(Cur.dst[1], 4, Cur.of.n)
       \/ Cur.op = "LdcI8" /\ LoadInto(Cur.dst[1], 8, Cur.of.n)
       \/ Cur.op = "LdNull" /\ LoadInto(Cur.dst[1], PtrSize, 0)
    /\ Continue

ExecInitLocals ==
    /\ Cur.op = "InitLocals"
    /\ LET end == Cur.of.from + Cur.of.size
       IN  /\ frame' = [s \in DOMAIN frame |->
                           IF s \in Cur.of.from..(end - 1) THEN 0 ELSE frame[s]]
           /\ high' = LargerOf(high, end)
    /\ Continue

-----------------------------------------------------------------------------
\* The exact result of an operator; a wrapping one keeps its low bytes.
Exact(op, x, y) ==
    CASE op \in {"Add", "AddOvf", "AddOvfUn"} -> x + y
      [] op \in {"Sub", "SubOvf", "SubOvfUn"} -> x - y
      [] op \in {"Mul", "MulOvf", "MulOvfUn"} -> x * y

ExecArith ==
    /\ Cur.op \in {"Add", "Sub", "Mul"}
    /\ LoadInto(Cur.dst[1], Bytes, Exact(Cur.op, SignedOp(1), SignedOp(2)))
    /\ Continue

\* The checked forms raise what does not fit.
ExecChecked ==
    /\ Cur.op \in {"AddOvf", "SubOvf", "MulOvf", "AddOvfUn", "SubOvfUn", "MulOvfUn"}
    /\ LET unsigned == Cur.op \in {"AddOvfUn", "SubOvfUn", "MulOvfUn"}
           exact == IF unsigned THEN Exact(Cur.op, UnsignedOp(1), UnsignedOp(2))
                                ELSE Exact(Cur.op, SignedOp(1), SignedOp(2))
           fits == IF unsigned THEN exact \in 0..(Range2(Bytes) - 1)
                               ELSE exact \in MinInt(Bytes)..MaxInt(Bytes)
       IN  IF fits THEN LoadInto(Cur.dst[1], Bytes, exact) /\ Continue
                   ELSE Raise(Overflow)

\* The division of the least value by -1 is refused.
ExecDivide ==
    /\ Cur.op \in {"Div", "DivUn", "Rem", "RemUn"}
    /\ LET unsigned == Cur.op \in {"DivUn", "RemUn"}
           x == IF unsigned THEN UnsignedOp(1) ELSE SignedOp(1)
           y == IF unsigned THEN UnsignedOp(2) ELSE SignedOp(2)
       IN  IF y = 0 THEN Raise(DivideByZero)
           ELSE IF ~unsigned /\ y = -1 /\ x = MinInt(Bytes) THEN Raise(Arithmetic)
           ELSE /\ LoadInto(Cur.dst[1], Bytes,
                            IF Cur.op \in {"Div", "DivUn"} THEN Quotient(x, y)
                                                           ELSE Remainder(x, y))
                /\ Continue

ExecBits ==
    /\ Cur.op \in BitOps
    /\ LoadInto(Cur.dst[1], Bytes,
                BitOp(Cur.op, Bytes * ByteBits, UnsignedOp(1), UnsignedOp(2)))
    /\ Continue

\* The amount is read as an int32 whatever its type.
ExecShift ==
    /\ Cur.op \in ShiftOps
    /\ LET amount == 2 ^ ReadS(4, Src(2))
       IN  LoadInto(Cur.dst[1], Bytes,
                    CASE Cur.op = "Shl"   -> SignedOp(1) * amount
                      [] Cur.op = "Shr"   -> SignedOp(1) \div amount
                      [] Cur.op = "ShrUn" -> UnsignedOp(1) \div amount)
    /\ Continue

ExecUnary ==
    /\ Cur.op \in UnaryOps
    /\ LoadInto(Cur.dst[1], Bytes, IF Cur.op = "Neg" THEN -SignedOp(1)
                                                     ELSE -SignedOp(1) - 1)
    /\ Continue

\* Conv<target><source>: a plain conversion truncates, and takes the source
\* as unsigned only to make it a uint64.
ExecConv ==
    /\ Cur.op = "Conv"
    /\ LET width == ByteSize(Cur.from)
           x == IF Cur.type = "U8" THEN ReadU(width, Src(1)) ELSE ReadS(width, Src(1))
       IN  LoadInto(Cur.dst[1], LargerOf(4, Bytes), Cast(Cur.type, x))
    /\ Continue

\* The checked ones compare the source, signed or unsigned, with the bounds
\* of the target first.
ExecConvOvf ==
    /\ Cur.op \in {"ConvOvf", "ConvOvfUn"}
    /\ LET width == ByteSize(Cur.from)
           x == IF Cur.op = "ConvOvfUn" THEN ReadU(width, Src(1)) ELSE ReadS(width, Src(1))
       IN  IF Cast(Cur.type, x) # x
               THEN Raise(Overflow)
               ELSE LoadInto(Cur.dst[1], LargerOf(4, Bytes), x) /\ Continue

-----------------------------------------------------------------------------
Holds(op) ==
    CASE op \in {"Ceq", "Beq"}     -> SignedOp(1) = SignedOp(2)
      [] op \in {"Cgt", "Bgt"}     -> SignedOp(1) > SignedOp(2)
      [] op \in {"Clt", "Blt"}     -> SignedOp(1) < SignedOp(2)
      [] op = "Bge"                -> SignedOp(1) >= SignedOp(2)
      [] op = "Ble"                -> SignedOp(1) <= SignedOp(2)
      [] op = "BneUn"              -> UnsignedOp(1) # UnsignedOp(2)
      [] op \in {"CgtUn", "BgtUn"} -> UnsignedOp(1) > UnsignedOp(2)
      [] op \in {"CltUn", "BltUn"} -> UnsignedOp(1) < UnsignedOp(2)
      [] op = "BgeUn"              -> UnsignedOp(1) >= UnsignedOp(2)
      [] op = "BleUn"              -> UnsignedOp(1) <= UnsignedOp(2)
      [] op = "BrTrue"             -> SignedOp(1) # 0
      [] op = "BrFalse"            -> SignedOp(1) = 0

ExecCompare ==
    /\ Cur.op \in CompareOps
    /\ LoadInto(Cur.dst[1], 4, IF Holds(Cur.op) THEN 1 ELSE 0)
    /\ Continue

ExecBranch ==
    /\ \/ Cur.op = "Br" /\ GoTo(Cur.of.to)
       \/ Cur.op \in CondBranches /\ Holds(Cur.op) /\ GoTo(Cur.of.to)
       \/ Cur.op \in CondBranches /\ ~Holds(Cur.op) /\ Continue
    /\ UNCHANGED <<frame, high>>

ExecSwitch ==
    /\ Cur.op = "Switch"
    /\ LET index == ReadU(4, Src(1))
       IN  IF index < Len(Cur.of.cases) THEN GoTo(Cur.of.cases[index + 1])
                                        ELSE Continue
    /\ UNCHANGED <<frame, high>>

-----------------------------------------------------------------------------
(***************************************************************************)
(* Memory.  A pointer is an address: of a slot of the frame, or of a cell  *)
(* of the one object there is, which is also the array and the static      *)
(* area.  0 is the null reference.                                         *)
(***************************************************************************)
SlotAddress(s) == s + 1
Object         == Slots + 1

CellAt(a) == IF a <= Slots THEN frame[a - 1] ELSE memory[a - Object]

\* f, with the cells of a value of the given type put there from s on.
PutCells(f, s, type, cells) ==
    [x \in DOMAIN f |->
        LET j == x - s + 1
        IN  IF j \in DOMAIN cells THEN Overwrite(CellBytes(type, j), f[x], cells[j])
                                  ELSE f[x]]

\* A store of the opcode's type through a pointer.
StoreAt(a, cells) ==
    /\ IF a <= Slots
           THEN /\ frame' = PutCells(frame, a - 1, Cur.type, cells)
                /\ high' = LargerOf(high, a - 1 + Len(cells))
                /\ UNCHANGED memory
           ELSE /\ memory' = PutCells(memory, a - Object, Cur.type, cells)
                /\ UNCHANGED <<frame, high>>
    /\ Continue

\* A load through a pointer: small integers are widened to 32 bits.
LoadAt(a) ==
    /\ IF Cur.type = "Any"
           THEN /\ frame' = PutCells(frame, Cur.dst[1], "Any",
                                     [j \in 1..StackObjects("Any") |-> CellAt(a + j - 1)])
                /\ high' = LargerOf(high, Cur.dst[1] + StackObjects("Any"))
           ELSE LoadInto(Cur.dst[1], LargerOf(4, Bytes), Cast(Cur.type, CellAt(a)))
    /\ UNCHANGED memory
    /\ Continue

\* The cells of the operand in the slots from its first one on.
Operand(k) == [j \in 1..StackObjects(Cur.type) |-> frame[Cur.src[k] + j - 1]]

Pointer(k) == ReadS(PtrSize, Src(k))

ExecIndirect ==
    \/ Cur.op = "LdInd" /\ LoadAt(Pointer(1))
    \/ Cur.op = "StInd" /\ StoreAt(Pointer(1), Operand(2))
    \/ /\ Cur.op = "InitObj"
       /\ StoreAt(Pointer(1), [j \in 1..StackObjects(Cur.type) |-> 0])
    \/ /\ Cur.op = "CpObj"
       /\ StoreAt(Pointer(1), [j \in 1..StackObjects(Cur.type) |-> CellAt(Pointer(2) + j - 1)])

ExecAddress ==
    /\ \/ Cur.op = "LdLoca" /\ LoadInto(Cur.dst[1], PtrSize, SlotAddress(Cur.src[1]))
       \/ Cur.op = "Ldsflda" /\ LoadInto(Cur.dst[1], PtrSize, Object + Cur.of.at)
    /\ UNCHANGED memory
    /\ Continue

\* A field of a value on the stack is read from the slots themselves.
ExecStatic ==
    \/ Cur.op = "Ldsfld" /\ LoadAt(Object + Cur.of.at)
    \/ Cur.op = "Stsfld" /\ StoreAt(Object + Cur.of.at, Operand(1))
    \/ Cur.op = "Ldvfld" /\ LoadAt(SlotAddress(Cur.src[1] + Cur.of.at))

\* The place a field instruction is about, if its object is not null.
FieldAddress == Pointer(1) + Cur.of.at

ExecField ==
    /\ Cur.op \in {"Ldfld", "Ldflda"}
    /\ IF Pointer(1) = 0 THEN Raise(NullReference) /\ UNCHANGED memory
       ELSE IF Cur.op = "Ldfld" THEN LoadAt(FieldAddress)
       ELSE /\ LoadInto(Cur.dst[1], PtrSize, FieldAddress)
            /\ UNCHANGED memory /\ Continue

ExecStoreField ==
    /\ Cur.op = "Stfld"
    /\ IF Pointer(1) = 0 THEN Raise(NullReference) /\ UNCHANGED memory
                         ELSE StoreAt(FieldAddress, Operand(2))

\* The index is read as an int32, and compared as unsigned.
Index == ReadU(4, Src(2))
ElementAddress == Pointer(1) + 1 + Index * StackObjects(Cur.of.type)

\* What is wrong with an array access: nothing, or the exception.
ElementFault == IF Pointer(1) = 0 THEN {NullReference}
                ELSE IF Cur.op # "LdLen" /\ Index >= Elements THEN {IndexOutOfRange}
                ELSE {}

ExecElement ==
    /\ Cur.op \in {"LdLen", "Ldelem", "Ldelema"}
    /\ \/ \E ex \in ElementFault : Raise(ex) /\ UNCHANGED memory
       \/ /\ ElementFault = {}
          /\ \/ Cur.op = "Ldelem" /\ LoadAt(ElementAddress)
             \/ /\ Cur.op # "Ldelem"
                /\ IF Cur.op = "LdLen" THEN LoadInto(Cur.dst[1], 4, Elements)
                                       ELSE LoadInto(Cur.dst[1], PtrSize, ElementAddress)
                /\ UNCHANGED memory /\ Continue

ExecStoreElement ==
    /\ Cur.op = "Stelem"
    /\ \/ \E ex \in ElementFault : Raise(ex) /\ UNCHANGED memory
       \/ ElementFault = {} /\ StoreAt(ElementAddress, Operand(3))

-----------------------------------------------------------------------------
Weighted(args) ==
    LET Total[k \in 0..Len(args)] == IF k = 0 THEN 1 ELSE Total[k - 1] + k * args[k][1]
    IN  Total[Len(args)]

\* What the callee computes from its parameters: any function that tells
\* them and their order apart will do.
CalleeResult(ret, args) ==
    IF ret = "Other"
        THEN [k \in 1..StackObjects(ret) |-> ReadU(StructBytes(k), Weighted(args) + k)]
        ELSE <<Cast(ret, Weighted(args))>>

\* The slot of the k-th parameter: the callee counts their sizes.
ParamSlot(types, first, k) ==
    LET Slot[j \in 1..k] == IF j = 1 THEN first
                            ELSE Slot[j - 1] + StackObjects(types[j - 1])
    IN  Slot[k]

Params(f, first) ==
    [k \in DOMAIN Cur.of.params |->
        Decode(f, Cur.of.params[k], ParamSlot(Cur.of.params, first, k))]

\* What a callee leaves in the slots of its frame that nobody reads.
Junk == Range2(8) - 1

\* CallInterp: the callee runs on the slots from its frame base on and
\* returns its result there with RetI4, RetI8 or RetAny.  What it throws is
\* raised at the return address.  CallVirtInterp first looks for the object.
\* Left out of it: a lookup of the method that fails, which returns from
\* execute without unwinding, and a method of a value type, to which the
\* address behind the header (obj + 1) is passed.
ExecCall ==
    /\ Cur.op \in {"Call", "CallVirt"}
    /\ LET ret == Cur.of.ret
           result == CalleeResult(ret, Params(frame, Cur.of.frame))
           At(s) == s - Cur.of.frame + 1
       IN  IF Cur.op = "CallVirt" /\ ReadS(PtrSize, frame[Cur.of.frame]) = 0
               THEN Raise(NullReference)
           ELSE IF Cur.of.throws
               THEN RaiseAt(ip + 1, CalleeFault)
               ELSE /\ frame' = [s \in DOMAIN frame |->
                          IF s < Cur.of.frame THEN frame[s]
                          ELSE IF ret = "Void" \/ At(s) > StackObjects(ret) THEN Junk
                          ELSE IF ret = "Other" THEN result[At(s)]
                          ELSE Overwrite(ByteSize(Arch(DataTypeOf(ret))), Junk, result[1])]
                    /\ high' = IF ret = "Void" THEN high
                               ELSE LargerOf(high, Cur.of.frame + StackObjects(ret))
                    /\ Continue
    /\ UNCHANGED memory

\* The parameters are moved up to make room below them; the constructor
\* gets what is put there as its first one, and leaves something it has
\* computed from the others in the new object.
Moved(by) == [s \in DOMAIN frame |->
                 IF s \in (Cur.of.frame + by)..(Cur.of.frame + by + Cur.of.total - 1)
                     THEN frame[s - by] ELSE frame[s]]

\* NewObjInterp: a reference to a new, zeroed object.
ExecNewObj ==
    /\ Cur.op = "NewObj"
    /\ LET state == CalleeResult("I8", Params(Moved(1), Cur.of.frame + 1))
       IN  /\ memory' = [c \in DOMAIN memory |->
                            IF c = 0 THEN memory[0]
                            ELSE IF c = 1 THEN state[1] % Range2(8) ELSE 0]
           /\ frame' = [s \in DOMAIN frame |->
                  IF s < Cur.of.frame THEN frame[s]
                  ELSE IF s = Cur.of.frame THEN Overwrite(PtrSize, frame[s], Object)
                  ELSE Junk]
           /\ high' = LargerOf(high, Cur.of.frame + 1 + Cur.of.total)
    /\ Continue

\* NewValueTypeInterp: a pointer to the zeroed slots of the value, which lie
\* below the frame of the constructor.
ExecNewValue ==
    /\ Cur.op = "NewValue"
    /\ LET size == StackObjects(Cur.of.ret)
           first == Cur.of.frame + size
           state == CalleeResult("I8", Params(Moved(size + 1), first + 1))
       IN  /\ frame' = [s \in DOMAIN frame |->
                  IF s < Cur.of.frame THEN frame[s]
                  ELSE IF s = Cur.of.frame THEN state[1] % Range2(8)
                  ELSE IF s < first THEN 0
                  ELSE Junk]
           /\ high' = LargerOf(high, first + 1 + Cur.of.total)
    /\ UNCHANGED memory
    /\ Continue

\* The caller takes the result from the first slots of the frame, as a
\* variable of the evaluation stack.
ExecReturn ==
    /\ \/ /\ Cur.op = "RetVoid"
          /\ UNCHANGED <<frame, high>>
          /\ outcome' = [kind |-> "returned", value |-> <<>>]
       \/ /\ Cur.op \in {"RetNop", "Ret"}
          /\ IF Cur.op = "RetNop" THEN UNCHANGED <<frame, high>>
             ELSE IF Cur.type = "Any" THEN CopySlots(0, Cur.src[1], Cur.size)
             ELSE LoadInto(0, Bytes, Src(1))
          /\ outcome' = [kind |-> "returned", value |-> Decode(frame', PrimitiveReduce(DataTypeOf(method.ret)), 0)]
    /\ UNCHANGED ip

\* Objects thrown are exceptions: the check that throws an InvalidCast for any
\* other is left out.
ExecThrow ==
    /\ Cur.op = "Throw"
    /\ LET ex == ReadS(PtrSize, Src(1))
       IN  Raise(IF ex = 0 THEN NullReference ELSE ex)

Exec ==
    /\ \/ /\ \/ ExecLoad \/ ExecStore \/ ExecConst \/ ExecInitLocals \/ ExecArith \/ ExecChecked
             \/ ExecDivide \/ ExecBits \/ ExecShift \/ ExecUnary \/ ExecConv \/ ExecConvOvf
             \/ ExecCompare \/ ExecBranch \/ ExecSwitch \/ ExecReturn \/ ExecThrow
          /\ UNCHANGED memory
       \/ ExecIndirect \/ ExecAddress \/ ExecStatic \/ ExecField \/ ExecStoreField
       \/ ExecElement \/ ExecStoreElement \/ ExecCall \/ ExecNewObj \/ ExecNewValue
    /\ UNCHANGED <<code, clauses, frameSize>>
=============================================================================
