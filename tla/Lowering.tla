------------------------------ MODULE Lowering ------------------------------
(***************************************************************************)
(* The second half of the method compiler: ll::Transformer.  It picks for  *)
(* every instruction the opcode of the right width, drops the ones that    *)
(* have nothing to do, and lays the blocks out one after the other; branch *)
(* targets and exception clauses become positions in that code.            *)
(*                                                                         *)
(* A low-level instruction names its opcode by a family and the type its   *)
(* name ends in (Add and I4 for AddI4); its operands are frame slots.      *)
(***************************************************************************)
EXTENDS Transformer

CONSTANTS FrameLimit    \* what a 16-bit frame size cannot hold any more

\* The opcode of a load and of a store by the type of the variable; a store
\* of a small integer is the same for both signs.
LoadType(var) == IF var.reduce = "Other" THEN "Any" ELSE Arch(var.reduce)

StoreType(var) == CASE var.reduce \in {"I1", "U1"} -> "I1"
                    [] var.reduce \in {"I2", "U2"} -> "I2"
                    [] OTHER                       -> LoadType(var)

\* Operators, branches and comparisons: by the stack type of one variable.
WidthOf(var) == Arch(var.data)

\* The variable that decides: the result for arithmetic, the first operand
\* for branches and comparisons, whose result is no guide.
Deciding(inst) ==
    IF inst.op \in ArithOps \cup BitOps \cup ShiftOps \cup UnaryOps
        THEN inst.dst[1] ELSE inst.src[1]

\* transform_conv: <<opcode family, target type>>, or Nop when a value of
\* that width needs no work.  Widening an int32 cannot overflow: the checked
\* forms become the plain ones.
ConvOpcode(kind, type, from) ==
    LET to == CASE type = "I" -> Arch("I")
                [] type = "U" -> IF PtrSize = 4 THEN "U4" ELSE "U8"
                [] OTHER      -> type
        idle == \/ kind = "Conv" /\ from = "I4" /\ to \in {"I4", "U4"}
                \/ kind = "Conv" /\ from = "I8" /\ to \in {"I8", "U8"}
                \/ kind = "ConvOvf" /\ from = to /\ to \in {"I4", "I8"}
                \/ kind = "ConvOvfUn" /\ from = "I4" /\ to = "U4"
                \/ kind = "ConvOvfUn" /\ from = "I8" /\ to = "U8"
    IN  IF idle THEN <<"Nop", to>>
        ELSE IF from = "I4" /\ kind = "ConvOvf" /\ to = "I8" THEN <<"Conv", "I8">>
        ELSE IF from = "I4" /\ kind = "ConvOvfUn" /\ to \in {"I8", "U8"}
             THEN <<"Conv", "U8">>
        ELSE <<kind, to>>

\* Ret: nothing to move when the result is already in the first slot.
ReturnOpcode(inst) ==
    IF method.ret = "Void" THEN <<"RetVoid", "I4">>
    ELSE IF inst.src[1].offset = 0 THEN <<"RetNop", "I4">>
    ELSE <<"Ret", IF method.ret = "Other" THEN "Any" ELSE Arch(DataTypeOf(method.ret))>>

\* The opcode of a load from memory and of a store to it.
MemoryType(type) == IF type = "Other" THEN "Any" ELSE Arch(type)
StoredType(type) == CASE type \in {"I1", "U1"} -> "I1"
                      [] type \in {"I2", "U2"} -> "I2"
                      [] OTHER                 -> MemoryType(type)

\* Ldvfld: the first field of a value on the stack is already in its place;
\* a small one is widened there.
ValueFieldOpcode(type, at) ==
    CASE at > 0                         -> <<"Ldvfld", MemoryType(type)>>
      [] type \in {"I1", "U1", "I2", "U2"} -> <<"Conv", type>>
      [] OTHER                          -> <<"Nop", "I4">>

\* Variables by address and memory behind a pointer.
PointerOpcode(inst) ==
    CASE inst.op \in {"LdArga", "LdLoca"} -> <<"LdLoca", "I4">>
      [] inst.op = "LdInd" -> <<"LdInd", MemoryType(inst.of.type)>>
      [] inst.op = "StInd" -> <<"StInd", StoredType(inst.of.type)>>

ObjectOpcode(inst) ==
    CASE inst.op = "LdObj" -> <<"LdInd", MemoryType(inst.of.type)>>
      [] inst.op = "StObj" -> <<"StInd", StoredType(inst.of.type)>>
      [] OTHER             -> <<inst.op, StoredType(inst.of.type)>>

FieldOpcode(inst) ==
    CASE inst.op = "Ldflda" -> <<"Ldflda", "I4">>
      [] inst.op = "Stfld"  -> <<"Stfld", StoredType(inst.of.type)>>
      [] inst.op = "Ldfld" /\ inst.src[1].data = "Other" ->
             ValueFieldOpcode(inst.of.type, inst.of.at)
      [] OTHER -> <<"Ldfld", MemoryType(inst.of.type)>>

StaticOpcode(inst) ==
    CASE inst.op = "Ldsflda" -> <<"Ldsflda", "I4">>
      [] inst.op = "Stsfld"  -> <<"Stsfld", StoredType(inst.of.type)>>
      [] inst.op = "Ldsfld"  -> <<"Ldsfld", MemoryType(inst.of.type)>>

\* Elements: by token, an unsigned small type takes the signed opcode.
ElementOpcode(inst) ==
    CASE inst.op \in {"LdLen", "Ldelema"} -> <<inst.op, "I4">>
      [] inst.op \in {"Stelem", "StelemAny"} -> <<"Stelem", StoredType(inst.of.type)>>
      [] inst.op = "LdelemAny" /\ inst.of.type \in {"U1", "U2"} ->
             <<"Ldelem", StoredType(inst.of.type)>>
      [] OTHER -> <<"Ldelem", MemoryType(inst.of.type)>>

\* NewObj: a value type is made in the slots of the caller.
NewOpcode(inst) == <<IF inst.of.ret = "Ref" THEN "NewObj" ELSE "NewValue", "I4">>

Opcode(inst) ==
    CASE inst.op \in {"LdArg", "LdLoc"} -> <<"LdLoc", LoadType(inst.src[1])>>
      [] inst.op = "Dup" ->
             <<"LdLoc", IF inst.src[1].data = "Other" THEN "Any" ELSE WidthOf(inst.src[1])>>
      [] inst.op \in {"StArg", "StLoc"} -> <<"StLoc", StoreType(inst.dst[1])>>
      [] inst.op \in ArithOps \cup BitOps \cup ShiftOps \cup UnaryOps
                     \cup CompareOps \cup CondBranches ->
             <<inst.op, WidthOf(Deciding(inst))>>
      [] inst.op = "Conv" -> ConvOpcode(inst.of.kind, inst.of.type, WidthOf(inst.src[1]))
      [] inst.op = "Ret" -> ReturnOpcode(inst)
      [] inst.op = "Leave" -> <<"Br", "I4">>
      [] inst.op = "NewObj" -> NewOpcode(inst)
      [] inst.op \in {"LdArga", "LdLoca", "LdInd", "StInd"} -> PointerOpcode(inst)
      [] inst.op \in {"InitObj", "CpObj", "LdObj", "StObj"} -> ObjectOpcode(inst)
      [] inst.op \in {"Ldfld", "Ldflda", "Stfld"} -> FieldOpcode(inst)
      [] inst.op \in {"Ldsfld", "Ldsflda", "Stsfld"} -> StaticOpcode(inst)
      [] inst.op \in {"LdLen", "Ldelema", "Ldelem", "LdelemAny", "Stelem", "StelemAny"} ->
             ElementOpcode(inst)
      [] OTHER -> <<inst.op, "I4">>

\* transform_instructions for one instruction.
Lower(inst) ==
    [op |-> Opcode(inst)[1], type |-> Opcode(inst)[2],
     from |-> IF inst.src = <<>> \/ inst.op = "Ldfld" THEN "I4" ELSE WidthOf(inst.src[1]),
     of |-> inst.of, il |-> inst.il,
     src |-> [j \in DOMAIN inst.src |-> inst.src[j].offset],
     dst |-> [j \in DOMAIN inst.dst |-> inst.dst[j].offset],
     size |-> CASE inst.op \in {"StArg", "StLoc"} -> inst.dst[1].size
                [] inst.op = "Ret" /\ method.ret # "Void" -> StackObjects(method.ret)
                [] inst.op \in {"LdArg", "LdLoc", "Dup"} -> inst.src[1].size
                [] OTHER -> 1]

LoweredCode ==
    LET kept[n \in 0..Len(hl)] ==
            IF n = 0 THEN <<>>
            ELSE IF Lower(hl[n]).op = "Nop" THEN kept[n - 1]
            ELSE Append(kept[n - 1], Lower(hl[n]))
    IN  kept[Len(hl)]

\* build_codes: where the code of the block at an IL offset starts.
BlockStart(lowered, b) == 1 + Cardinality({k \in DOMAIN lowered : lowered[k].il < b})

\* build_exception_clauses
LoweredClauses(lowered) ==
    [c \in DOMAIN method.clauses |->
        [try     |-> BlockStart(lowered, method.clauses[c].try),
         tryEnd  |-> BlockStart(lowered, method.clauses[c].tryEnd),
         handler |-> BlockStart(lowered, method.clauses[c].handler)]]

(* Mutant: only the evaluation area is counted. *)
FrameSizeOfStack == (maxStack - base) % FrameLimit

\* build_interp_method_info keeps the sizes of the frame in 16 bits.
FrameSize == maxStack % FrameLimit
=============================================================================
