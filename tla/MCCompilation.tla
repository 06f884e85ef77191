---------------------------- MODULE MCCompilation ----------------------------
(***************************************************************************)
(* Methods and argument values for the model checker: one method for every *)
(* operator and every pair of operand types it takes, every conversion,    *)
(* and methods for the ways control and calls may go.                      *)
(***************************************************************************)
EXTENDS Compilation

\* Boundaries of each type, and values between them; the types that follow
\* the pointer size are cut to it.
MCArgValues(reduce) ==
    CASE reduce = "I1"    -> {<<-1>>, <<0>>}
      [] reduce = "U1"    -> {<<1>>, <<0>>}
      [] reduce = "I2"    -> {<<-2>>, <<1>>}
      [] reduce = "U2"    -> {<<0>>, <<3>>}
      [] reduce = "Other" -> {<<200, 3>>}
      [] reduce = "Ref"   -> {<<0>>, <<Object>>}
      [] Arch(reduce) = "I4" -> {<<n>> : n \in {MinInt(4), -1, 0, 3, MaxInt(4)}}
      [] Arch(reduce) = "I8" -> {<<n>> : n \in {MinInt(8), -1, 0, 3, 12, MaxInt(8)}}

Method(args, locals, ret, body) ==
    [args |-> args, locals |-> locals, ret |-> ret, body |-> body,
     initLocals |-> TRUE, clauses |-> <<>>]

O(op)       == [op |-> op]
N(op, n)    == [op |-> op, n |-> n]
To(op, b)   == [op |-> op, to |-> b]
Conv(k, t)  == [op |-> "Conv", kind |-> k, type |-> t]
CallTo(types, ret) == [op |-> "Call", params |-> types, ret |-> ret, throws |-> FALSE]
At(op, t, k) == [op |-> op, type |-> t, at |-> k]
Typed(op, t) == [op |-> op, type |-> t]
NewTo(types, ret) == [op |-> "NewObj", params |-> types, ret |-> ret, throws |-> FALSE]
CallVirtTo(types, ret, constrained) ==
    [op |-> "CallVirt", params |-> types, ret |-> ret, throws |-> FALSE,
     constrained |-> constrained]
Faulting == [op |-> "Call", params |-> <<>>, ret |-> "Void", throws |-> TRUE]

Ints == {"I4", "I8", "I"}
Kinds == {"Conv", "ConvOvf", "ConvOvfUn"}
IntTypes == {"I1", "U1", "I2", "U2", "I4", "U4", "I8", "U8", "I", "U"}

\* left op right
Operator(op, l, r, ret) ==
    Method(<<l, r>>, <<>>, ret, <<N("LdArg", 1), N("LdArg", 2), O(op), O("Ret")>>)

BinaryMethods ==
    {Operator(op, l, r, PrimitiveReduce(BinResult(DataTypeOf(l), DataTypeOf(r)))) :
        op \in ArithOps, l \in Ints, r \in Ints}
    \cup {Operator(op, t, t, t) : op \in BitOps, t \in Ints}
    \cup {Operator(op, t, t, "I4") : op \in CompareOps, t \in Ints}

UnaryMethods ==
    {Method(<<t>>, <<>>, t, <<N("LdArg", 1), O(op), O("Ret")>>) :
        op \in UnaryOps, t \in Ints}
    \cup {Method(<<t>>, <<>>, t, <<N("LdArg", 1), N("LdcI4", n), O(op), O("Ret")>>) :
        op \in ShiftOps, t \in Ints, n \in {0, 1, 3}}
    \cup {Method(<<t>>, <<>>, PrimitiveReduce(StackType(to)),
                 <<N("LdArg", 1), Conv(k, to), O("Ret")>>) :
        k \in Kinds, to \in IntTypes, t \in Ints}
    \cup {Method(<<t, "I8">>, <<>>, "I8",
                 <<N("LdArg", 2), N("LdArg", 1), Conv(k, to), O("Sub"), O("Ret")>>) :
        k \in Kinds, to \in IntTypes, t \in {"I4"}}

\* A small variable narrows what is stored and widens what is loaded.
Small == {"I1", "U1", "I2", "U2"}
VariableMethods ==
    {Method(<<t, "I4", "I8">>, <<>>, "I8",
            <<N("LdArg", 3), N("LdArg", 2), N("StArg", 1), N("LdArg", 1),
              O("Add"), O("Ret")>>) : t \in Small \cup {"I4"}}
    \cup {Method(<<"I4">>, <<t, "I8">>, "I8",
            <<N("LdArg", 1), N("StLoc", 1), N("LdLoc", 1), O("Dup"), O("Add"),
              Conv("Conv", "I8"), N("StLoc", 2), N("LdLoc", 2), O("Ret")>>) : t \in Small}
    \cup {Method(<<"Other">>, <<"I1", "Other">>, "Other",
            <<N("LdArg", 1), O("Dup"), N("StLoc", 2), O("Pop"), N("LdcI8", 5),
              O("Pop"), N("LdLoc", 2), O("Ret")>>),
          [Method(<<"I4">>, <<"I4", "I8">>, "I8",
            <<N("LdLoc", 2), N("LdArg", 1), N("StLoc", 1), N("LdLoc", 1),
              O("Sub"), O("Ret")>>) EXCEPT !.initLocals = FALSE],
          Method(<<>>, <<>>, "I4", <<N("LdcI4", 3), O("Ret")>>),
          Method(<<>>, <<>>, "I", <<O("Nop"), O("LdNull"), O("Ret")>>)}

\* if (left op right) 1 else 0: the join is entered by a branch and by
\* falling through, with one entry on the stack.
Choice(args, load, branch) ==
    LET n == Len(load)
    IN  Method(args, <<>>, "I4",
               load \o <<To(branch, n + 4), N("LdcI4", 0), To("Br", n + 5),
                         N("LdcI4", 1), O("Ret")>>)

BranchMethods ==
    {Choice(<<t, t>>, <<N("LdArg", 1), N("LdArg", 2)>>, op) :
        op \in CondBranches \ {"BrTrue", "BrFalse"}, t \in Ints}
    \cup {Choice(<<t>>, <<N("LdArg", 1)>>, op) : op \in {"BrTrue", "BrFalse"}, t \in Ints}
    \cup {\* the branches go to the next instruction
          Method(<<"I4">>, <<>>, "I4",
            <<N("LdArg", 1), O("Dup"), To("BrTrue", 4), O("Dup"), O("Dup"), To("Beq", 7),
              To("Br", 8), [op |-> "Dup"], [op |-> "Switch", cases |-> <<10, 10>>],
              O("Ret")>>),
          \* a switch with a case to the next instruction, and one backwards
          Method(<<"I4", "I8">>, <<"I4">>, "I8",
            <<O("Nop"), N("LdArg", 2), N("LdArg", 1),
              [op |-> "Switch", cases |-> <<8, 5, 10>>],
              N("LdcI8", 1), O("Add"), O("Ret"), N("LdcI4", 2), O("Mul"), O("Ret")>>),
          \* for (i = 3; i != 0; i--) sum += i
          Method(<<>>, <<"I4", "I8">>, "I8",
            <<N("LdcI4", 3), N("StLoc", 1), N("LdLoc", 1), To("BrFalse", 14),
              N("LdLoc", 2), N("LdLoc", 1), O("Add"), N("StLoc", 2),
              N("LdLoc", 1), N("LdcI4", 1), O("Sub"), N("StLoc", 1), To("Br", 3),
              N("LdLoc", 2), O("Ret")>>),
          \* a loop head with an entry on the stack, after dead code
          Method(<<>>, <<>>, "I4",
            <<N("LdcI4", 3), To("Br", 4), O("Nop"), N("LdcI4", 1), O("Sub"), O("Dup"),
              To("BrTrue", 4), O("Ret")>>),
          \* the two ways to a join push variables of different small types
          Method(<<"I1", "U2", "I8">>, <<>>, "I8",
            <<N("LdArg", 3), N("LdArg", 1), To("BrTrue", 6), N("LdArg", 1), To("Br", 7),
              N("LdArg", 2), O("Sub"), O("Ret")>>),
          \* and both of them end in a branch
          Method(<<"I1", "U2", "I8">>, <<>>, "I8",
            <<N("LdArg", 3), N("LdArg", 1), To("BrTrue", 6), N("LdArg", 1), To("Br", 9),
              N("LdArg", 2), To("Br", 9), O("Nop"), O("Sub"), O("Ret")>>)}

\* A callee with parameters of every size, below values that must survive.
CallMethods ==
    {Method(<<"I4", "Other", "I8">>, <<>>, "I8",
            <<N("LdArg", 3), N("LdArg", 1), N("LdArg", 2), N("LdArg", 3),
              CallTo(<<p, "Other", "I8">>, ret), O("Add"), O("Ret")>>) :
        p \in {"I1", "U2", "I4"}, ret \in {"I1", "U1", "I4", "I8", "I"}}
    \cup {Method(<<"I8">>, <<"Other">>, "I8",
            <<N("LdArg", 1), N("LdArg", 1), CallTo(<<"I8">>, "Other"), N("StLoc", 1),
              N("LdLoc", 1), CallTo(<<"Other">>, "Void"), CallTo(<<>>, "I4"),
              O("Sub"), O("Ret")>>)}

Clause(try, tryEnd, handler, handlerEnd) ==
    [flags |-> "Exception", try |-> try, tryEnd |-> tryEnd,
     handler |-> handler, handlerEnd |-> handlerEnd]

TryMethods ==
    {\* try { left op right } catch (e) { -1 }, with the stack loaded
     [Method(<<"I4", t>>, <<"I8", "I">>, "I8",
        <<O("Nop"), N("LdArg", 1), N("LdArg", 2), N("LdArg", 2), O(op), O("Add"),
          Conv("Conv", "I8"), N("StLoc", 1), To("Leave", 14),
          N("StLoc", 2), N("LdcI8", -1), N("StLoc", 1), To("Leave", 14),
          N("LdLoc", 1), O("Ret")>>) EXCEPT !.clauses = <<Clause(2, 10, 10, 14)>>] :
        op \in {"Div", "AddOvf"}, t \in Ints}
    \cup
    {\* an inner handler throws what it caught to the outer one
     [Method(<<"I">>, <<"I">>, "I",
        <<N("LdArg", 1), O("Throw"), O("Throw"), N("StLoc", 1), To("Leave", 6),
          N("LdLoc", 1), O("Ret")>>)
      EXCEPT !.clauses = <<Clause(1, 3, 3, 4), Clause(1, 4, 4, 6)>>],
     \* an exception nobody catches
     Method(<<"I", "I4">>, <<>>, "Void",
        <<N("LdArg", 2), To("BrTrue", 5), N("LdArg", 1), O("Throw"), O("Ret")>>),
     \* try { F(); } catch { } in a method that pushes nothing
     [Method(<<>>, <<>>, "Void",
        <<Faulting, To("Leave", 5), O("Pop"), To("Leave", 5), O("Ret")>>)
      EXCEPT !.clauses = <<Clause(1, 3, 3, 5)>>],
     \* F() in a try block with a value live around it in a local
     [Method(<<"I4">>, <<"I4">>, "I4",
        <<N("LdArg", 1), N("StLoc", 1), N("LdLoc", 1), O("Pop"), Faulting, To("Leave", 9),
          O("Pop"), To("Leave", 9), N("LdLoc", 1), O("Ret")>>)
      EXCEPT !.clauses = <<Clause(3, 7, 7, 9)>>]}

\* Fields, statics, elements and variables of every type, by value and by
\* address, stored from and loaded to the full width of the stack.
Everything == Small \cup Ints \cup {"Ref", "Other"}
Source(t) == IF t \in Small THEN "I4" ELSE t

MemoryMethods ==
    {\* o.f = v; return o.f
     Method(<<"Ref", Source(t)>>, <<>>, Source(t),
       <<N("LdArg", 1), N("LdArg", 2), At("Stfld", t, 2), N("LdArg", 1),
         At("Ldfld", t, 2), O("Ret")>>) : t \in Everything}
    \cup
    {\* S = v; *&o.f = *&S
     Method(<<"Ref", Source(t)>>, <<>>, Source(t),
       <<N("LdArg", 2), At("Stsfld", t, 1), N("LdArg", 1), At("Ldflda", t, 3),
         At("Ldsflda", t, 1), Typed("LdInd", t), Typed("StInd", t),
         At("Ldsfld", t, 3), O("Ret")>>) : t \in Everything \ {"Other"}}
    \cup
    {\* local = *&argument; *&other = local; return other, by address
     Method(<<t>>, <<"I8", t, t, "I8">>, Source(t),
       <<N("LdLoca", 2), N("LdArga", 1), Typed("LdObj", t), Typed("StObj", t),
         N("LdLoca", 3), N("LdLoca", 2), Typed("CpObj", t), N("LdLoca", 2), Typed("InitObj", t),
         N("LdLoc", 2), O("Pop"), N("LdLoc", 3), O("Ret")>>) : t \in Everything}
    \cup
    {\* a[1] = v; *&a[0] = a[1], by type or by token
     Method(<<"Ref", Source(t)>>, <<>>, Source(t),
       <<N("LdArg", 1), N("LdcI4", 1), N("LdArg", 2), Typed(st, t),
         N("LdArg", 1), N("LdcI4", 0), Typed("Ldelema", t),
         N("LdArg", 1), N("LdcI4", 1), Typed(ld, t), Typed("StObj", t),
         N("LdArg", 1), N("LdcI4", 0), Typed(ld, t), O("Ret")>>) :
       st \in {"StelemAny"}, ld \in {"LdelemAny"}, t \in Everything \ {"U1", "U2"}}
    \cup
    {Method(<<"Ref", Source(t), "I4">>, <<>>, Source(t),
       <<N("LdArg", 1), N("LdArg", 3), N("LdArg", 2), Typed("Stelem", t),
         N("LdArg", 1), O("LdLen"), O("Pop"), N("LdArg", 1), N("LdArg", 3),
         Typed("Ldelem", t), O("Ret")>>) : t \in {"I1", "U1", "U2", "I8"}}
    \cup
    {\* a field of a value: on the stack, of a variable, through a pointer
     Method(<<"I8", "Other">>, <<"Other">>, Source(t),
       <<N("LdArg", 1), N("LdArg", 2), O("Dup"), N("StLoc", 1), At("Ldfld", t, at),
         N("LdLoca", 1), At("Ldflda", t, at), N("LdArga", 2), At("Ldfld", t, 1 - at),
         Typed("StInd", t), N("LdLoc", 1), At("Ldfld", t, at),
         N("LdLoca", 1), At("Ldfld", t, at), O("Sub"), O("Sub"), O("Ret")>>) :
       t \in Small \cup {"I4"}, at \in {0, 1}}
    \cup
    {Method(<<"Other">>, <<>>, t, <<N("LdArg", 1), At("Ldfld", t, 0), O("Ret")>>) :
       t \in {"I8", "Ref"}}

\* new C(p, v) and new V(p, v) below a value that must survive, and calls of
\* virtual methods.
ObjectMethods ==
    {Method(<<"I4", "I8">>, <<>>, ret,
       <<N("LdArg", 2), N("LdArg", 1), N("LdArg", 2), NewTo(<<p, "I8">>, "Ref"),
         O("Dup"), At("Ldfld", "I8", 2), O("Pop"), At("Ldfld", ret, 1)>>
       \o last \o <<O("Ret")>>) :
       p \in {"I1", "I4"}, ret \in {"I8"}, last \in {<<O("Sub")>>}}
    \cup
    {Method(<<"I4", "Other">>, <<"Other">>, "Other",
       <<N("LdArg", 2), N("LdArg", 2), N("LdArg", 1), NewTo(<<"Other", p>>, "Other"),
         N("StLoc", 1), N("StArg", 2), NewTo(<<>>, "Other"), O("Pop"),
         N("LdLoc", 1), O("Ret")>>) : p \in {"U2", "I4"}}
    \cup
    {Method(<<"Ref", "I4", "I8">>, <<"Ref">>, "I8",
       <<N("LdArg", 1), N("StLoc", 1), N("LdArg", 3), load, N("LdArg", 2),
         CallVirtTo(<<"Ref", "U1">>, "I8", constrained), O("Sub"), O("Ret")>>) :
       load \in {N("LdArg", 1)}, constrained \in {FALSE}}
    \cup
    {Method(<<"Ref", "I4", "I8">>, <<"Ref">>, "I8",
       <<N("LdArg", 1), N("StLoc", 1), N("LdArg", 3), N("LdLoca", 1), N("LdArg", 2),
         CallVirtTo(<<"Ref", "U1">>, "I8", TRUE), O("Sub"), O("Ret")>>),
     \* a null reference inside a try block
     [Method(<<"Ref">>, <<"I8", "Ref">>, "I8",
        <<N("LdArg", 1), CallVirtTo(<<"Ref">>, "I8", FALSE), N("StLoc", 1),
          N("LdArg", 1), At("Ldfld", "I8", 1), N("StLoc", 1), To("Leave", 11),
          N("StLoc", 2), N("LdcI8", -1), N("StLoc", 1), N("LdLoc", 1), O("Ret")>>)
      EXCEPT !.clauses = <<Clause(1, 8, 8, 11)>>]}

\* Methods that break the rules.
WrongMethods ==
    {\* a join with an entry more on one path, of another type, or missing
     Method(<<"I4", "I8">>, <<>>, "I4", <<N("LdArg", 1)>> \o path
              \o <<N("LdcI4", 1), O("Ret")>>) :
        path \in {<<O("Dup"), To("BrTrue", 4), O("Dup"), O("Nop")>>}}
    \cup
    {Method(<<"I4", "I8">>, <<>>, "I4",
        <<N("LdArg", 1), N("LdArg", 1), To("BrTrue", 6), push, To("Br", 7),
          N("LdArg", 2), O("Pop"), O("Ret")>>) :
        push \in {N("LdArg", 1), O("Dup"), O("Nop"), O("Pop")}}
    \cup {Method(<<"I4">>, <<>>, "I4", <<N("LdArg", 1), O(op), O("Ret")>>) :
             op \in {"Add", "And", "Shl", "Ceq", "Pop"}}
    \cup {Method(<<"I4">>, <<>>, "I4", <<N("LdArg", 1), To("BrTrue", 5), O("Ret")>>)}
    \cup {[Method(<<"I4">>, <<>>, "Void", <<O("Nop"), O("Nop"), To("Leave", 6),
                O("Pop"), To("Leave", 6), O("Ret")>>)
           EXCEPT !.clauses = <<Clause(1, 4, 4, 6), Clause(2, 5, 4, 6)>>]}

MCMethods == WrongMethods \cup BinaryMethods \cup UnaryMethods \cup VariableMethods
             \cup BranchMethods \cup CallMethods \cup TryMethods \cup MemoryMethods
             \cup ObjectMethods
=============================================================================
