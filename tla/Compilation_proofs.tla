--------------------------- MODULE Compilation_proofs ---------------------------
(***************************************************************************)
(* For every method: the code that the first transformer emits names slots *)
(* of the frame it asks for, and variables that are live at the same time  *)
(* have slots of their own; the code that runs writes no slot above the    *)
(* frame, except through a pointer.                                        *)
(***************************************************************************)
EXTENDS Compilation, TLAPS, SequenceTheorems, WellFoundedInduction

End(v) == v.offset + v.size

\* max_stack_object_size; an exception may need one slot more in a method
\* that never pushes anything.
FrameTop == LargerOf(maxStack, base + 1)

(* Whatever a method does, every variable that its code reads or writes, the *)
(* locals it zeroes and the parameters it leaves for a call end within the   *)
(* slots reserved for the frame.                                             *)
Within(inst, limit) ==
    /\ \A j \in DOMAIN inst.src : End(inst.src[j]) <= limit
    /\ \A j \in DOMAIN inst.dst : End(inst.dst[j]) <= limit
    /\ inst.op = "InitLocals" => inst.of.from + inst.of.size <= limit
    /\ inst.op \in Calls => inst.of.frame + inst.of.total <= limit

OperandsInFrame == \A k \in DOMAIN hl : Within(hl[k], FrameTop)

(* Arguments, locals, entries of the evaluation stack and the parameters     *)
(* that a call has popped and not yet passed never share a slot, on whatever *)
(* path the transformer came to the block it is in.                          *)
Apart(us, vs) ==
    \A i \in DOMAIN us : \A j \in DOMAIN vs : End(us[i]) <= vs[j].offset

ApartWithin(vs) ==
    \A i, j \in DOMAIN vs : i < j => End(vs[i]) <= vs[j].offset

SlotsApart ==
    phase = "body" =>
        /\ \A vs \in {argVars, localVars, stack, params} : ApartWithin(vs)
        /\ Apart(argVars, localVars)
        /\ Apart(argVars, stack) /\ Apart(localVars, stack) /\ Apart(stack, params)

-----------------------------------------------------------------------------
(* Variables and rows of variables. *)

\* What Var makes: a primitive variable has one slot, a value type its own.
Slotted == {v \in [reduce : ReduceTypes, data : DataTypes, size : Nat \ {0}, offset : Nat] :
                v.size = IF IsPrimitive(v.data) THEN 1 ELSE StackObjects("Other")}

\* vs fills the slots from `from` up to `to`, one variable after the other.
Laid(vs, from, to) ==
    /\ vs \in Seq(Slotted)
    /\ ApartWithin(vs)
    /\ \A j \in DOMAIN vs : vs[j].offset = IF j = 1 THEN from ELSE End(vs[j - 1])
    /\ to = IF vs = <<>> THEN from ELSE End(vs[Len(vs)])

LEMMA SizesPositive ==
  ASSUME NEW r
  PROVE  /\ ByteSize(r) \in Nat \ {0}
         /\ StackObjects(r) \in Nat \ {0}
         /\ ByteSize(r) <= 8 => StackObjects(r) = 1
<1>1. ByteSize(r) \in Nat \ {0}
  BY WidthAssumption DEF ByteSize
<1>2. PICK n \in Nat \ {0} : n = ByteSize(r)
  BY <1>1
<1>3. (n + 7) \div 8 \in Nat \ {0} /\ (n <= 8 => (n + 7) \div 8 = 1)
  OBVIOUS
<1> QED BY <1>1, <1>2, <1>3 DEF StackObjects

LEMMA VarSlotted ==
  ASSUME NEW r \in ReduceTypes, NEW n \in Nat
  PROVE  Var(r, n) \in Slotted /\ Var(r, n).offset = n /\ Var(r, n).size \in Nat \ {0}
<1>1. DataTypeOf(r) \in DataTypes
  BY DEF DataTypeOf, DataTypes
<1>2. IsPrimitive(DataTypeOf(r)) => ByteSize(r) <= 8
  BY WidthAssumption DEF DataTypeOf, IsPrimitive, ByteSize, ReduceTypes
<1>3. ~IsPrimitive(DataTypeOf(r)) => r = "Other"
  BY DEF DataTypeOf, IsPrimitive, ReduceTypes
<1> QED BY <1>1, <1>2, <1>3, SizesPositive DEF Var, Slotted

LEMMA PrimitiveSlotted ==
  ASSUME NEW data \in DataTypes, NEW n \in Nat
  PROVE  Primitive(data, n) \in Slotted /\ Primitive(data, n).offset = n
<1>1. PrimitiveReduce(data) \in ReduceTypes
  BY DEF PrimitiveReduce, DataTypes, ReduceTypes
<1> QED BY <1>1, VarSlotted DEF Primitive

LEMMA MovedSlotted ==
  ASSUME NEW v \in Slotted, NEW n \in Nat
  PROVE  [v EXCEPT !.offset = n] \in Slotted /\ [v EXCEPT !.offset = n].offset = n
         /\ [v EXCEPT !.offset = n].size = v.size
  BY DEF Slotted

LEMMA EndNat ==
  ASSUME NEW v \in Slotted
  PROVE  /\ End(v) \in Nat /\ v.offset \in Nat /\ v.size \in Nat \ {0} /\ v.offset < End(v)
         /\ v.data \in DataTypes
  BY DEF Slotted, End

LEMMA LaidRow ==
  ASSUME NEW vs, NEW from \in Nat, NEW to, Laid(vs, from, to)
  PROVE  /\ to \in Nat /\ from <= to
         /\ \A j \in DOMAIN vs : /\ vs[j] \in Slotted
                                 /\ from <= vs[j].offset /\ End(vs[j]) <= to
<1>0. vs \in Seq(Slotted) /\ DOMAIN vs = 1..Len(vs) /\ Len(vs) \in Nat
  BY DEF Laid
<1>1. \A j \in DOMAIN vs : vs[j] \in Slotted
  BY <1>0
<1>2. \A j \in DOMAIN vs : from <= vs[j].offset
  <2> SUFFICES ASSUME NEW j \in DOMAIN vs PROVE from <= vs[j].offset
    OBVIOUS
  <2>1. 1 \in DOMAIN vs /\ vs[1].offset = from
    BY <1>0 DEF Laid
  <2>2. CASE j = 1
    BY <2>1, <2>2
  <2>3. CASE j # 1
    <3>1. End(vs[1]) <= vs[j].offset
      BY <2>1, <2>3, <1>0 DEF Laid, ApartWithin
    <3> QED BY <3>1, <2>1, <1>1, EndNat
  <2> QED BY <2>2, <2>3
<1>3. CASE vs = <<>>
  BY <1>3 DEF Laid
<1>4. CASE vs # <<>>
  <2>1. Len(vs) \in DOMAIN vs /\ to = End(vs[Len(vs)])
    BY <1>0, <1>4 DEF Laid
  <2>2. \A j \in DOMAIN vs : End(vs[j]) <= to
    <3> SUFFICES ASSUME NEW j \in DOMAIN vs, j # Len(vs) PROVE End(vs[j]) <= to
      BY <2>1, <1>1, EndNat
    <3>1. End(vs[j]) <= vs[Len(vs)].offset
      BY <2>1, <1>0 DEF Laid, ApartWithin
    <3> QED BY <3>1, <2>1, <1>1, EndNat
  <2> QED BY <2>1, <2>2, <1>1, <1>2, EndNat
<1> QED BY <1>3, <1>4

LEMMA LaidEmpty == ASSUME NEW n PROVE Laid(<<>>, n, n)
  BY DEF Laid, ApartWithin

LEMMA LaidPush ==
  ASSUME NEW vs, NEW from \in Nat, NEW to, Laid(vs, from, to),
         NEW v \in Slotted, v.offset = to
  PROVE  Laid(Append(vs, v), from, to + v.size)
<1> DEFINE ws == Append(vs, v)
<1>0. /\ vs \in Seq(Slotted) /\ Len(vs) \in Nat /\ DOMAIN vs = 1..Len(vs)
      /\ ws \in Seq(Slotted) /\ Len(ws) = Len(vs) + 1 /\ DOMAIN ws = 1..(Len(vs) + 1)
      /\ ws[Len(vs) + 1] = v /\ ws # <<>>
      /\ \A j \in DOMAIN vs : ws[j] = vs[j]
  BY DEF Laid
<1>1. ApartWithin(ws)
  <2> SUFFICES ASSUME NEW i \in DOMAIN ws, NEW j \in DOMAIN ws, i < j
               PROVE  End(ws[i]) <= ws[j].offset
    BY DEF ApartWithin
  <2>1. i \in DOMAIN vs
    BY <1>0
  <2>2. CASE j \in DOMAIN vs
    BY <1>0, <2>1, <2>2 DEF Laid, ApartWithin
  <2>3. CASE j = Len(vs) + 1
    BY <1>0, <2>1, <2>3, LaidRow
  <2> QED BY <1>0, <2>2, <2>3
<1>2. \A j \in DOMAIN ws : ws[j].offset = IF j = 1 THEN from ELSE End(ws[j - 1])
  <2> SUFFICES ASSUME NEW j \in DOMAIN ws
               PROVE  ws[j].offset = IF j = 1 THEN from ELSE End(ws[j - 1])
    OBVIOUS
  <2>1. CASE j \in DOMAIN vs
    <3>1. j # 1 => j - 1 \in DOMAIN vs
      BY <1>0, <2>1
    <3> QED BY <1>0, <2>1, <3>1 DEF Laid
  <2>2. CASE j = Len(vs) + 1
    <3>1. CASE vs = <<>>
      BY <1>0, <2>2, <3>1 DEF Laid
    <3>2. CASE vs # <<>>
      <4>1. Len(vs) \in DOMAIN vs /\ j # 1 /\ j - 1 = Len(vs)
        BY <1>0, <2>2, <3>2
      <4> QED BY <1>0, <2>2, <3>2, <4>1 DEF Laid
    <3> QED BY <3>1, <3>2
  <2> QED BY <1>0, <2>1, <2>2
<1> QED BY <1>0, <1>1, <1>2 DEF Laid, End

\* The row without its last k variables ends where they began.
LEMMA LaidPop ==
  ASSUME NEW vs, NEW from \in Nat, NEW to, Laid(vs, from, to),
         NEW k \in Nat \ {0}, k <= Len(vs)
  PROVE  Laid(SubSeq(vs, 1, Len(vs) - k), from, vs[Len(vs) + 1 - k].offset)
<1> DEFINE ws == SubSeq(vs, 1, Len(vs) - k)
<1>0. /\ vs \in Seq(Slotted) /\ Len(vs) \in Nat /\ DOMAIN vs = 1..Len(vs)
      /\ ws \in Seq(Slotted) /\ Len(ws) = Len(vs) - k /\ DOMAIN ws = 1..(Len(vs) - k)
      /\ \A j \in DOMAIN ws : ws[j] = vs[j] /\ j \in DOMAIN vs
      /\ Len(vs) + 1 - k \in DOMAIN vs
  BY DEF Laid
<1> HIDE DEF ws
<1>a. Len(vs) \in Nat /\ k \in Nat /\ k # 0 /\ k <= Len(vs) /\ Len(ws) = Len(vs) - k
  BY <1>0
<1>b. ws # <<>> => Len(ws) # 0
  BY <1>0, EmptySeq
<1>1. ApartWithin(ws)
  BY <1>0 DEF Laid, ApartWithin
<1>2. \A j \in DOMAIN ws : ws[j].offset = IF j = 1 THEN from ELSE End(ws[j - 1])
  <2> SUFFICES ASSUME NEW j \in DOMAIN ws
               PROVE  ws[j].offset = IF j = 1 THEN from ELSE End(ws[j - 1])
    OBVIOUS
  <2>1. j # 1 => j - 1 \in DOMAIN ws
    BY <1>0
  <2> QED BY <1>0, <2>1 DEF Laid
<1>3. vs[Len(vs) + 1 - k].offset = IF ws = <<>> THEN from ELSE End(ws[Len(ws)])
  <2>1. CASE ws = <<>>
    <3>1. Len(vs) + 1 - k = 1
      BY <1>0, <2>1
    <3> QED BY <1>0, <2>1, <3>1 DEF Laid
  <2>2. CASE ws # <<>>
    <3> DEFINE n == Len(vs) + 1 - k
    <3>1. n \in DOMAIN vs
      BY <1>0
    <3>2. n # 1 /\ n - 1 = Len(ws) /\ Len(ws) \in Nat /\ Len(ws) >= 1
      BY <1>a, <1>b, <2>2
    <3>3. DOMAIN ws = 1..Len(ws)
      BY <1>0
    <3>4. Len(ws) \in DOMAIN ws
      BY <3>2, <3>3
    <3>5. vs[n].offset = IF n = 1 THEN from ELSE End(vs[n - 1])
      BY <3>1 DEF Laid
    <3> HIDE DEF n
    <3>6. vs[n].offset = End(ws[Len(ws)])
      BY <1>0, <3>2, <3>4, <3>5
    <3> QED BY <2>2, <3>6 DEF n
  <2> QED BY <2>1, <2>2
<1> QED BY <1>0, <1>1, <1>2, <1>3 DEF Laid, ws

LEMMA LaidUnder ==
  ASSUME NEW vs, NEW from \in Nat, NEW to, Laid(vs, from, to),
         NEW v \in Slotted, End(v) = from
  PROVE  Laid(<<v>> \o vs, v.offset, to)
<1> DEFINE ws == <<v>> \o vs
<1>0. /\ vs \in Seq(Slotted) /\ Len(vs) \in Nat /\ DOMAIN vs = 1..Len(vs)
      /\ ws \in Seq(Slotted) /\ Len(ws) = Len(vs) + 1 /\ DOMAIN ws = 1..(Len(vs) + 1)
      /\ ws[1] = v /\ ws # <<>>
      /\ \A j \in DOMAIN ws : j # 1 => j - 1 \in DOMAIN vs /\ ws[j] = vs[j - 1]
  BY DEF Laid
<1>1. ApartWithin(ws)
  <2> SUFFICES ASSUME NEW i \in DOMAIN ws, NEW j \in DOMAIN ws, i < j
               PROVE  End(ws[i]) <= ws[j].offset
    BY DEF ApartWithin
  <2>1. CASE i = 1
    BY <1>0, <2>1, LaidRow
  <2>2. CASE i # 1
    BY <1>0, <2>2 DEF Laid, ApartWithin
  <2> QED BY <2>1, <2>2
<1>2. \A j \in DOMAIN ws : ws[j].offset = IF j = 1 THEN v.offset ELSE End(ws[j - 1])
  <2> SUFFICES ASSUME NEW j \in DOMAIN ws, j # 1 PROVE ws[j].offset = End(ws[j - 1])
    BY <1>0
  <2>1. CASE j = 2
    BY <1>0, <2>1 DEF Laid
  <2>2. CASE j # 2
    <3>1. j - 1 \in DOMAIN ws /\ j - 1 # 1 /\ j - 2 \in DOMAIN vs /\ j - 1 \in DOMAIN vs
          /\ (j - 1) - 1 = j - 2
      BY <1>0, <2>2
    <3> QED BY <1>0, <2>2, <3>1 DEF Laid
  <2> QED BY <2>1, <2>2
<1>3. to = End(ws[Len(ws)])
  <2>1. CASE vs = <<>>
    BY <1>0, <2>1 DEF Laid
  <2>2. CASE vs # <<>>
    <3>1. Len(ws) # 1 /\ Len(ws) - 1 = Len(vs) /\ Len(ws) \in DOMAIN ws
      BY <1>0, <2>2
    <3> QED BY <1>0, <2>2, <3>1 DEF Laid
  <2> QED BY <2>1, <2>2
<1> QED BY <1>0, <1>1, <1>2, <1>3 DEF Laid

-----------------------------------------------------------------------------
(* The inductive invariant. *)

ArgsEnd == IF argVars = <<>> THEN 0 ELSE End(argVars[Len(argVars)])

\* The arguments fill the first slots and the locals those that follow.
VarsInv ==
    IF phase = "args" THEN Laid(argVars, 0, base) /\ localVars = <<>>
                      ELSE Laid(argVars, 0, ArgsEnd) /\ Laid(localVars, ArgsEnd, base)

IsSeq(s) == \E S : s \in Seq(S)

\* An instruction is about variables, and they lie within the frame.
Placed(inst, limit) ==
    /\ \A j \in DOMAIN inst.src : inst.src[j] \in Slotted
    /\ \A j \in DOMAIN inst.dst : inst.dst[j] \in Slotted
    /\ inst.op = "InitLocals" => inst.of.from + inst.of.size \in Nat
    /\ inst.op \in Calls => inst.of.frame + inst.of.total \in Nat
    /\ Within(inst, limit)

CodeInv ==
    /\ IsSeq(hl)
    /\ \A k \in DOMAIN hl : Placed(hl[k], FrameTop)
    /\ phase \in {"args", "locals", "blocks"} => hl = <<>>

StackInv == Laid(stack, base, top) /\ top <= FrameTop

\* What a branch hands over fits the frame as well.
HandedInv ==
    /\ inStack = [b \in Blocks |-> inStack[b]]
    /\ \A b \in Blocks : /\ DOMAIN inStack[b] = {"inited", "vars", "top"}
                         /\ Laid(inStack[b].vars, base, inStack[b].top)
                         /\ inStack[b].top <= FrameTop

\* Parameters that a call has popped lie where the stack was.
ParamsInv ==
    /\ Laid(params, top, top + ParamSlots)
    /\ top + ParamSlots <= FrameTop
    /\ params # <<>> => InBody /\ Instr.op \in Calls

BodyInv ==
    /\ Splits \subseteq 1..CodeEnd
    /\ il \in Nat \ {0}
    /\ base <= maxStack
    /\ StackInv /\ HandedInv /\ ParamsInv

IInv ==
    /\ method \in Methods /\ base \in Nat /\ maxStack \in Nat
    /\ VarsInv /\ CodeInv
    /\ phase \in {"args", "locals", "blocks"} => params = <<>>
    /\ phase = "body" => BodyInv

-----------------------------------------------------------------------------
(* Blocks and frames. *)

LEMMA CodeEndNat ==
  ASSUME method \in Methods
  PROVE  CodeEnd \in Nat \ {0} /\ DOMAIN Body = 1..(CodeEnd - 1)
  BY MethodAssumption DEF CodeEnd, Body

LEMMA MinExists ==
  ASSUME NEW S, S \subseteq Nat, S # {}
  PROVE  \E n \in S : \A s \in S : n <= s
<1>1. IsWellFoundedOn(OpToRel(<, Nat), Nat)
  BY NatLessThanWellFounded
<1>2. PICK n \in S : \A s \in S : ~ (<<s, n>> \in OpToRel(<, Nat))
  BY <1>1, WFMin
<1>3. \A s \in S : ~ (s < n)
  BY <1>2 DEF OpToRel
<1> QED BY <1>3

LEMMA BlocksBounded ==
  ASSUME method \in Methods, Splits \subseteq 1..CodeEnd
  PROVE  Blocks \subseteq 1..CodeEnd /\ 1 \in Blocks
  BY CodeEndNat DEF Blocks

LEMMA NextBlockIn ==
  ASSUME method \in Methods, Splits \subseteq 1..CodeEnd, NEW b, LaterBlocks(b) # {}
  PROVE  NextBlock(b) \in Blocks
<1>1. LaterBlocks(b) \subseteq Nat
  BY BlocksBounded, CodeEndNat DEF LaterBlocks
<1>2. \E n \in LaterBlocks(b) : \A s \in LaterBlocks(b) : n <= s
  BY <1>1, MinExists
<1> QED BY <1>2 DEF NextBlock, LaterBlocks

LEMMA InstrInBody ==
  ASSUME method \in Methods, Splits \subseteq 1..CodeEnd, il \in Nat \ {0}, InBody
  PROVE  il \in DOMAIN Body
<1>1. BlockEnd(bb) \in 1..CodeEnd
  BY BlocksBounded, NextBlockIn, CodeEndNat DEF BlockEnd
<1> QED BY <1>1, CodeEndNat DEF InBody

LEMMA BlocksSame ==
  ASSUME method' = method
  PROVE  Blocks' = Blocks /\ Splits' = Splits /\ CodeEnd' = CodeEnd
  BY DEF Blocks, Splits, SplitsAt, Clauses, Body, CodeEnd

LEMMA FrameTopNat ==
  ASSUME base \in Nat, maxStack \in Nat
  PROVE  FrameTop \in Nat /\ maxStack <= FrameTop /\ base < FrameTop
  BY DEF FrameTop, LargerOf

LEMMA FrameTopGrows ==
  ASSUME base \in Nat, maxStack \in Nat, maxStack' \in Nat, base' = base, maxStack <= maxStack'
  PROVE  FrameTop' \in Nat /\ FrameTop <= FrameTop' /\ maxStack' <= FrameTop'
  BY DEF FrameTop, LargerOf

-----------------------------------------------------------------------------
(* Emitted code. *)

LEMMA PlacedLower ==
  ASSUME NEW inst, NEW m \in Nat, NEW n \in Nat, m <= n, Placed(inst, m)
  PROVE  Placed(inst, n)
  BY EndNat DEF Placed, Within

LEMMA Concatenated ==
  ASSUME NEW s, NEW t, IsSeq(s), IsSeq(t)
  PROVE  /\ IsSeq(s \o t)
         /\ \A k \in DOMAIN (s \o t) :
              \/ k \in DOMAIN s /\ (s \o t)[k] = s[k]
              \/ k - Len(s) \in DOMAIN t /\ (s \o t)[k] = t[k - Len(s)]
<1>1. PICK S : s \in Seq(S)
  BY DEF IsSeq
<1>2. PICK T : t \in Seq(T)
  BY DEF IsSeq
<1>3. s \in Seq(S \cup T) /\ t \in Seq(S \cup T)
  BY <1>1, <1>2
<1>4. s \o t \in Seq(S \cup T)
  BY <1>3
<1>5. /\ DOMAIN s = 1..Len(s) /\ DOMAIN t = 1..Len(t) /\ Len(s) \in Nat /\ Len(t) \in Nat
      /\ DOMAIN (s \o t) = 1..(Len(s) + Len(t))
      /\ \A k \in 1..(Len(s) + Len(t)) :
            (s \o t)[k] = IF k <= Len(s) THEN s[k] ELSE t[k - Len(s)]
  BY <1>3
<1> QED BY <1>4, <1>5 DEF IsSeq

LEMMA CodeGrows ==
  ASSUME base \in Nat, maxStack \in Nat, maxStack' \in Nat, base' = base, maxStack <= maxStack',
         CodeInv, phase' = "body",
         NEW insts, IsSeq(insts), \A k \in DOMAIN insts : Placed(insts[k], FrameTop'),
         hl' = hl \o insts
  PROVE  CodeInv'
<1>1. \A k \in DOMAIN hl : Placed(hl[k], FrameTop')
  BY FrameTopNat, FrameTopGrows, PlacedLower DEF CodeInv
<1>2. IsSeq(hl \o insts)
      /\ \A k \in DOMAIN (hl \o insts) :
              \/ k \in DOMAIN hl /\ (hl \o insts)[k] = hl[k]
              \/ k - Len(hl) \in DOMAIN insts /\ (hl \o insts)[k] = insts[k - Len(hl)]
  BY Concatenated DEF CodeInv
<1>3. \A k \in DOMAIN (hl \o insts) : Placed((hl \o insts)[k], FrameTop')
  BY <1>1, <1>2
<1> QED BY <1>2, <1>3 DEF CodeInv

LEMMA OneSeq == ASSUME NEW x PROVE IsSeq(<<x>>) /\ DOMAIN <<x>> = {1} /\ <<x>>[1] = x
<1>1. <<x>> \in Seq({x})
  OBVIOUS
<1>2. DOMAIN <<x>> = {1} /\ <<x>>[1] = x
  OBVIOUS
<1>3. IsSeq(<<x>>)
  BY <1>1 DEF IsSeq
<1> QED BY <1>2, <1>3

LEMMA NoSeq == IsSeq(<<>>) /\ DOMAIN <<>> = {}
<1>1. <<>> \in Seq({})
  OBVIOUS
<1> QED BY <1>1 DEF IsSeq

LEMMA PlacedInst ==
  ASSUME NEW op, op # "InitLocals", op \notin Calls, NEW of, NEW srcs, NEW dsts, NEW limit \in Nat,
         \A j \in DOMAIN srcs : srcs[j] \in Slotted /\ End(srcs[j]) <= limit,
         \A j \in DOMAIN dsts : dsts[j] \in Slotted /\ End(dsts[j]) <= limit
  PROVE  Placed(Inst(op, of, srcs, dsts), limit)
  BY DEF Placed, Within, Inst

-----------------------------------------------------------------------------
(* The simulated stack. *)

LEMMA StackRow ==
  ASSUME base \in Nat, Laid(stack, base, top), NEW k \in 0..3, k <= Len(stack)
  PROVE  /\ Laid(Below(k), base, TopBelow(k))
         /\ TopBelow(k) \in Nat /\ base <= TopBelow(k) /\ TopBelow(k) <= top
         /\ \A j \in 1..k : /\ FromTop(j) \in Slotted /\ End(FromTop(j)) <= top
                            /\ TopBelow(k) <= FromTop(j).offset
<1>1. /\ stack \in Seq(Slotted) /\ Len(stack) \in Nat /\ DOMAIN stack = 1..Len(stack)
      /\ top \in Nat /\ base <= top
  BY LaidRow DEF Laid
<1>2. \A j \in 1..k : FromTop(j) \in Slotted /\ End(FromTop(j)) <= top
  BY <1>1, LaidRow DEF FromTop
<1>3. k # 0 => TopBelow(k) = FromTop(k).offset
  <2>1. \A j \in 2..k : End(FromTop(j)) = FromTop(j - 1).offset
    <3> SUFFICES ASSUME NEW j \in 2..k PROVE End(FromTop(j)) = FromTop(j - 1).offset
      OBVIOUS
    <3>1. PICK n \in DOMAIN stack : n = Len(stack) + 1 - (j - 1) /\ n # 1 /\ n - 1 = Len(stack) + 1 - j
      BY <1>1
    <3>2. stack[n].offset = IF n = 1 THEN base ELSE End(stack[n - 1])
      BY DEF Laid
    <3> QED BY <3>1, <3>2 DEF FromTop
  <2>2. k # 0 => End(FromTop(1)) = top
    BY <1>1, EmptySeq DEF Laid, FromTop
  <2>3. \A j \in 1..k : FromTop(j).offset = End(FromTop(j)) - FromTop(j).size
    BY <1>2, EndNat DEF End
  <2>4. CASE k = 1
    BY <2>2, <2>3, <2>4 DEF TopBelow
  <2>5. CASE k = 2
    <3>1. FromTop(2).offset = FromTop(1).offset - FromTop(2).size /\ FromTop(1).offset = top - FromTop(1).size
      BY <2>1, <2>2, <2>3, <2>5
    <3> QED BY <3>1, <2>5 DEF TopBelow
  <2>6. CASE k = 3
    <3>1. /\ FromTop(3).offset = FromTop(2).offset - FromTop(3).size
          /\ FromTop(2).offset = FromTop(1).offset - FromTop(2).size
          /\ FromTop(1).offset = top - FromTop(1).size
      BY <2>1, <2>2, <2>3, <2>6
    <3> QED BY <3>1, <2>6 DEF TopBelow
  <2> QED BY <2>4, <2>5, <2>6
<1>4. Laid(Below(k), base, TopBelow(k))
  <2>1. CASE k = 0
    <3>1. Below(0) = stack
      BY <1>1 DEF Below
    <3> QED BY <3>1, <2>1 DEF TopBelow
  <2>2. CASE k # 0
    BY <2>2, <1>3, LaidPop DEF Below, FromTop
  <2> QED BY <2>1, <2>2
<1>5. TopBelow(k) \in Nat /\ base <= TopBelow(k)
  BY <1>4, LaidRow
<1>6. \A j \in 1..k : TopBelow(k) <= FromTop(j).offset
  <2> SUFFICES ASSUME NEW j \in 1..k PROVE TopBelow(k) <= FromTop(j).offset
    OBVIOUS
  <2>1. CASE j = k
    BY <2>1, <1>3, <1>2, EndNat
  <2>2. CASE j # k
    <3>1. End(FromTop(k)) <= FromTop(j).offset
      BY <1>1, <2>2 DEF Laid, ApartWithin, FromTop
    <3> QED BY <3>1, <1>2, <1>3, EndNat
  <2> QED BY <2>1, <2>2
<1>7. TopBelow(k) <= top
  <2>1. CASE k = 0
    BY <1>1, <2>1 DEF TopBelow
  <2>2. CASE k # 0
    <3>1. TopBelow(k) <= FromTop(1).offset /\ FromTop(1) \in Slotted /\ End(FromTop(1)) <= top
      BY <1>2, <1>6, <2>2
    <3> QED BY <3>1, <1>1, <1>5, EndNat
  <2> QED BY <2>1, <2>2
<1> QED BY <1>2, <1>4, <1>5, <1>6, <1>7

Pushable(pushed, k) ==
    pushed = <<>> \/ \E v \in Slotted : pushed = <<v>> /\ v.offset = TopBelow(k)

LEMMA Room ==
  ASSUME base \in Nat, maxStack \in Nat, StackInv, base' = base,
         NEW k \in 0..3, k <= Len(stack),
         NEW pushed, Pushable(pushed, k), NEW insts, Simulate(k, pushed, insts)
  PROVE  /\ maxStack' \in Nat /\ maxStack <= maxStack'
         /\ FrameTop' \in Nat /\ FrameTop <= FrameTop'
         /\ StackInv'
         /\ \A j \in DOMAIN pushed : pushed[j] \in Slotted /\ End(pushed[j]) <= FrameTop'
         /\ top \in Nat /\ top <= FrameTop'
<1>1. /\ Laid(Below(k), base, TopBelow(k)) /\ TopBelow(k) \in Nat /\ TopBelow(k) <= top
      /\ top \in Nat /\ FrameTop \in Nat /\ top <= FrameTop
  BY StackRow, LaidRow, FrameTopNat DEF StackInv
<1>2. CASE pushed = <<>>
  <2>1. stack' = Below(k) /\ top' = TopBelow(k) /\ maxStack' = maxStack
    <3>1. Below(k) \o <<>> = Below(k)
      BY <1>1 DEF Laid
    <3> QED BY <1>2, <3>1 DEF Simulate
  <2>2. FrameTop' = FrameTop
    BY <2>1 DEF FrameTop, LargerOf
  <2> QED BY <1>1, <1>2, <2>1, <2>2 DEF StackInv
<1>3. CASE pushed # <<>>
  <2>1. PICK v \in Slotted : pushed = <<v>> /\ v.offset = TopBelow(k)
    BY <1>3 DEF Pushable
  <2>2. pushed[1] = v /\ DOMAIN pushed = {1} /\ Below(k) \o pushed = Append(Below(k), v)
    <3>1. Below(k) \in Seq(Slotted)
      BY <1>1 DEF Laid
    <3> QED BY <2>1, <3>1, OneSeq, AppendIsConcat
  <2>3. /\ stack' = Append(Below(k), v) /\ top' = TopBelow(k) + v.size
        /\ maxStack' = LargerOf(maxStack, TopBelow(k) + v.size)
    BY <1>3, <2>2 DEF Simulate
  <2>4. Laid(stack', base, top')
    BY <1>1, <2>1, <2>3, LaidPush
  <2>5. top' = End(v) /\ top' \in Nat
    BY <1>1, <2>1, <2>3, EndNat DEF End
  <2>6. maxStack' \in Nat /\ maxStack <= maxStack' /\ top' <= maxStack'
    BY <2>3, <2>5 DEF LargerOf
  <2>7. FrameTop' \in Nat /\ FrameTop <= FrameTop' /\ maxStack' <= FrameTop'
    BY <2>6, FrameTopGrows
  <2>8. top' <= FrameTop' /\ top <= FrameTop'
    BY <1>1, <2>5, <2>6, <2>7
  <2> QED BY <1>1, <2>1, <2>2, <2>4, <2>5, <2>6, <2>7, <2>8 DEF StackInv
<1> QED BY <1>2, <1>3

-----------------------------------------------------------------------------
(* What an instruction leaves to show. *)

LEMMA Assembled ==
  ASSUME IInv, phase = "body", Keeps, il' \in {il, il + 1},
         maxStack' \in Nat, maxStack <= maxStack',
         StackInv', CodeInv', HandedInv', ParamsInv'
  PROVE  IInv'
<1>1. /\ method' = method /\ base' = base /\ phase' = "body" /\ UNCHANGED <<argVars, localVars>>
      /\ method \in Methods /\ base \in Nat /\ maxStack \in Nat
  BY DEF Keeps, IInv
<1>2. VarsInv'
  BY <1>1 DEF IInv, VarsInv, ArgsEnd
<1>3. BodyInv'
  <2>1. (Splits \subseteq 1..CodeEnd)'
    BY <1>1, BlocksSame DEF IInv, BodyInv
  <2>2. il' \in Nat \ {0} /\ base' <= maxStack'
    BY <1>1 DEF IInv, BodyInv
  <2> QED BY <2>1, <2>2 DEF BodyInv
<1> QED BY <1>1, <1>2, <1>3 DEF IInv

LEMMA HandedSame ==
  ASSUME HandedInv, UNCHANGED <<method, base, inStack>>, base \in Nat,
         FrameTop \in Nat, FrameTop' \in Nat, FrameTop <= FrameTop'
  PROVE  HandedInv'
<1>1. Blocks' = Blocks
  BY BlocksSame
<1>2. \A b \in Blocks : inStack[b].top \in Nat /\ inStack[b].top <= FrameTop
  BY LaidRow DEF HandedInv
<1>3. \A b \in Blocks : inStack[b].top <= FrameTop'
  BY <1>2
<1> QED BY <1>1, <1>3 DEF HandedInv

\* setup_target_branch_eval_stack
LEMMA HandedOver ==
  ASSUME HandedInv, UNCHANGED <<method, base>>, base \in Nat,
         FrameTop \in Nat, FrameTop' \in Nat, FrameTop <= FrameTop',
         NEW bs, NEW vs, NEW t, HandOver(bs, vs, t),
         Laid(vs, base, t), t <= FrameTop'
  PROVE  HandedInv'
<1>1. Blocks' = Blocks /\ base' = base
  BY BlocksSame
<1>2. \A b \in Blocks : inStack[b].top \in Nat /\ inStack[b].top <= FrameTop
  BY LaidRow DEF HandedInv
<1>3. \A b \in Blocks : inStack[b].top <= FrameTop'
  BY <1>2
<1>4. \A b \in Blocks : \/ inStack'[b] = inStack[b]
                        \/ inStack'[b].vars = vs /\ inStack'[b].top = t
  BY DEF HandOver
<1>a. \A b \in Blocks : DOMAIN inStack'[b] = {"inited", "vars", "top"}
  BY DEF HandOver, HandedInv
<1>5. inStack' = [b \in Blocks |-> inStack'[b]]
  BY DEF HandOver
<1>6. \A b \in Blocks : Laid(inStack'[b].vars, base, inStack'[b].top) /\ inStack'[b].top <= FrameTop'
  BY <1>3, <1>4 DEF HandedInv
<1> QED BY <1>1, <1>a, <1>5, <1>6 DEF HandedInv

LEMMA ParamsNone ==
  ASSUME base' = base, base \in Nat, StackInv', params' = <<>>
  PROVE  ParamsInv'
<1>1. top' \in Nat /\ ParamSlots' = 0
  BY LaidRow DEF StackInv, ParamSlots
<1>2. Laid(<<>>, top', top')
  BY LaidEmpty
<1> QED BY <1>1, <1>2 DEF ParamsInv, StackInv

\* k pops, perhaps a push, and code that stays in the frame.
LEMMA StepKeeps ==
  ASSUME IInv, InBody, Keeps, NEW k \in 0..3, k <= Len(stack),
         NEW pushed, Pushable(pushed, k), NEW insts, IsSeq(insts), Simulate(k, pushed, insts),
         \A j \in DOMAIN insts : Placed(insts[j], FrameTop')
  PROVE  /\ phase = "body"
         /\ maxStack' \in Nat /\ maxStack <= maxStack'
         /\ StackInv' /\ CodeInv'
         /\ base \in Nat /\ FrameTop \in Nat /\ FrameTop' \in Nat /\ FrameTop <= FrameTop'
<1>1. /\ phase = "body" /\ phase' = "body" /\ base \in Nat /\ maxStack \in Nat /\ StackInv /\ CodeInv
      /\ base' = base /\ FrameTop \in Nat
  BY FrameTopNat DEF IInv, BodyInv, InBody, Keeps
<1>2. /\ maxStack' \in Nat /\ maxStack <= maxStack' /\ StackInv'
      /\ FrameTop' \in Nat /\ FrameTop <= FrameTop'
  BY <1>1, Room
<1>3. hl' = hl \o insts
  BY DEF Simulate
<1>4. CodeInv'
  BY <1>1, <1>2, <1>3, CodeGrows
<1> QED BY <1>1, <1>2, <1>4

\* An instruction that is no call and no branch.
LEMMA Ordinary ==
  ASSUME IInv, InBody, Instr.op \notin Calls, Keeps, Next1, UNCHANGED <<inStack, params>>,
         NEW k \in 0..3, k <= Len(stack), NEW pushed, Pushable(pushed, k),
         NEW insts, IsSeq(insts), Simulate(k, pushed, insts),
         \A j \in DOMAIN insts : Placed(insts[j], FrameTop')
  PROVE  IInv'
<1>1. /\ phase = "body" /\ maxStack' \in Nat /\ maxStack <= maxStack' /\ StackInv' /\ CodeInv'
      /\ base \in Nat /\ FrameTop \in Nat /\ FrameTop' \in Nat /\ FrameTop <= FrameTop'
  BY StepKeeps
<1>2. HandedInv /\ ParamsInv /\ UNCHANGED <<method, base, inStack>>
  BY <1>1 DEF IInv, BodyInv, Keeps
<1>3. HandedInv'
  BY <1>1, <1>2, HandedSame
<1>4. ParamsInv'
  BY <1>1, <1>2, ParamsNone DEF ParamsInv
<1> QED BY <1>1, <1>3, <1>4, Assembled DEF Next1

\* Sources that may be read: variables in the frame.
Readable(srcs) == \A j \in DOMAIN srcs : srcs[j] \in Slotted /\ End(srcs[j]) <= FrameTop

LEMMA PlacedAfter ==
  ASSUME IInv, InBody, Keeps, NEW k \in 0..3, k <= Len(stack),
         NEW pushed, Pushable(pushed, k), NEW insts, Simulate(k, pushed, insts),
         NEW op, op # "InitLocals", op \notin Calls, NEW of,
         NEW srcs, Readable(srcs), NEW dsts, dsts = pushed \/ Readable(dsts)
  PROVE  Placed(Inst(op, of, srcs, dsts), FrameTop')
<1>1. base \in Nat /\ maxStack \in Nat /\ StackInv /\ base' = base /\ FrameTop \in Nat
  BY FrameTopNat DEF IInv, BodyInv, InBody, Keeps
<1>2. /\ FrameTop' \in Nat /\ FrameTop <= FrameTop'
      /\ \A j \in DOMAIN pushed : pushed[j] \in Slotted /\ End(pushed[j]) <= FrameTop'
  BY <1>1, Room
<1>3. \A j \in DOMAIN srcs : srcs[j] \in Slotted /\ End(srcs[j]) <= FrameTop'
  BY <1>1, <1>2, EndNat DEF Readable
<1>4. \A j \in DOMAIN dsts : dsts[j] \in Slotted /\ End(dsts[j]) <= FrameTop'
  BY <1>1, <1>2, EndNat DEF Readable
<1> QED BY <1>2, <1>3, <1>4, PlacedInst

\* It emits one instruction.
LEMMA OneInst ==
  ASSUME IInv, InBody, Instr.op \notin Calls, Keeps, Next1, UNCHANGED <<inStack, params>>,
         NEW k \in 0..3, k <= Len(stack), NEW pushed, Pushable(pushed, k),
         NEW op, op # "InitLocals", op \notin Calls, NEW of,
         NEW srcs, Readable(srcs), NEW dsts, dsts = pushed \/ Readable(dsts),
         Simulate(k, pushed, <<Inst(op, of, srcs, dsts)>>)
  PROVE  IInv'
<1> DEFINE inst == Inst(op, of, srcs, dsts)
<1>1. Placed(inst, FrameTop')
  BY PlacedAfter
<1> HIDE DEF inst
<1>2. IsSeq(<<inst>>) /\ \A j \in DOMAIN <<inst>> : Placed(<<inst>>[j], FrameTop')
  BY <1>1, OneSeq
<1>3. Simulate(k, pushed, <<inst>>)
  BY DEF inst
<1> QED BY <1>2, <1>3, Ordinary

-----------------------------------------------------------------------------
(* Operands and results. *)

LEMMA OperandRow ==
  ASSUME IInv, InBody, NEW k \in 0..3, k <= Len(stack)
  PROVE  /\ TopBelow(k) \in Nat /\ TopBelow(k) <= FrameTop /\ base \in Nat /\ Len(stack) \in Nat
         /\ Laid(Below(k), base, TopBelow(k))
         /\ \A j \in 1..k : /\ FromTop(j) \in Slotted /\ End(FromTop(j)) <= FrameTop
                            /\ FromTop(j).data \in DataTypes
<1>1. base \in Nat /\ maxStack \in Nat /\ FrameTop \in Nat /\ Laid(stack, base, top) /\ top <= FrameTop
  BY FrameTopNat DEF IInv, BodyInv, InBody, StackInv
<1>2. top \in Nat /\ Len(stack) \in Nat
  BY <1>1, LaidRow DEF Laid
<1>3. \A j \in 1..k : FromTop(j) \in Slotted /\ End(FromTop(j)) <= top
  BY <1>1, StackRow
<1>4. \A j \in 1..k : End(FromTop(j)) <= FrameTop /\ FromTop(j).data \in DataTypes
  BY <1>1, <1>2, <1>3, EndNat
<1>5. Laid(Below(k), base, TopBelow(k)) /\ TopBelow(k) \in Nat /\ TopBelow(k) <= top
  BY <1>1, StackRow
<1>6. TopBelow(k) <= FrameTop
  BY <1>1, <1>2, <1>5
<1>7. \A j \in 1..k : /\ FromTop(j) \in Slotted /\ End(FromTop(j)) <= FrameTop
                     /\ FromTop(j).data \in DataTypes
  BY <1>3, <1>4
<1> QED BY <1>1, <1>2, <1>5, <1>6, <1>7

LEMMA VarsReadable ==
  ASSUME IInv, InBody
  PROVE  Readable(argVars) /\ Readable(localVars)
<1>1. /\ Laid(argVars, 0, ArgsEnd) /\ Laid(localVars, ArgsEnd, base)
      /\ base \in Nat /\ FrameTop \in Nat /\ base <= FrameTop
  BY FrameTopNat DEF IInv, VarsInv, InBody
<1>2. ArgsEnd \in Nat /\ \A j \in DOMAIN argVars : argVars[j] \in Slotted /\ End(argVars[j]) <= ArgsEnd
  BY <1>1, LaidRow
<1>3. ArgsEnd <= base /\ \A j \in DOMAIN localVars : localVars[j] \in Slotted /\ End(localVars[j]) <= base
  BY <1>1, <1>2, LaidRow
<1> QED BY <1>1, <1>2, <1>3, EndNat DEF Readable

LEMMA ReadableNames ==
  ASSUME IInv, InBody, NEW k \in 0..3, k <= Len(stack)
  PROVE  Readable(Names(k))
<1>1. \A j \in 1..k : k + 1 - j \in 1..k
  OBVIOUS
<1>2. \A j \in 1..k : FromTop(j) \in Slotted /\ End(FromTop(j)) <= FrameTop
  BY OperandRow
<1>3. DOMAIN Names(k) = 1..k /\ \A j \in 1..k : Names(k)[j] = FromTop(k + 1 - j)
  BY DEF Names
<1> QED BY <1>1, <1>2, <1>3 DEF Readable

LEMMA ReadableOne ==
  ASSUME NEW v \in Slotted, End(v) <= FrameTop
  PROVE  Readable(<<v>>)
  BY OneSeq DEF Readable

LEMMA ReadableTwo ==
  ASSUME NEW u \in Slotted, End(u) <= FrameTop, NEW v \in Slotted, End(v) <= FrameTop
  PROVE  Readable(<<u, v>>)
<1>1. DOMAIN <<u, v>> = {1, 2} /\ <<u, v>>[1] = u /\ <<u, v>>[2] = v
  OBVIOUS
<1> QED BY <1>1 DEF Readable

LEMMA ReadableNone == Readable(<<>>)
  BY NoSeq DEF Readable

LEMMA PushNone == ASSUME NEW k PROVE Pushable(<<>>, k)
  BY DEF Pushable

LEMMA PushVar ==
  ASSUME NEW k, TopBelow(k) \in Nat, NEW r \in ReduceTypes
  PROVE  Pushable(<<Var(r, TopBelow(k))>>, k)
  BY VarSlotted DEF Pushable

LEMMA PushResult ==
  ASSUME NEW k, TopBelow(k) \in Nat, NEW data \in DataTypes
  PROVE  Pushable(<<Result(k, data)>>, k)
  BY PrimitiveSlotted DEF Pushable, Result

LEMMA InstrTyped ==
  ASSUME IInv, InBody
  PROVE  /\ Instr.op \in {"LdObj", "Ldfld", "Ldsfld"} => Instr.type \in ReduceTypes
         /\ Instr.op \in Calls => /\ Instr.params \in Seq(ReduceTypes)
                                  /\ Instr.ret \in ReduceTypes \cup {"Void"}
         /\ Instr.op = "NewObj" => Instr.ret # "Void"
         /\ Instr.op = "CallVirt" /\ Instr.constrained => Instr.params # <<>>
<1>1. method \in Methods /\ il \in DOMAIN Body
  BY InstrInBody DEF IInv, BodyInv, InBody
<1> QED BY <1>1, MethodAssumption DEF Instr, Body

LEMMA EmitKeeps ==
  ASSUME IInv, InBody, Instr.op \notin Calls, Instr.op # "InitLocals",
         NEW k \in 0..3, k <= Len(stack), NEW pushed, Pushable(pushed, k), Emit(k, pushed)
  PROVE  IInv'
<1>1. /\ Keeps /\ Next1 /\ UNCHANGED <<inStack, params>>
      /\ Simulate(k, pushed, <<Inst(Instr.op, Instr, Names(k), pushed)>>)
  BY DEF Emit
<1> QED BY <1>1, OneInst, ReadableNames

LEMMA StackHeight ==
  ASSUME IInv, InBody
  PROVE  stack # <<>> => 1 <= Len(stack)
<1>1. stack \in Seq(Slotted)
  BY DEF IInv, BodyInv, InBody, StackInv, Laid
<1> QED BY <1>1, EmptySeq

-----------------------------------------------------------------------------
(* One lemma for each action of the transformer. *)

LEMMA LoadOrStoreInv == ASSUME IInv, LoadOrStore PROVE IInv'
<1>0. InBody /\ Keeps /\ Next1 /\ UNCHANGED <<inStack, params>>
  BY DEF LoadOrStore
<1>1. 0 <= Len(stack) /\ TopBelow(0) = top /\ TopBelow(0) \in Nat
  <2>1. Len(stack) \in Nat
    BY <1>0 DEF IInv, BodyInv, InBody, StackInv, Laid
  <2>2. 0 \in 0..3 /\ 0 <= Len(stack)
    BY <2>1
  <2>3. TopBelow(0) \in Nat
    BY <1>0, <2>2, OperandRow
  <2> QED BY <2>2, <2>3 DEF TopBelow
<1>2. ASSUME NEW v \in Slotted, End(v) <= FrameTop, Load(v), Instr.op \notin Calls \cup {"InitLocals"}
      PROVE  IInv'
  <2> DEFINE dst == [v EXCEPT !.offset = top]
  <2>1. Pushable(<<dst>>, 0)
    BY <1>1, MovedSlotted DEF Pushable
  <2>2. Simulate(0, <<dst>>, <<Inst(Instr.op, Instr, <<v>>, <<dst>>)>>)
    BY <1>2 DEF Load
  <2> HIDE DEF dst
  <2> QED BY <1>0, <1>1, <1>2, <2>1, <2>2, OneInst, ReadableOne
<1>3. ASSUME NEW v \in Slotted, End(v) <= FrameTop, stack # <<>>, StoreTo(v),
             Instr.op \notin Calls \cup {"InitLocals"}
      PROVE  IInv'
  <2>1. 1 <= Len(stack) /\ FromTop(1) \in Slotted /\ End(FromTop(1)) <= FrameTop
    BY <1>0, <1>3, StackHeight, OperandRow
  <2>2. Readable(<<FromTop(1)>>) /\ Readable(<<v>>) /\ Pushable(<<>>, 1)
    BY <1>3, <2>1, ReadableOne, PushNone
  <2> QED BY <1>0, <1>3, <2>1, <2>2, OneInst DEF StoreTo
<1>4. ASSUME NEW data \in DataTypes, Constant(data), Instr.op \notin Calls \cup {"InitLocals"}
      PROVE  IInv'
  <2>1. Pushable(<<Primitive(data, top)>>, 0)
    BY <1>1, PrimitiveSlotted DEF Pushable
  <2>2. Simulate(0, <<Primitive(data, top)>>, <<Inst(Instr.op, Instr, <<>>, <<Primitive(data, top)>>)>>)
    BY <1>4 DEF Constant
  <2> QED BY <1>0, <1>1, <1>4, <2>1, <2>2, OneInst, ReadableNone
<1>5. ASSUME NEW k \in 0..1, k <= Len(stack), Simulate(k, <<>>, <<>>), Instr.op \notin Calls
      PROVE  IInv'
  <2>1. Pushable(<<>>, k) /\ k \in 0..3
    BY PushNone
  <2>2. IsSeq(<<>>) /\ \A j \in DOMAIN <<>> : Placed(<<>>[j], FrameTop')
    BY NoSeq
  <2> QED BY <1>0, <1>5, <2>1, <2>2, Ordinary
<1>6. \A n \in DOMAIN argVars : argVars[n] \in Slotted /\ End(argVars[n]) <= FrameTop
  BY <1>0, VarsReadable DEF Readable
<1>7. \A n \in DOMAIN localVars : localVars[n] \in Slotted /\ End(localVars[n]) <= FrameTop
  BY <1>0, VarsReadable DEF Readable
<1>8. stack # <<>> => 1 <= Len(stack) /\ FromTop(1) \in Slotted /\ End(FromTop(1)) <= FrameTop
  BY <1>0, StackHeight, OperandRow
<1> USE DEF Calls
<1>10. CASE Instr.op = "LdArg" /\ Instr.n \in DOMAIN argVars /\ Load(argVars[Instr.n])
  BY <1>10, <1>2, <1>6
<1>11. CASE Instr.op = "LdLoc" /\ Instr.n \in DOMAIN localVars /\ Load(localVars[Instr.n])
  BY <1>11, <1>2, <1>7
<1>12. CASE Instr.op = "Dup" /\ stack # <<>> /\ Load(FromTop(1))
  BY <1>12, <1>2, <1>8
<1>13. CASE Instr.op = "LdcI4" /\ Constant("I4")
  BY <1>13, <1>4 DEF DataTypes
<1>14. CASE Instr.op = "LdcI8" /\ Constant("I8")
  BY <1>14, <1>4 DEF DataTypes
<1>15. CASE Instr.op = "LdNull" /\ Constant("RefOrPtr")
  BY <1>15, <1>4 DEF DataTypes
<1>16. CASE Instr.op = "StArg" /\ Instr.n \in DOMAIN argVars /\ stack # <<>> /\ StoreTo(argVars[Instr.n])
  BY <1>16, <1>3, <1>6
<1>17. CASE Instr.op = "StLoc" /\ Instr.n \in DOMAIN localVars /\ stack # <<>> /\ StoreTo(localVars[Instr.n])
  BY <1>17, <1>3, <1>7
<1>18. CASE Instr.op = "Nop" /\ Simulate(0, <<>>, <<>>)
  BY <1>18, <1>5, <1>1
<1>19. CASE Instr.op = "Pop" /\ stack # <<>> /\ Simulate(1, <<>>, <<>>)
  BY <1>19, <1>5, <1>8
<1> QED BY <1>10, <1>11, <1>12, <1>13, <1>14, <1>15, <1>16, <1>17, <1>18, <1>19 DEF LoadOrStore

LEMMA TwoOperands ==
  ASSUME IInv, InBody, Len(stack) >= 2
  PROVE  /\ 2 <= Len(stack) /\ 1 <= Len(stack) /\ TopBelow(2) \in Nat
         /\ FromTop(1) \in Slotted /\ End(FromTop(1)) <= FrameTop /\ FromTop(1).data \in DataTypes
         /\ FromTop(2) \in Slotted /\ End(FromTop(2)) <= FrameTop /\ FromTop(2).data \in DataTypes
         /\ Readable(<<FromTop(2), FromTop(1)>>)
<1>1. Len(stack) \in Nat
  BY DEF IInv, BodyInv, InBody, StackInv, Laid
<1>2. 2 \in 0..3 /\ 2 <= Len(stack) /\ 1 <= Len(stack)
  BY <1>1
<1>3. /\ TopBelow(2) \in Nat
      /\ \A j \in 1..2 : /\ FromTop(j) \in Slotted /\ End(FromTop(j)) <= FrameTop
                         /\ FromTop(j).data \in DataTypes
  BY <1>2, OperandRow
<1>4. 1 \in 1..2 /\ 2 \in 1..2
  OBVIOUS
<1> QED BY <1>2, <1>3, <1>4, ReadableTwo

LEMMA OneOperand ==
  ASSUME IInv, InBody, stack # <<>>
  PROVE  /\ 1 <= Len(stack) /\ TopBelow(1) \in Nat
         /\ FromTop(1) \in Slotted /\ End(FromTop(1)) <= FrameTop /\ FromTop(1).data \in DataTypes
         /\ Readable(<<FromTop(1)>>)
<1>1. 1 <= Len(stack)
  BY StackHeight
<1>2. /\ TopBelow(1) \in Nat
      /\ \A j \in 1..1 : /\ FromTop(j) \in Slotted /\ End(FromTop(j)) <= FrameTop
                         /\ FromTop(j).data \in DataTypes
  BY <1>1, OperandRow
<1> QED BY <1>1, <1>2, ReadableOne

LEMMA BinResultTyped ==
  ASSUME NEW left, NEW right
  PROVE  BinResult(left, right) \in DataTypes
  BY DEF BinResult, DataTypes

\* A widened operand keeps its one slot.
LEMMA Widened ==
  ASSUME IInv, InBody, NEW from \in Slotted, NEW to \in Slotted, End(from) <= FrameTop,
         IsPrimitive(from.data), IsPrimitive(to.data)
  PROVE  Readable(<<from>>) /\ Readable(<<[to EXCEPT !.offset = from.offset]>>)
<1> DEFINE v == [to EXCEPT !.offset = from.offset]
<1>1. from.size = 1 /\ to.size = 1 /\ from.offset \in Nat
  BY DEF Slotted
<1>2. v \in Slotted /\ v.offset = from.offset /\ v.size = 1
  BY <1>1, MovedSlotted
<1> HIDE DEF v
<1>3. End(v) = End(from)
  BY <1>1, <1>2 DEF End
<1>4. Readable(<<from>>) /\ Readable(<<v>>)
  BY <1>2, <1>3, ReadableOne
<1> QED BY <1>4 DEF v

LEMMA BinArithInv == ASSUME IInv, BinArith PROVE IInv'
<1> DEFINE left == FromTop(2)
           right == FromTop(1)
           dst == Result(2, BinResult(left.data, right.data))
           wide == Widening(left, right)
           main == Inst(Instr.op, Instr, <<left, right>>, <<dst>>)
<1>0. /\ InBody /\ Keeps /\ Next1 /\ UNCHANGED <<inStack, params>>
      /\ Instr.op \in ArithOps /\ TwoPrimitives /\ Simulate(2, <<dst>>, wide \o <<main>>)
  BY DEF BinArith
<1>1. Instr.op \notin Calls /\ Instr.op # "InitLocals"
  BY <1>0 DEF ArithOps, Calls
<1>2. /\ 2 <= Len(stack) /\ TopBelow(2) \in Nat
      /\ left \in Slotted /\ right \in Slotted /\ End(left) <= FrameTop /\ End(right) <= FrameTop
      /\ left.data \in DataTypes /\ right.data \in DataTypes
      /\ IsPrimitive(left.data) /\ IsPrimitive(right.data)
      /\ Readable(<<left, right>>)
  BY <1>0, TwoOperands DEF TwoPrimitives
<1>3. Pushable(<<dst>>, 2)
  BY <1>2, PushResult, BinResultTyped
<1>4. Placed(main, FrameTop')
  <2> HIDE DEF dst, wide, left, right
  <2>1. Placed(Inst(Instr.op, Instr, <<left, right>>, <<dst>>), FrameTop')
    BY <1>0, <1>1, <1>2, <1>3, PlacedAfter
  <2> QED BY <2>1
<1>5. ASSUME NEW from \in {left, right}, NEW to \in {left, right}
      PROVE  IsSeq(<<Widen(from, to)>>) /\ \A j \in DOMAIN <<Widen(from, to)>> :
                                               Placed(<<Widen(from, to)>>[j], FrameTop')
  <2> HIDE DEF dst, wide, left, right, main
  <2>1. Readable(<<from>>) /\ Readable(<<[to EXCEPT !.offset = from.offset]>>)
    BY <1>0, <1>2, <1>5, Widened
  <2>2. "Conv" # "InitLocals" /\ "Conv" \notin Calls
    BY DEF Calls
  <2>3. Placed(Widen(from, to), FrameTop')
    BY <1>0, <1>2, <1>3, <2>1, <2>2, PlacedAfter DEF Widen
  <2> QED BY <2>3, OneSeq
<1>6. IsSeq(wide) /\ \A j \in DOMAIN wide : Placed(wide[j], FrameTop')
  <2> HIDE DEF dst, left, right, main
  <2>1. CASE left.data = right.data
    <3>1. wide = <<>>
      BY <1>2, <2>1 DEF Widening, ArithRank, DataTypes, IsPrimitive
    <3> QED BY <3>1, NoSeq
  <2>2. CASE left.data # right.data
    <3>1. wide = <<Widen(left, right)>> \/ wide = <<Widen(right, left)>>
      BY <1>2, <2>2 DEF Widening, ArithRank, DataTypes, IsPrimitive
    <3> HIDE DEF wide
    <3>2. CASE wide = <<Widen(left, right)>>
      BY <3>2, <1>5
    <3>3. CASE wide = <<Widen(right, left)>>
      BY <3>3, <1>5
    <3> QED BY <3>1, <3>2, <3>3
  <2> QED BY <2>1, <2>2
<1> HIDE DEF dst, wide, left, right, main
<1>7. IsSeq(<<main>>) /\ \A j \in DOMAIN <<main>> : Placed(<<main>>[j], FrameTop')
  BY <1>4, OneSeq
<1>8. /\ IsSeq(wide \o <<main>>)
      /\ \A j \in DOMAIN (wide \o <<main>>) : Placed((wide \o <<main>>)[j], FrameTop')
  BY <1>6, <1>7, Concatenated
<1> DEFINE insts == wide \o <<main>>
           pushed == <<dst>>
<1>9. IsSeq(insts) /\ Simulate(2, pushed, insts) /\ Pushable(pushed, 2) /\ 2 \in 0..3
      /\ \A j \in DOMAIN insts : Placed(insts[j], FrameTop')
  BY <1>0, <1>3, <1>8
<1> HIDE DEF insts, pushed
<1> QED BY <1>0, <1>1, <1>2, <1>9, Ordinary

LEMMA BinBitInv == ASSUME IInv, BinBit PROVE IInv'
<1> DEFINE dst == Result(2, BinResult(FromTop(2).data, FromTop(1).data))
<1>0. /\ InBody /\ Keeps /\ Next1 /\ UNCHANGED <<inStack, params>>
      /\ Instr.op \in BitOps /\ TwoPrimitives
      /\ Simulate(2, <<dst>>, <<Inst(Instr.op, Instr, <<FromTop(2), FromTop(1)>>, <<dst>>)>>)
  BY DEF BinBit
<1>1. Instr.op \notin Calls /\ Instr.op # "InitLocals"
  BY <1>0 DEF BitOps, Calls
<1>2. 2 <= Len(stack) /\ TopBelow(2) \in Nat /\ Readable(<<FromTop(2), FromTop(1)>>)
  BY <1>0, TwoOperands DEF TwoPrimitives
<1>3. Pushable(<<dst>>, 2)
  BY <1>2, PushResult, BinResultTyped
<1> HIDE DEF dst
<1> QED BY <1>0, <1>1, <1>2, <1>3, OneInst

LEMMA ShiftInv == ASSUME IInv, Shift PROVE IInv'
<1> DEFINE dst == Result(2, FromTop(2).data)
<1>0. /\ InBody /\ Keeps /\ Next1 /\ UNCHANGED <<inStack, params>>
      /\ Instr.op \in ShiftOps /\ TwoPrimitives
      /\ Simulate(2, <<dst>>, <<Inst(Instr.op, Instr, <<FromTop(2), FromTop(1)>>, <<dst>>)>>)
  BY DEF Shift
<1>1. Instr.op \notin Calls /\ Instr.op # "InitLocals"
  BY <1>0 DEF ShiftOps, Calls
<1>2. 2 <= Len(stack) /\ TopBelow(2) \in Nat /\ FromTop(2).data \in DataTypes
      /\ Readable(<<FromTop(2), FromTop(1)>>)
  BY <1>0, TwoOperands DEF TwoPrimitives
<1>3. Pushable(<<dst>>, 2)
  BY <1>2, PushResult
<1> HIDE DEF dst
<1> QED BY <1>0, <1>1, <1>2, <1>3, OneInst

LEMMA UnaryInv == ASSUME IInv, Unary PROVE IInv'
<1> DEFINE dst == Result(1, FromTop(1).data)
<1>0. /\ InBody /\ Keeps /\ Next1 /\ UNCHANGED <<inStack, params>>
      /\ Instr.op \in UnaryOps /\ stack # <<>>
      /\ Simulate(1, <<dst>>, <<Inst(Instr.op, Instr, <<FromTop(1)>>, <<dst>>)>>)
  BY DEF Unary
<1>1. Instr.op \notin Calls /\ Instr.op # "InitLocals"
  BY <1>0 DEF UnaryOps, Calls
<1>2. 1 <= Len(stack) /\ TopBelow(1) \in Nat /\ FromTop(1).data \in DataTypes
      /\ Readable(<<FromTop(1)>>)
  BY <1>0, OneOperand
<1>3. Pushable(<<dst>>, 1)
  BY <1>2, PushResult
<1> HIDE DEF dst
<1> QED BY <1>0, <1>1, <1>2, <1>3, OneInst

LEMMA CompareInv == ASSUME IInv, Compare PROVE IInv'
<1> DEFINE dst == Result(2, "I4")
<1>0. /\ InBody /\ Keeps /\ Next1 /\ UNCHANGED <<inStack, params>>
      /\ Instr.op \in CompareOps /\ TwoPrimitives
      /\ Simulate(2, <<dst>>, <<Inst(Instr.op, Instr, <<FromTop(2), FromTop(1)>>, <<dst>>)>>)
  BY DEF Compare
<1>1. Instr.op \notin Calls /\ Instr.op # "InitLocals"
  BY <1>0 DEF CompareOps, Calls
<1>2. 2 <= Len(stack) /\ TopBelow(2) \in Nat /\ Readable(<<FromTop(2), FromTop(1)>>)
  BY <1>0, TwoOperands DEF TwoPrimitives
<1>3. Pushable(<<dst>>, 2)
  BY <1>2, PushResult DEF DataTypes
<1> HIDE DEF dst
<1> QED BY <1>0, <1>1, <1>2, <1>3, OneInst

LEMMA TopOperand ==
  ASSUME IInv, InBody, stack # <<>>
  PROVE  FromTop(1).offset = TopBelow(1) /\ End(FromTop(1)) = top /\ FromTop(1).size \in Nat
<1>1. Laid(stack, base, top) /\ Len(stack) \in Nat /\ FromTop(1) \in Slotted
  BY OneOperand DEF IInv, BodyInv, InBody, StackInv, Laid
<1>2. Len(stack) + 1 - 1 = Len(stack)
  BY <1>1
<1>3. End(FromTop(1)) = top
  BY <1>1, <1>2 DEF Laid, FromTop
<1>4. TopBelow(1) = top - FromTop(1).size
  BY DEF TopBelow
<1>5. FromTop(1).offset \in Nat /\ FromTop(1).size \in Nat
  BY <1>1, EndNat
<1> QED BY <1>3, <1>4, <1>5 DEF End

LEMMA StackTypeTyped ==
  ASSUME NEW type
  PROVE  StackType(type) \in DataTypes
  BY DEF StackType, DataTypes

LEMMA DataTypeOfTyped ==
  ASSUME NEW reduce
  PROVE  DataTypeOf(reduce) \in DataTypes
  BY DEF DataTypeOf, DataTypes

LEMMA ConvertInv == ASSUME IInv, Convert PROVE IInv'
<1> DEFINE src == FromTop(1)
           dst == Result(1, StackType(Instr.type))
<1>0. /\ InBody /\ Keeps /\ Next1 /\ UNCHANGED <<inStack, params>>
      /\ Instr.op = "Conv" /\ stack # <<>>
      /\ \/ Simulate(1, <<src>>, <<>>)
         \/ Simulate(1, <<dst>>, <<Inst("Conv", Instr, <<src>>, <<dst>>)>>)
  BY DEF Convert
<1>1. Instr.op \notin Calls /\ "Conv" \notin Calls /\ "Conv" # "InitLocals"
  BY <1>0 DEF Calls
<1>2. 1 <= Len(stack) /\ TopBelow(1) \in Nat /\ src \in Slotted /\ Readable(<<src>>)
  BY <1>0, OneOperand
<1>3. Pushable(<<src>>, 1)
  BY <1>0, <1>2, TopOperand DEF Pushable
<1>4. Pushable(<<dst>>, 1)
  BY <1>2, PushResult, StackTypeTyped
<1> HIDE DEF src, dst
<1>5. CASE Simulate(1, <<src>>, <<>>)
  <2> DEFINE pushed == <<src>>
  <2>1. Pushable(pushed, 1) /\ Simulate(1, pushed, <<>>) /\ 1 \in 0..3
    BY <1>3, <1>5
  <2> HIDE DEF pushed
  <2>2. IsSeq(<<>>) /\ \A j \in DOMAIN <<>> : Placed(<<>>[j], FrameTop')
    BY NoSeq
  <2> QED BY <1>0, <1>1, <1>2, <2>1, <2>2, Ordinary
<1>6. CASE Simulate(1, <<dst>>, <<Inst("Conv", Instr, <<src>>, <<dst>>)>>)
  BY <1>0, <1>1, <1>2, <1>4, <1>6, OneInst
<1> QED BY <1>0, <1>5, <1>6

LEMMA AddressOfInv == ASSUME IInv, AddressOf PROVE IInv'
<1> DEFINE dst == Result(0, "RefOrPtr")
           vs == IF Instr.op = "LdArga" THEN argVars ELSE localVars
<1>0. /\ InBody /\ Keeps /\ Next1 /\ UNCHANGED <<inStack, params>>
      /\ Instr.op \in {"LdArga", "LdLoca"} /\ Instr.n \in DOMAIN vs
      /\ Simulate(0, <<dst>>, <<Inst(Instr.op, Instr, <<vs[Instr.n]>>, <<dst>>)>>)
  BY DEF AddressOf
<1>1. Instr.op \notin Calls /\ Instr.op # "InitLocals"
  BY <1>0 DEF Calls
<1>2. Readable(vs)
  BY <1>0, VarsReadable
<1>3. Readable(<<vs[Instr.n]>>)
  BY <1>0, <1>2, ReadableOne DEF Readable
<1>4. 0 <= Len(stack) /\ TopBelow(0) \in Nat
  <2>1. Len(stack) \in Nat
    BY <1>0 DEF IInv, BodyInv, InBody, StackInv, Laid
  <2>2. 0 \in 0..3 /\ 0 <= Len(stack)
    BY <2>1
  <2> QED BY <1>0, <2>2, OperandRow
<1>5. Pushable(<<dst>>, 0)
  BY <1>4, PushResult DEF DataTypes
<1> HIDE DEF dst, vs
<1> QED BY <1>0, <1>1, <1>3, <1>4, <1>5, OneInst

\* k operands, all of them read, and at most one result.
LEMMA EmitNone ==
  ASSUME IInv, InBody, Instr.op \notin Calls, Instr.op # "InitLocals",
         NEW k \in 0..3, k <= Len(stack), Emit(k, <<>>)
  PROVE  IInv'
  BY EmitKeeps, PushNone

LEMMA EmitVar ==
  ASSUME IInv, InBody, Instr.op \notin Calls, Instr.op # "InitLocals",
         NEW k \in 0..3, k <= Len(stack), NEW r \in ReduceTypes, Emit(k, <<Var(r, TopBelow(k))>>)
  PROVE  IInv'
<1> DEFINE pushed == <<Var(r, TopBelow(k))>>
<1>1. Pushable(pushed, k) /\ Emit(k, pushed)
  BY OperandRow, PushVar
<1> HIDE DEF pushed
<1> QED BY <1>1, EmitKeeps

LEMMA EmitResult ==
  ASSUME IInv, InBody, Instr.op \notin Calls, Instr.op # "InitLocals",
         NEW k \in 0..3, k <= Len(stack), NEW data \in DataTypes, Emit(k, <<Result(k, data)>>)
  PROVE  IInv'
<1> DEFINE pushed == <<Result(k, data)>>
<1>1. Pushable(pushed, k) /\ Emit(k, pushed)
  BY OperandRow, PushResult
<1> HIDE DEF pushed
<1> QED BY <1>1, EmitKeeps

LEMMA IndirectInv == ASSUME IInv, Indirect PROVE IInv'
<1>0. InBody
  BY DEF Indirect
<1>1. CASE Instr.op = "LdInd" /\ stack # <<>> /\ Emit(1, <<Result(1, DataTypeOf(Instr.type))>>)
  <2>1. Instr.op \notin Calls /\ Instr.op # "InitLocals"
    BY <1>1 DEF Calls
  <2> QED BY <1>0, <1>1, <2>1, OneOperand, EmitResult, DataTypeOfTyped
<1>2. CASE Instr.op = "StInd" /\ Len(stack) >= 2 /\ Emit(2, <<>>)
  <2>1. Instr.op \notin Calls /\ Instr.op # "InitLocals"
    BY <1>2 DEF Calls
  <2> QED BY <1>0, <1>2, <2>1, TwoOperands, EmitNone
<1> QED BY <1>1, <1>2 DEF Indirect

LEMMA ClearOrCopyInv == ASSUME IInv, ClearOrCopy PROVE IInv'
<1>0. InBody
  BY DEF ClearOrCopy
<1>1. CASE Instr.op = "InitObj" /\ stack # <<>> /\ Emit(1, <<>>)
  <2>1. Instr.op \notin Calls /\ Instr.op # "InitLocals"
    BY <1>1 DEF Calls
  <2> QED BY <1>0, <1>1, <2>1, OneOperand, EmitNone
<1>2. CASE Instr.op = "CpObj" /\ Len(stack) >= 2 /\ Emit(2, <<>>)
  <2>1. Instr.op \notin Calls /\ Instr.op # "InitLocals"
    BY <1>2 DEF Calls
  <2> QED BY <1>0, <1>2, <2>1, TwoOperands, EmitNone
<1> QED BY <1>1, <1>2 DEF ClearOrCopy

LEMMA ObjectAtInv == ASSUME IInv, ObjectAt PROVE IInv'
<1>0. InBody
  BY DEF ObjectAt
<1>1. CASE Instr.op = "LdObj" /\ stack # <<>> /\ Emit(1, <<Var(Instr.type, TopBelow(1))>>)
  <2>1. Instr.op \notin Calls /\ Instr.op # "InitLocals"
    BY <1>1 DEF Calls
  <2> QED BY <1>0, <1>1, <2>1, OneOperand, EmitVar, InstrTyped
<1>2. CASE Instr.op = "StObj" /\ Len(stack) >= 2 /\ Emit(2, <<>>)
  <2>1. Instr.op \notin Calls /\ Instr.op # "InitLocals"
    BY <1>2 DEF Calls
  <2> QED BY <1>0, <1>2, <2>1, TwoOperands, EmitNone
<1> QED BY <1>1, <1>2 DEF ObjectAt

LEMMA FieldInv == ASSUME IInv, Field PROVE IInv'
<1>0. InBody
  BY DEF Field
<1>1. CASE Instr.op = "Ldfld" /\ stack # <<>> /\ Emit(1, <<Var(Instr.type, TopBelow(1))>>)
  <2>1. Instr.op \notin Calls /\ Instr.op # "InitLocals"
    BY <1>1 DEF Calls
  <2> QED BY <1>0, <1>1, <2>1, OneOperand, EmitVar, InstrTyped
<1>2. CASE Instr.op = "Ldflda" /\ stack # <<>> /\ Emit(1, <<Result(1, "RefOrPtr")>>)
  <2>1. Instr.op \notin Calls /\ Instr.op # "InitLocals" /\ "RefOrPtr" \in DataTypes
    BY <1>2 DEF Calls, DataTypes
  <2> QED BY <1>0, <1>2, <2>1, OneOperand, EmitResult
<1>3. CASE Instr.op = "Stfld" /\ Len(stack) >= 2 /\ Emit(2, <<>>)
  <2>1. Instr.op \notin Calls /\ Instr.op # "InitLocals"
    BY <1>3 DEF Calls
  <2> QED BY <1>0, <1>3, <2>1, TwoOperands, EmitNone
<1> QED BY <1>1, <1>2, <1>3 DEF Field

LEMMA StackLength ==
  ASSUME IInv, InBody
  PROVE  0 \in 0..3 /\ 0 <= Len(stack) /\ TopBelow(0) = top /\ top \in Nat /\ Len(stack) \in Nat
<1>1. Len(stack) \in Nat
  BY DEF IInv, BodyInv, InBody, StackInv, Laid
<1>2. 0 \in 0..3 /\ 0 <= Len(stack)
  BY <1>1
<1>3. TopBelow(0) = top
  BY DEF TopBelow
<1>4. TopBelow(0) \in Nat
  BY <1>2, OperandRow
<1> QED BY <1>1, <1>2, <1>3, <1>4

LEMMA StaticFieldInv == ASSUME IInv, StaticField PROVE IInv'
<1>0. InBody
  BY DEF StaticField
<1>1. CASE Instr.op = "Ldsfld" /\ Emit(0, <<Var(Instr.type, top)>>)
  <2>1. Instr.op \notin Calls /\ Instr.op # "InitLocals"
    BY <1>1 DEF Calls
  <2>2. Emit(0, <<Var(Instr.type, TopBelow(0))>>)
    BY <1>0, <1>1, StackLength
  <2> QED BY <1>0, <1>1, <2>1, <2>2, StackLength, EmitVar, InstrTyped
<1>2. CASE Instr.op = "Ldsflda" /\ Emit(0, <<Result(0, "RefOrPtr")>>)
  <2>1. Instr.op \notin Calls /\ Instr.op # "InitLocals" /\ "RefOrPtr" \in DataTypes
    BY <1>2 DEF Calls, DataTypes
  <2> QED BY <1>0, <1>2, <2>1, StackLength, EmitResult
<1>3. CASE Instr.op = "Stsfld" /\ stack # <<>> /\ Emit(1, <<>>)
  <2>1. Instr.op \notin Calls /\ Instr.op # "InitLocals"
    BY <1>3 DEF Calls
  <2> QED BY <1>0, <1>3, <2>1, OneOperand, EmitNone
<1> QED BY <1>1, <1>2, <1>3 DEF StaticField

LEMMA ElementInv == ASSUME IInv, Element PROVE IInv'
<1>0. InBody
  BY DEF Element
<1>1. CASE Instr.op = "LdLen" /\ stack # <<>> /\ Emit(1, <<Result(1, "I4")>>)
  <2>1. Instr.op \notin Calls /\ Instr.op # "InitLocals" /\ "I4" \in DataTypes
    BY <1>1 DEF Calls, DataTypes
  <2> QED BY <1>0, <1>1, <2>1, OneOperand, EmitResult
<1>2. ASSUME Instr.op \in {"Ldelema", "Ldelem", "LdelemAny"}, Len(stack) >= 2
      PROVE  /\ Emit(2, <<Result(2, "RefOrPtr")>>) => IInv'
             /\ Emit(2, <<Var("Other", TopBelow(2))>>) => IInv'
             /\ Emit(2, <<Result(2, DataTypeOf(Instr.type))>>) => IInv'
  <2>1. /\ Instr.op \notin Calls /\ Instr.op # "InitLocals"
        /\ "RefOrPtr" \in DataTypes /\ "Other" \in ReduceTypes
    BY <1>2 DEF Calls, DataTypes, ReduceTypes
  <2>2. 2 <= Len(stack) /\ 2 \in 0..3
    BY <1>0, <1>2, TwoOperands
  <2> QED BY <1>0, <2>1, <2>2, EmitResult, EmitVar, DataTypeOfTyped
<1>3. CASE /\ Instr.op \in {"Ldelema", "Ldelem", "LdelemAny"} /\ Len(stack) >= 2
           /\ Emit(2, <<IF Instr.op = "Ldelema" THEN Result(2, "RefOrPtr")
                        ELSE IF Instr.type = "Other" THEN Var("Other", TopBelow(2))
                        ELSE Result(2, DataTypeOf(Instr.type))>>)
  <2>1. CASE Instr.op = "Ldelema"
    BY <1>2, <1>3, <2>1
  <2>2. CASE Instr.op # "Ldelema" /\ Instr.type = "Other"
    BY <1>2, <1>3, <2>2
  <2>3. CASE Instr.op # "Ldelema" /\ Instr.type # "Other"
    BY <1>2, <1>3, <2>3
  <2> QED BY <2>1, <2>2, <2>3
<1> QED BY <1>1, <1>3 DEF Element

LEMMA StoreElementInv == ASSUME IInv, StoreElement PROVE IInv'
<1>0. InBody /\ Instr.op \in {"Stelem", "StelemAny"} /\ Len(stack) >= 3 /\ Emit(3, <<>>)
  BY DEF StoreElement
<1>1. Instr.op \notin Calls /\ Instr.op # "InitLocals" /\ 3 \in 0..3 /\ 3 <= Len(stack)
  BY <1>0, StackLength DEF Calls
<1> QED BY <1>0, <1>1, EmitNone

\* Only a call pops parameters; another instruction finds none.
LEMMA NoParams ==
  ASSUME IInv, InBody, Instr.op \notin Calls
  PROVE  params = <<>>
  BY DEF IInv, BodyInv, ParamsInv, InBody

LEMMA BranchKeeps ==
  ASSUME IInv, InBody, Instr.op \notin Calls, Keeps, Next1, UNCHANGED params,
         NEW k \in 0..3, k <= Len(stack), NEW insts, IsSeq(insts), Simulate(k, <<>>, insts),
         \A j \in DOMAIN insts : Placed(insts[j], FrameTop'),
         UNCHANGED inStack \/ \E bs : HandOver(bs, Below(k), TopBelow(k))
  PROVE  IInv'
<1>1. /\ phase = "body" /\ maxStack' \in Nat /\ maxStack <= maxStack' /\ StackInv' /\ CodeInv'
      /\ base \in Nat /\ FrameTop \in Nat /\ FrameTop' \in Nat /\ FrameTop <= FrameTop'
  BY StepKeeps, PushNone
<1>2. HandedInv /\ UNCHANGED <<method, base>>
  BY <1>1 DEF IInv, BodyInv, Keeps
<1>3. HandedInv'
  <2>1. CASE UNCHANGED inStack
    BY <1>1, <1>2, <2>1, HandedSame
  <2>2. ASSUME NEW bs, HandOver(bs, Below(k), TopBelow(k)) PROVE HandedInv'
    <3>1. /\ Laid(Below(k), base, TopBelow(k)) /\ TopBelow(k) \in Nat /\ TopBelow(k) <= FrameTop
      BY OperandRow
    <3>2. TopBelow(k) <= FrameTop'
      BY <1>1, <3>1
    <3> QED BY <1>1, <1>2, <2>2, <3>1, <3>2, HandedOver
  <2> QED BY <2>1, <2>2
<1>4. ParamsInv'
  BY <1>1, <1>2, NoParams, ParamsNone
<1> QED BY <1>1, <1>3, <1>4, Assembled DEF Next1

LEMMA BranchNothing ==
  ASSUME IInv, InBody, Instr.op \notin Calls, Keeps, Next1, UNCHANGED <<inStack, params>>,
         NEW k \in 0..3, k <= Len(stack), Simulate(k, <<>>, <<>>)
  PROVE  IInv'
<1>1. IsSeq(<<>>) /\ \A j \in DOMAIN <<>> : Placed(<<>>[j], FrameTop')
  BY NoSeq
<1> QED BY <1>1, Ordinary, PushNone

LEMMA BranchOneInst ==
  ASSUME IInv, InBody, Instr.op \notin Calls, Instr.op # "InitLocals", Keeps, Next1,
         UNCHANGED params, NEW k \in 0..3, k <= Len(stack), NEW srcs, Readable(srcs),
         Simulate(k, <<>>, <<Inst(Instr.op, Instr, srcs, <<>>)>>),
         \E bs : HandOver(bs, Below(k), TopBelow(k))
  PROVE  IInv'
<1> DEFINE inst == Inst(Instr.op, Instr, srcs, <<>>)
<1>1. Placed(inst, FrameTop')
  BY PlacedAfter, PushNone
<1> HIDE DEF inst
<1>2. IsSeq(<<inst>>) /\ \A j \in DOMAIN <<inst>> : Placed(<<inst>>[j], FrameTop')
  BY <1>1, OneSeq
<1>3. Simulate(k, <<>>, <<inst>>)
  BY DEF inst
<1> QED BY <1>2, <1>3, BranchKeeps

LEMMA BranchInv == ASSUME IInv, Branch PROVE IInv'
<1>0. InBody /\ Keeps /\ Next1 /\ UNCHANGED params /\ Instr.op = "Br"
  BY DEF Branch
<1>1. Instr.op \notin Calls /\ Instr.op # "InitLocals"
  BY <1>0 DEF Calls
<1>2. Below(0) = stack
  <2>1. stack \in Seq(Slotted)
    BY <1>0 DEF IInv, BodyInv, InBody, StackInv, Laid
  <2> QED BY <2>1 DEF Below
<1>3. CASE Simulate(0, <<>>, <<>>) /\ UNCHANGED inStack
  BY <1>0, <1>1, <1>3, StackLength, BranchNothing
<1>4. CASE /\ Simulate(0, <<>>, <<Inst(Instr.op, Instr, <<>>, <<>>)>>)
           /\ HandOver({Instr.to}, stack, top)
  <2>1. HandOver({Instr.to}, Below(0), TopBelow(0))
    BY <1>0, <1>2, <1>4, StackLength
  <2> QED BY <1>0, <1>1, <1>4, <2>1, StackLength, ReadableNone, BranchOneInst
<1> QED BY <1>0, <1>3, <1>4 DEF Branch

LEMMA CondBranchInv == ASSUME IInv, CondBranch PROVE IInv'
<1> DEFINE k == Operands(Instr.op)
<1>0. /\ InBody /\ Keeps /\ Next1 /\ UNCHANGED params
      /\ Instr.op \in CondBranches /\ Len(stack) >= k
  BY DEF CondBranch
<1>1. Instr.op \notin Calls /\ Instr.op # "InitLocals"
  BY <1>0 DEF Calls, CondBranches
<1>2. k \in 0..3 /\ k <= Len(stack)
  BY <1>0, StackLength DEF Operands
<1>3. \/ Simulate(k, <<>>, <<>>) /\ UNCHANGED inStack
      \/ /\ Simulate(k, <<>>, <<Inst(Instr.op, Instr, Names(k), <<>>)>>)
         /\ HandOver({Instr.to} \cup Following, Below(k), TopBelow(k))
  BY DEF CondBranch, Names
<1> HIDE DEF k
<1>4. CASE Simulate(k, <<>>, <<>>) /\ UNCHANGED inStack
  BY <1>0, <1>1, <1>2, <1>4, BranchNothing
<1>5. CASE /\ Simulate(k, <<>>, <<Inst(Instr.op, Instr, Names(k), <<>>)>>)
           /\ HandOver({Instr.to} \cup Following, Below(k), TopBelow(k))
  BY <1>0, <1>1, <1>2, <1>5, ReadableNames, BranchOneInst
<1> QED BY <1>3, <1>4, <1>5

LEMMA SwitchInv == ASSUME IInv, Switch PROVE IInv'
<1> DEFINE targets == {Instr.cases[j] : j \in DOMAIN Instr.cases}
<1>0. InBody /\ Keeps /\ Next1 /\ UNCHANGED params /\ Instr.op = "Switch" /\ stack # <<>>
  BY DEF Switch
<1>1. Instr.op \notin Calls /\ Instr.op # "InitLocals"
  BY <1>0 DEF Calls
<1>2. \/ Simulate(1, <<>>, <<>>) /\ UNCHANGED inStack
      \/ /\ Simulate(1, <<>>, <<Inst(Instr.op, Instr, <<FromTop(1)>>, <<>>)>>)
         /\ HandOver(targets \cup Following, Below(1), TopBelow(1))
  BY <1>0 DEF Switch
<1> HIDE DEF targets
<1>3. CASE Simulate(1, <<>>, <<>>) /\ UNCHANGED inStack
  BY <1>0, <1>1, <1>3, OneOperand, BranchNothing
<1>4. CASE /\ Simulate(1, <<>>, <<Inst(Instr.op, Instr, <<FromTop(1)>>, <<>>)>>)
           /\ HandOver(targets \cup Following, Below(1), TopBelow(1))
  BY <1>0, <1>1, <1>4, OneOperand, BranchOneInst
<1> QED BY <1>2, <1>3, <1>4

LEMMA BlockSame ==
  ASSUME method' = method, bb' = bb, il' = il, phase' = phase
  PROVE  InBody' = InBody /\ Instr' = Instr
<1>1. Blocks' = Blocks /\ CodeEnd' = CodeEnd
  BY BlocksSame
<1>2. LaterBlocks(bb)' = LaterBlocks(bb)
  BY <1>1 DEF LaterBlocks
<1>3. BlockEnd(bb)' = BlockEnd(bb)
  BY <1>1, <1>2 DEF BlockEnd, NextBlock
<1> QED BY <1>3 DEF InBody, Instr, Body

LEMMA PopParamInv == ASSUME IInv, PopParam PROVE IInv'
<1> DEFINE v == FromTop(1)
           to == top + ParamSlots
<1>0. /\ InBody /\ Keeps /\ UNCHANGED <<il, inStack>> /\ Instr.op \in Calls /\ stack # <<>>
      /\ params' = <<v>> \o params /\ Simulate(1, <<>>, <<>>)
  BY DEF PopParam
<1>1. 1 <= Len(stack) /\ 1 \in 0..3 /\ v \in Slotted /\ TopBelow(1) \in Nat
      /\ v.offset = TopBelow(1) /\ End(v) = top
  BY <1>0, OneOperand, TopOperand
<1>2. IsSeq(<<>>) /\ \A j \in DOMAIN <<>> : Placed(<<>>[j], FrameTop')
  BY NoSeq
<1>3. /\ phase = "body" /\ maxStack' \in Nat /\ maxStack <= maxStack' /\ StackInv' /\ CodeInv'
      /\ base \in Nat /\ FrameTop \in Nat /\ FrameTop' \in Nat /\ FrameTop <= FrameTop'
  BY <1>0, <1>1, <1>2, StepKeeps, PushNone
<1>4. HandedInv'
  BY <1>0, <1>3, HandedSame DEF IInv, BodyInv, Keeps
<1>5. Laid(params, top, to) /\ to <= FrameTop /\ top \in Nat /\ to \in Nat
  <2>1. Laid(params, top, to) /\ to <= FrameTop
    BY <1>3 DEF IInv, BodyInv, ParamsInv
  <2> QED BY <1>0, <2>1, StackLength, LaidRow
<1>6. top' = TopBelow(1)
  BY <1>0 DEF Simulate
<1>7. Laid(params', top', to)
  BY <1>0, <1>1, <1>5, <1>6, LaidUnder
<1>8. params' # <<>>
  BY <1>0, <1>5 DEF Laid
<1>9. top' + ParamSlots' = to
  <2>1. PICK last \in Slotted : last = params'[Len(params')]
    <3>1. params' \in Seq(Slotted)
      BY <1>7 DEF Laid
    <3> QED BY <1>8, <3>1, EmptySeq
  <2>2. ParamSlots' = last.offset + (last.size - top')
    BY <1>8, <2>1 DEF ParamSlots
  <2>3. to = last.offset + last.size
    BY <1>7, <1>8, <2>1 DEF Laid, End
  <2>4. top' \in Nat /\ last.offset \in Nat /\ last.size \in Nat
    BY <1>1, <1>6, EndNat
  <2> HIDE DEF to
  <2> QED BY <2>2, <2>3, <2>4
<1> HIDE DEF to, v
<1>10. to <= FrameTop'
  BY <1>3, <1>5
<1>11. InBody' /\ Instr'.op \in Calls
  BY <1>0, BlockSame DEF Keeps
<1>12. ParamsInv'
  BY <1>7, <1>9, <1>10, <1>11 DEF ParamsInv
<1> QED BY <1>0, <1>3, <1>4, <1>12, Assembled

\* What a call finds on its turn.
LEMMA PoppedParams ==
  ASSUME IInv, InBody
  PROVE  /\ top \in Nat /\ top + ParamSlots \in Nat /\ top + ParamSlots <= FrameTop
         /\ Readable(params)
<1>1. /\ Laid(params, top, top + ParamSlots) /\ top + ParamSlots <= FrameTop
      /\ FrameTop \in Nat /\ top \in Nat
  BY StackLength, FrameTopNat DEF IInv, BodyInv, ParamsInv, InBody
<1>2. /\ top + ParamSlots \in Nat
      /\ \A j \in DOMAIN params : params[j] \in Slotted /\ End(params[j]) <= top + ParamSlots
  BY <1>1, LaidRow
<1>3. \A j \in DOMAIN params : End(params[j]) <= FrameTop
  BY <1>1, <1>2, EndNat
<1> QED BY <1>1, <1>2, <1>3 DEF Readable

LEMMA PlacedCall ==
  ASSUME IInv, InBody, NEW op \in Calls, NEW limit \in Nat, FrameTop \in Nat, FrameTop <= limit,
         NEW dsts, \A j \in DOMAIN dsts : dsts[j] \in Slotted /\ End(dsts[j]) <= limit
  PROVE  Placed(CallInst(op, dsts), limit)
<1> DEFINE inst == CallInst(op, dsts)
<1>1. /\ inst.op = op /\ inst.src = params /\ inst.dst = dsts
      /\ inst.of.frame = top /\ inst.of.total = ParamSlots
  BY DEF CallInst, Inst
<1>2. op # "InitLocals"
  BY DEF Calls
<1>3. top + ParamSlots \in Nat /\ top + ParamSlots <= limit
  BY PoppedParams
<1>4. \A j \in DOMAIN params : params[j] \in Slotted /\ End(params[j]) <= limit
  BY PoppedParams, EndNat DEF Readable
<1> HIDE DEF inst
<1>5. inst.of.frame + inst.of.total \in Nat /\ inst.of.frame + inst.of.total <= limit
  BY <1>1, <1>3
<1>6. \A j \in DOMAIN inst.src : inst.src[j] \in Slotted /\ End(inst.src[j]) <= limit
  BY <1>1, <1>4
<1>7. \A j \in DOMAIN inst.dst : inst.dst[j] \in Slotted /\ End(inst.dst[j]) <= limit
  BY <1>1
<1>8. Within(inst, limit)
  BY <1>1, <1>2, <1>5, <1>6, <1>7 DEF Within
<1>9. Placed(inst, limit)
  BY <1>1, <1>2, <1>5, <1>6, <1>7, <1>8 DEF Placed
<1> QED BY <1>9 DEF inst

\* What a constrained call dereferences lies in one slot.
LEMMA PlacedDereference ==
  ASSUME IInv, Popped, NEW limit \in Nat, FrameTop \in Nat, FrameTop <= limit
  PROVE  IsSeq(Dereference) /\ \A j \in DOMAIN Dereference : Placed(Dereference[j], limit)
<1>0. InBody /\ Len(params) = Len(Instr.params)
  BY DEF Popped
<1>1. CASE Instr.op = "CallVirt" /\ Instr.constrained
  <2> DEFINE from == params[1]
             dst == Primitive("RefOrPtr", from.offset)
             inst == Inst("LdInd", [op |-> "LdInd", type |-> "Ref"], <<from>>, <<dst>>)
  <2>1. Instr.params \in Seq(ReduceTypes) /\ Instr.params # <<>>
    BY <1>0, <1>1, InstrTyped DEF Calls
  <2>2. params \in Seq(Slotted)
    BY <1>0 DEF IInv, BodyInv, ParamsInv, InBody, Laid
  <2>3. 1 \in DOMAIN params
    BY <1>0, <2>1, <2>2, EmptySeq
  <2>4. from \in Slotted /\ End(from) <= limit
    BY <1>0, <2>3, PoppedParams, EndNat DEF Readable
  <2>5. from.offset \in Nat /\ from.offset < End(from)
    BY <2>4, EndNat
  <2>6. dst \in Slotted /\ dst.offset = from.offset /\ dst.size = 1
    <3>1. dst \in Slotted /\ dst.offset = from.offset
      BY <2>5, PrimitiveSlotted DEF DataTypes
    <3>2. IsPrimitive(dst.data)
      BY DEF Primitive, Var, PrimitiveReduce, DataTypeOf, IsPrimitive
    <3> HIDE DEF dst
    <3> QED BY <3>1, <3>2 DEF Slotted
  <2> HIDE DEF dst, from
  <2>7. End(dst) <= limit
    BY <2>4, <2>5, <2>6, EndNat DEF End
  <2>8. \A j \in DOMAIN <<from>> : <<from>>[j] \in Slotted /\ End(<<from>>[j]) <= limit
    BY <2>4, OneSeq
  <2>9. \A j \in DOMAIN <<dst>> : <<dst>>[j] \in Slotted /\ End(<<dst>>[j]) <= limit
    BY <2>6, <2>7, OneSeq
  <2>10. Placed(inst, limit)
    BY <2>8, <2>9, PlacedInst DEF Calls
  <2>11. Dereference = <<inst>>
    BY <1>1 DEF Dereference, dst, from
  <2> HIDE DEF inst
  <2> QED BY <2>10, <2>11, OneSeq
<1>2. CASE ~(Instr.op = "CallVirt" /\ Instr.constrained)
  <2>1. Dereference = <<>>
    BY <1>2 DEF Dereference
  <2> QED BY <2>1, NoSeq
<1> QED BY <1>1, <1>2

LEMMA CallInv == ASSUME IInv, Call PROVE IInv'
<1> DEFINE dst == IF Instr.ret = "Void" THEN <<>> ELSE <<Var(Instr.ret, top)>>
           insts == Dereference \o <<CallInst(Instr.op, dst)>>
<1>0. /\ Popped /\ InBody /\ Keeps /\ Next1 /\ UNCHANGED inStack /\ params' = <<>>
      /\ Instr.op \in Calls /\ Simulate(0, dst, insts)
  BY DEF Call, Popped
<1>1. 0 \in 0..3 /\ 0 <= Len(stack) /\ TopBelow(0) = top /\ top \in Nat
  BY <1>0, StackLength
<1>2. Pushable(dst, 0)
  <2>1. CASE Instr.ret = "Void"
    BY <2>1, PushNone
  <2>2. CASE Instr.ret # "Void"
    <3>1. Instr.ret \in ReduceTypes
      BY <1>0, <2>2, InstrTyped
    <3>2. Pushable(<<Var(Instr.ret, TopBelow(0))>>, 0)
      BY <1>1, <3>1, PushVar
    <3> QED BY <1>1, <2>2, <3>2
  <2> QED BY <2>1, <2>2
<1> HIDE DEF dst
<1>3. /\ FrameTop \in Nat /\ FrameTop' \in Nat /\ FrameTop <= FrameTop'
      /\ \A j \in DOMAIN dst : dst[j] \in Slotted /\ End(dst[j]) <= FrameTop'
  <2>1. base \in Nat /\ maxStack \in Nat /\ StackInv /\ base' = base /\ FrameTop \in Nat
    BY <1>0, FrameTopNat DEF IInv, BodyInv, InBody, Keeps
  <2> QED BY <1>0, <1>1, <1>2, <2>1, Room
<1>4. Placed(CallInst(Instr.op, dst), FrameTop')
  BY <1>0, <1>3, PlacedCall
<1>5. IsSeq(insts) /\ \A j \in DOMAIN insts : Placed(insts[j], FrameTop')
  <2> DEFINE call == CallInst(Instr.op, dst)
  <2>1. IsSeq(Dereference) /\ \A j \in DOMAIN Dereference : Placed(Dereference[j], FrameTop')
    BY <1>0, <1>3, PlacedDereference
  <2>2. Placed(call, FrameTop')
    BY <1>4
  <2> HIDE DEF call
  <2>3. IsSeq(<<call>>) /\ \A j \in DOMAIN <<call>> : Placed(<<call>>[j], FrameTop')
    BY <2>2, OneSeq
  <2>4. /\ IsSeq(Dereference \o <<call>>)
        /\ \A j \in DOMAIN (Dereference \o <<call>>) : Placed((Dereference \o <<call>>)[j], FrameTop')
    BY <2>1, <2>3, Concatenated
  <2> QED BY <2>4 DEF call
<1> HIDE DEF insts
<1>6. /\ phase = "body" /\ maxStack' \in Nat /\ maxStack <= maxStack' /\ StackInv' /\ CodeInv'
      /\ base \in Nat
  BY <1>0, <1>1, <1>2, <1>5, StepKeeps
<1>7. HandedInv' /\ ParamsInv'
  BY <1>0, <1>3, <1>6, HandedSame, ParamsNone DEF IInv, BodyInv, Keeps
<1> QED BY <1>0, <1>6, <1>7, Assembled DEF Next1

LEMMA NewObjInv == ASSUME IInv, NewObj PROVE IInv'
<1> DEFINE dst == Var(Instr.ret, top)
           room == IF Instr.ret = "Ref" THEN 1 ELSE ByteSize(Instr.ret)
           inst == CallInst("NewObj", <<dst>>)
<1>0. /\ Popped /\ InBody /\ Keeps /\ Next1 /\ UNCHANGED inStack /\ params' = <<>>
      /\ Instr.op = "NewObj"
      /\ stack' = Append(stack, dst) /\ top' = top + dst.size
      /\ maxStack' = LargerOf(LargerOf(maxStack, top + ParamSlots + room), top + dst.size)
      /\ hl' = Append(hl, inst)
  BY DEF NewObj, Popped
<1>1. /\ phase = "body" /\ phase' = "body" /\ base' = base /\ base \in Nat /\ maxStack \in Nat
      /\ StackInv /\ CodeInv /\ FrameTop \in Nat
  BY <1>0, FrameTopNat DEF IInv, BodyInv, InBody, Keeps
<1>2. top \in Nat /\ dst \in Slotted /\ dst.offset = top /\ dst.size \in Nat
  <2>1. Instr.ret \in ReduceTypes
    BY <1>0, InstrTyped DEF Calls
  <2> QED BY <1>0, <2>1, StackLength, VarSlotted
<1>3. room \in Nat
  BY SizesPositive
<1> HIDE DEF dst, room
<1>4. maxStack' \in Nat /\ maxStack <= maxStack' /\ top' \in Nat /\ top' <= maxStack'
  <2>1. top + ParamSlots + room \in Nat
    BY <1>0, <1>3, PoppedParams
  <2> DEFINE here == top + ParamSlots + room
  <2> HIDE DEF here
  <2>2. here \in Nat /\ maxStack' = LargerOf(LargerOf(maxStack, here), top')
    BY <1>0, <2>1 DEF here
  <2> QED BY <1>0, <1>1, <1>2, <2>2 DEF LargerOf
<1>5. FrameTop' \in Nat /\ FrameTop <= FrameTop' /\ top' <= FrameTop'
  BY <1>1, <1>4, FrameTopGrows
<1>6. StackInv'
  <2>1. Laid(stack', base, top')
    BY <1>0, <1>1, <1>2, LaidPush DEF StackInv
  <2> QED BY <1>1, <1>5, <2>1 DEF StackInv
<1>7. End(dst) = top'
  BY <1>0, <1>2 DEF End
<1>8. Placed(inst, FrameTop')
  <2>1. \A j \in DOMAIN <<dst>> : <<dst>>[j] \in Slotted /\ End(<<dst>>[j]) <= FrameTop'
    BY <1>2, <1>5, <1>7, OneSeq
  <2> QED BY <1>0, <1>1, <1>5, <2>1, PlacedCall DEF Calls
<1> HIDE DEF inst
<1>9. CodeInv'
  <2>1. IsSeq(<<inst>>) /\ \A j \in DOMAIN <<inst>> : Placed(<<inst>>[j], FrameTop')
    BY <1>8, OneSeq
  <2>2. hl' = hl \o <<inst>>
    <3>1. PICK S : hl \in Seq(S)
      BY <1>1 DEF CodeInv, IsSeq
    <3>2. hl \in Seq(S \cup {inst}) /\ inst \in S \cup {inst}
      BY <3>1
    <3> QED BY <1>0, <3>2, AppendIsConcat
  <2> QED BY <1>1, <1>4, <2>1, <2>2, CodeGrows
<1>10. HandedInv' /\ ParamsInv'
  BY <1>0, <1>1, <1>5, <1>6, HandedSame, ParamsNone DEF IInv, BodyInv, Keeps
<1> QED BY <1>0, <1>1, <1>4, <1>6, <1>9, <1>10, Assembled DEF Next1

LEMMA ReturnInv == ASSUME IInv, Return PROVE IInv'
<1>0. InBody /\ Keeps /\ Next1 /\ UNCHANGED <<inStack, params>> /\ Instr.op = "Ret"
  BY DEF Return
<1>1. Instr.op \notin Calls /\ "Ret" \notin Calls /\ "Ret" # "InitLocals"
  BY <1>0 DEF Calls
<1>2. CASE Simulate(0, <<>>, <<Inst("Ret", Instr, <<>>, <<>>)>>)
  BY <1>0, <1>1, <1>2, StackLength, ReadableNone, PushNone, OneInst
<1>3. CASE stack # <<>> /\ Simulate(1, <<>>, <<Inst("Ret", Instr, <<FromTop(1)>>, <<>>)>>)
  BY <1>0, <1>1, <1>3, OneOperand, PushNone, OneInst
<1> QED BY <1>2, <1>3 DEF Return

\* clear_eval_stack
LEMMA ClearedKeeps ==
  ASSUME IInv, InBody, Instr.op \notin Calls, Keeps, Next1, UNCHANGED params,
         NEW op, op # "InitLocals", op \notin Calls, NEW srcs, Readable(srcs),
         Cleared(<<Inst(op, Instr, srcs, <<>>)>>),
         UNCHANGED inStack \/ \E bs : HandOver(bs, <<>>, base)
  PROVE  IInv'
<1> DEFINE inst == Inst(op, Instr, srcs, <<>>)
<1>1. /\ phase = "body" /\ phase' = "body" /\ base' = base /\ base \in Nat /\ maxStack \in Nat
      /\ maxStack' = maxStack /\ FrameTop \in Nat /\ base <= FrameTop
      /\ stack' = <<>> /\ top' = base /\ hl' = hl \o <<inst>> /\ CodeInv
      /\ HandedInv /\ UNCHANGED <<method, base>>
  BY FrameTopNat DEF IInv, BodyInv, InBody, Keeps, Cleared
<1>2. FrameTop' = FrameTop
  BY <1>1 DEF FrameTop, LargerOf
<1>3. Laid(<<>>, base, base)
  BY LaidEmpty
<1>4. StackInv'
  BY <1>1, <1>2, <1>3 DEF StackInv
<1>5. Placed(inst, FrameTop')
  <2>1. \A j \in DOMAIN srcs : srcs[j] \in Slotted /\ End(srcs[j]) <= FrameTop'
    BY <1>2 DEF Readable
  <2>2. \A j \in DOMAIN <<>> : <<>>[j] \in Slotted /\ End(<<>>[j]) <= FrameTop'
    BY NoSeq
  <2> QED BY <1>1, <1>2, <2>1, <2>2, PlacedInst
<1> HIDE DEF inst
<1>6. IsSeq(<<inst>>) /\ \A j \in DOMAIN <<inst>> : Placed(<<inst>>[j], FrameTop')
  BY <1>5, OneSeq
<1>7. CodeInv'
  <2> DEFINE insts == <<inst>>
  <2>1. /\ maxStack' \in Nat /\ maxStack <= maxStack' /\ hl' = hl \o insts
        /\ IsSeq(insts) /\ \A k \in DOMAIN insts : Placed(insts[k], FrameTop')
    BY <1>1, <1>6
  <2> HIDE DEF insts
  <2> QED BY <1>1, <2>1, CodeGrows
<1>8. HandedInv'
  <2>1. CASE UNCHANGED inStack
    BY <1>1, <1>2, <2>1, HandedSame
  <2>2. ASSUME NEW bs, HandOver(bs, <<>>, base) PROVE HandedInv'
    BY <1>1, <1>2, <1>3, <2>2, HandedOver
  <2> QED BY <2>1, <2>2
<1>9. ParamsInv'
  BY <1>1, <1>4, NoParams, ParamsNone
<1> QED BY <1>1, <1>4, <1>7, <1>8, <1>9, Assembled DEF Next1

LEMMA ThrowInv == ASSUME IInv, Throw PROVE IInv'
<1>0. /\ InBody /\ Keeps /\ Next1 /\ UNCHANGED <<inStack, params>> /\ Instr.op = "Throw"
      /\ stack # <<>> /\ Cleared(<<Inst("Throw", Instr, <<FromTop(1)>>, <<>>)>>)
  BY DEF Throw
<1>1. Instr.op \notin Calls /\ "Throw" \notin Calls /\ "Throw" # "InitLocals"
  BY <1>0 DEF Calls
<1> QED BY <1>0, <1>1, OneOperand, ClearedKeeps

LEMMA LeaveInv == ASSUME IInv, Leave PROVE IInv'
<1>0. /\ InBody /\ Keeps /\ Next1 /\ UNCHANGED params /\ Instr.op = "Leave"
      /\ Cleared(<<Inst("Leave", Instr, <<>>, <<>>)>>)
      /\ HandOver({Instr.to}, <<>>, base)
  BY DEF Leave
<1>1. Instr.op \notin Calls /\ "Leave" \notin Calls /\ "Leave" # "InitLocals"
  BY <1>0 DEF Calls
<1> QED BY <1>0, <1>1, ReadableNone, ClearedKeeps

-----------------------------------------------------------------------------
(* Before and between the blocks, and behind the last one. *)

LEMMA NoCode == ASSUME hl' = <<>> PROVE CodeInv'
  BY NoSeq DEF CodeInv

\* The phase ends and its variables stay.
LEMMA PhaseOnly ==
  ASSUME IInv, phase # "args", phase' \notin {"args", "locals", "blocks", "body"},
         UNCHANGED <<method, argVars, localVars, base, maxStack, hl>>
  PROVE  IInv'
<1>1. VarsInv'
  BY DEF IInv, VarsInv, ArgsEnd
<1>2. FrameTop' = FrameTop
  BY DEF FrameTop
<1>3. CodeInv'
  BY <1>2 DEF IInv, CodeInv
<1> QED BY <1>1, <1>3 DEF IInv

LEMMA SetupArgInv == ASSUME IInv, SetupArg PROVE IInv'
<1>0. /\ phase = "args" /\ method \in Methods /\ method' = method /\ base \in Nat
      /\ Laid(argVars, 0, base) /\ localVars = <<>> /\ localVars' = <<>>
      /\ hl' = <<>> /\ params' = <<>> /\ maxStack' = maxStack /\ maxStack \in Nat
  BY DEF SetupArg, bodyVars, IInv, VarsInv, CodeInv
<1>1. CodeInv'
  BY <1>0, NoCode
<1>2. CASE Len(argVars) < Len(method.args)
  <2> DEFINE v == Var(method.args[Len(argVars) + 1], base)
  <2>1. argVars' = Append(argVars, v) /\ base' = base + v.size /\ phase' = "args"
    BY <1>0, <1>2 DEF SetupArg
  <2>2. method.args[Len(argVars) + 1] \in ReduceTypes
    <3>1. method.args \in Seq(ReduceTypes) /\ Len(argVars) \in Nat
      BY <1>0, MethodAssumption DEF Laid
    <3> QED BY <3>1, <1>2
  <2>3. v \in Slotted /\ v.offset = base /\ v.size \in Nat
    BY <1>0, <2>2, VarSlotted
  <2> HIDE DEF v
  <2>4. Laid(argVars', 0, base')
    BY <1>0, <2>1, <2>3, LaidPush
  <2>5. VarsInv' /\ base' \in Nat
    BY <1>0, <2>1, <2>3, <2>4 DEF VarsInv
  <2> QED BY <1>0, <1>1, <2>1, <2>5 DEF IInv
<1>3. CASE ~(Len(argVars) < Len(method.args))
  <2>1. argVars' = argVars /\ base' = base /\ phase' = "locals"
    BY <1>3 DEF SetupArg
  <2>2. base = ArgsEnd
    BY <1>0 DEF Laid, ArgsEnd
  <2>3. Laid(<<>>, base, base)
    BY LaidEmpty
  <2>4. VarsInv'
    BY <1>0, <2>1, <2>2, <2>3 DEF VarsInv, ArgsEnd
  <2> QED BY <1>0, <1>1, <2>1, <2>4 DEF IInv
<1> QED BY <1>2, <1>3

LEMMA SetupLocalInv == ASSUME IInv, SetupLocal PROVE IInv'
<1>0. /\ phase = "locals" /\ method \in Methods /\ method' = method /\ base \in Nat
      /\ Laid(argVars, 0, ArgsEnd) /\ Laid(localVars, ArgsEnd, base) /\ argVars' = argVars
      /\ hl' = <<>> /\ params' = <<>> /\ maxStack' = maxStack /\ maxStack \in Nat
  BY DEF SetupLocal, bodyVars, IInv, VarsInv, CodeInv
<1>1. CodeInv'
  BY <1>0, NoCode
<1>2. ArgsEnd' = ArgsEnd /\ ArgsEnd \in Nat
  <2>1. ArgsEnd \in Nat
    BY <1>0, LaidRow
  <2> QED BY <1>0, <2>1 DEF ArgsEnd
<1>3. CASE Len(localVars) < Len(method.locals)
  <2> DEFINE v == Var(method.locals[Len(localVars) + 1], base)
  <2>1. localVars' = Append(localVars, v) /\ base' = base + v.size /\ phase' = "locals"
    BY <1>0, <1>3 DEF SetupLocal
  <2>2. method.locals[Len(localVars) + 1] \in ReduceTypes
    <3>1. method.locals \in Seq(ReduceTypes) /\ Len(localVars) \in Nat
      BY <1>0, MethodAssumption DEF Laid
    <3> QED BY <3>1, <1>3
  <2>3. v \in Slotted /\ v.offset = base /\ v.size \in Nat
    BY <1>0, <2>2, VarSlotted
  <2> HIDE DEF v
  <2>4. Laid(localVars', ArgsEnd, base')
    BY <1>0, <1>2, <2>1, <2>3, LaidPush
  <2>5. VarsInv' /\ base' \in Nat
    BY <1>0, <1>2, <2>1, <2>3, <2>4 DEF VarsInv
  <2> QED BY <1>0, <1>1, <2>1, <2>5 DEF IInv
<1>4. CASE ~(Len(localVars) < Len(method.locals))
  <2>1. localVars' = localVars /\ base' = base /\ phase' = "blocks"
    BY <1>4 DEF SetupLocal
  <2>2. VarsInv'
    BY <1>0, <1>2, <2>1 DEF VarsInv
  <2> QED BY <1>0, <1>1, <2>1, <2>2 DEF IInv
<1> QED BY <1>3, <1>4

LEMMA InitialRow ==
  ASSUME base \in Nat, NEW b
  PROVE  /\ Laid(InitialInStack(b).vars, base, InitialInStack(b).top)
         /\ InitialInStack(b).top \in Nat /\ InitialInStack(b).top <= base + 1
         /\ DOMAIN InitialInStack(b) = {"inited", "vars", "top"}
<1> DEFINE v == Primitive("RefOrPtr", base)
           init == InitialInStack(b)
<1>1. v \in Slotted /\ v.offset = base /\ v.size = 1
  <2>1. v \in Slotted /\ v.offset = base
    BY PrimitiveSlotted DEF DataTypes
  <2>2. IsPrimitive(v.data)
    BY DEF Primitive, Var, PrimitiveReduce, DataTypeOf, IsPrimitive
  <2> HIDE DEF v
  <2> QED BY <2>1, <2>2 DEF Slotted
<1>2. DOMAIN init = {"inited", "vars", "top"}
  BY DEF InitialInStack
<1>3. \/ init.vars = <<>> /\ init.top = base
      \/ init.vars = <<v>> /\ init.top = base + v.size
  BY DEF InitialInStack
<1> HIDE DEF init, v
<1>4. Laid(<<>>, base, base)
  BY LaidEmpty
<1>5. Laid(<<v>>, base, base + v.size)
  <2>1. Append(<<>>, v) = <<v>>
    OBVIOUS
  <2>2. Laid(Append(<<>>, v), base, base + v.size)
    BY <1>1, <1>4, LaidPush
  <2> QED BY <2>1, <2>2
<1>6. Laid(init.vars, base, init.top) /\ init.top \in Nat /\ init.top <= base + 1
  BY <1>1, <1>3, <1>4, <1>5
<1> QED BY <1>2, <1>6 DEF init

\* add_init_locals
LEMMA InitLocalsPlaced ==
  ASSUME NEW from \in Nat, base \in Nat, Laid(localVars, from, base), NEW limit \in Nat, base <= limit
  PROVE  IsSeq(InitLocals) /\ \A j \in DOMAIN InitLocals : Placed(InitLocals[j], limit)
<1> DEFINE start == localVars[1].offset
           inst == Inst("InitLocals", [from |-> start, size |-> base - start], <<>>, <<>>)
<1>1. CASE InitLocals = <<>>
  BY <1>1, NoSeq
<1>2. CASE localVars # <<>> /\ InitLocals = <<inst>>
  <2>1. 1 \in DOMAIN localVars
    BY <1>2, EmptySeq DEF Laid
  <2>2. start \in Nat
    BY <2>1, LaidRow, EndNat
  <2>3. /\ inst.op = "InitLocals" /\ inst.src = <<>> /\ inst.dst = <<>>
        /\ inst.of.from = start /\ inst.of.size = base - start
    BY DEF Inst
  <2> HIDE DEF inst, start
  <2>4. inst.of.from + inst.of.size = base
    BY <2>2, <2>3
  <2>5. Placed(inst, limit)
    BY <2>3, <2>4, NoSeq DEF Placed, Within, Calls
  <2> QED BY <1>2, <2>5, OneSeq
<1> QED BY <1>1, <1>2 DEF InitLocals

LEMMA SetupBlocksInv == ASSUME IInv, SetupBlocks PROVE IInv'
<1>0. /\ phase = "blocks" /\ UNCHANGED <<method, argVars, localVars, base, params>>
      /\ method \in Methods /\ base \in Nat /\ maxStack \in Nat /\ params = <<>>
      /\ Laid(argVars, 0, ArgsEnd) /\ Laid(localVars, ArgsEnd, base)
  BY DEF SetupBlocks, IInv, VarsInv
<1>1. CASE SplittingFails
  <2>1. phase' = "rejected" /\ UNCHANGED <<maxStack, hl>>
    BY <1>1 DEF SetupBlocks
  <2> QED BY <1>0, <2>1, PhaseOnly
<1>2. CASE ~SplittingFails
  <2>1. /\ phase' = "body" /\ il' = 1 /\ maxStack' = base /\ hl' = InitLocals
        /\ stack' = InitialInStack(1).vars /\ top' = InitialInStack(1).top
        /\ inStack' = [[b \in Blocks |-> InitialInStack(b)] EXCEPT ![1].inited = TRUE]
    BY <1>2 DEF SetupBlocks
  <2>2. Blocks' = Blocks /\ Splits' = Splits /\ CodeEnd' = CodeEnd
    BY <1>0, BlocksSame
  <2>3. Splits \subseteq 1..CodeEnd
    BY <1>2 DEF SplittingFails
  <2>4. FrameTop' = base + 1
    BY <1>0, <2>1 DEF FrameTop, LargerOf
  <2>5. base + 1 \in Nat /\ base <= base + 1
    BY <1>0
  <2>6. StackInv'
    BY <1>0, <2>1, <2>4, InitialRow DEF StackInv
  <2>7. HandedInv'
    <3>1. inStack' = [b \in Blocks |-> inStack'[b]]
      BY <2>1
    <3>2. \A b \in Blocks : /\ inStack'[b].vars = InitialInStack(b).vars
                            /\ inStack'[b].top = InitialInStack(b).top
                            /\ DOMAIN inStack'[b] = {"inited", "vars", "top"}
      BY <1>0, <2>1, InitialRow
    <3>3. \A b \in Blocks : Laid(inStack'[b].vars, base, inStack'[b].top) /\ inStack'[b].top <= base + 1
      BY <1>0, <3>2, InitialRow
    <3> QED BY <1>0, <2>2, <2>4, <3>1, <3>2, <3>3 DEF HandedInv
  <2>8. ParamsInv'
    BY <1>0, <2>6, ParamsNone
  <2>9. CodeInv'
    <3>1. ArgsEnd \in Nat
      BY <1>0, LaidRow
    <3>2. IsSeq(InitLocals) /\ \A j \in DOMAIN InitLocals : Placed(InitLocals[j], base + 1)
      BY <1>0, <2>5, <3>1, InitLocalsPlaced
    <3> QED BY <2>1, <2>4, <3>2 DEF CodeInv
  <2>10. VarsInv'
    BY <1>0, <2>1 DEF VarsInv, ArgsEnd
  <2>11. BodyInv'
    BY <1>0, <2>1, <2>2, <2>3, <2>6, <2>7, <2>8 DEF BodyInv
  <2> QED BY <1>0, <2>1, <2>9, <2>10, <2>11 DEF IInv
<1> QED BY <1>1, <1>2

LEMMA EnterBlockInv == ASSUME IInv, EnterBlock PROVE IInv'
<1> DEFINE next == NextBlock(bb)
<1>0. /\ phase = "body" /\ phase' = "body" /\ il = BlockEnd(bb) /\ LaterBlocks(bb) # {}
      /\ stack' = inStack[next].vars /\ top' = inStack[next].top
      /\ inStack' = [inStack EXCEPT ![next].inited = TRUE]
      /\ UNCHANGED <<phase, method, argVars, localVars, base, il, maxStack, params, hl>>
  BY DEF EnterBlock
<1>1. /\ method \in Methods /\ base \in Nat /\ maxStack \in Nat /\ Splits \subseteq 1..CodeEnd
      /\ il \in Nat \ {0} /\ base <= maxStack /\ HandedInv /\ ParamsInv /\ CodeInv /\ VarsInv
  BY <1>0 DEF IInv, BodyInv
<1>2. next \in Blocks /\ Blocks' = Blocks /\ Splits' = Splits /\ CodeEnd' = CodeEnd
  BY <1>0, <1>1, NextBlockIn, BlocksSame
<1>3. FrameTop' = FrameTop
  BY <1>0 DEF FrameTop
<1>4. params = <<>>
  BY <1>0, <1>1 DEF ParamsInv, InBody
<1> HIDE DEF next
<1>5. StackInv'
  BY <1>0, <1>1, <1>2, <1>3 DEF StackInv, HandedInv
<1>6. HandedInv'
  <2>1. inStack' = [b \in Blocks |-> inStack'[b]]
    BY <1>0, <1>1 DEF HandedInv
  <2>2. \A b \in Blocks : /\ inStack'[b].vars = inStack[b].vars
                          /\ inStack'[b].top = inStack[b].top
                          /\ DOMAIN inStack'[b] = {"inited", "vars", "top"}
    BY <1>0, <1>1 DEF HandedInv
  <2> QED BY <1>0, <1>1, <1>2, <1>3, <2>1, <2>2 DEF HandedInv
<1>7. ParamsInv'
  BY <1>0, <1>1, <1>4, <1>5, ParamsNone
<1>8. CodeInv' /\ VarsInv'
  BY <1>0, <1>1, <1>3 DEF CodeInv, VarsInv, ArgsEnd
<1>9. BodyInv'
  BY <1>0, <1>1, <1>2, <1>5, <1>6, <1>7 DEF BodyInv
<1> QED BY <1>0, <1>1, <1>8, <1>9 DEF IInv

LEMMA FinishInv == ASSUME IInv, Finish PROVE IInv'
  BY PhaseOnly DEF Finish, bodyVars

LEMMA RejectInv == ASSUME IInv, Reject PROVE IInv'
  BY PhaseOnly DEF Reject, InBody, bodyVars

LEMMA UnchangedInv == ASSUME IInv, UNCHANGED tvars PROVE IInv'
<1>1. UNCHANGED <<phase, method, argVars, localVars, base, inStack, bb, il,
                  stack, top, maxStack, params, hl>>
  BY DEF tvars
<1>2. Blocks' = Blocks /\ Splits' = Splits /\ CodeEnd' = CodeEnd
  BY <1>1, BlocksSame
<1>3. InBody' = InBody /\ Instr' = Instr
  BY <1>1, BlockSame
<1>4. FrameTop' = FrameTop /\ ParamSlots' = ParamSlots /\ ArgsEnd' = ArgsEnd
  BY <1>1 DEF FrameTop, ParamSlots, ArgsEnd
<1>5. VarsInv' /\ CodeInv'
  BY <1>1, <1>4 DEF IInv, VarsInv, CodeInv
<1>6. phase = "body" => BodyInv'
  <2> HAVE phase = "body"
  <2>1. StackInv' /\ HandedInv'
    BY <1>1, <1>2, <1>4 DEF IInv, BodyInv, StackInv, HandedInv
  <2>2. ParamsInv'
    BY <1>1, <1>3, <1>4 DEF IInv, BodyInv, ParamsInv
  <2> QED BY <1>1, <1>2, <2>1, <2>2 DEF IInv, BodyInv
<1> QED BY <1>1, <1>5, <1>6 DEF IInv

-----------------------------------------------------------------------------
(* The theorems. *)

LEMMA InitInv == Init => IInv
<1> SUFFICES ASSUME Init PROVE IInv
  OBVIOUS
<1>1. /\ phase = "args" /\ method \in Methods /\ argVars = <<>> /\ localVars = <<>> /\ base = 0
      /\ maxStack = 0 /\ params = <<>> /\ hl = <<>>
  BY DEF Init, TInit
<1>2. VarsInv
  BY <1>1, LaidEmpty DEF VarsInv
<1>3. CodeInv
  BY <1>1, NoSeq DEF CodeInv
<1> QED BY <1>1, <1>2, <1>3 DEF IInv

LEMMA InstructionInv == ASSUME IInv, Instruction PROVE IInv'
  BY LoadOrStoreInv, BinArithInv, BinBitInv, ShiftInv, UnaryInv, CompareInv, ConvertInv,
     AddressOfInv, IndirectInv, ClearOrCopyInv, ObjectAtInv, FieldInv, StaticFieldInv,
     ElementInv, StoreElementInv, BranchInv, CondBranchInv, SwitchInv, PopParamInv,
     CallInv, NewObjInv, ReturnInv, ThrowInv, LeaveInv
  DEF Instruction

LEMMA NextInv == IInv /\ [Next]_vars => IInv'
<1> SUFFICES ASSUME IInv, [Next]_vars PROVE IInv'
  OBVIOUS
<1>1. CASE Compile
  BY <1>1, SetupArgInv, SetupLocalInv, SetupBlocksInv, InstructionInv, EnterBlockInv,
     FinishInv, RejectInv
  DEF Compile, Transform
<1>2. CASE Assemble
  <2>1. /\ phase = "transformed" /\ phase' = "call"
        /\ UNCHANGED <<method, argVars, localVars, base, maxStack, hl>>
    BY <1>2 DEF Assemble
  <2> QED BY <2>1, PhaseOnly
<1>3. CASE PassArg
  BY <1>3, UnchangedInv DEF PassArg
<1>4. CASE Enter
  <2>1. /\ phase = "call" /\ phase' = "run"
        /\ UNCHANGED <<method, argVars, localVars, base, maxStack, hl>>
    BY <1>4 DEF Enter
  <2> QED BY <2>1, PhaseOnly
<1>5. CASE RunIL
  BY <1>5, UnchangedInv DEF RunIL
<1>6. CASE RunCode
  BY <1>6, UnchangedInv DEF RunCode
<1>7. CASE SkipCode
  BY <1>7, UnchangedInv DEF SkipCode
<1>8. CASE UNCHANGED vars
  BY <1>8, UnchangedInv DEF vars
<1> QED BY <1>1, <1>2, <1>3, <1>4, <1>5, <1>6, <1>7, <1>8 DEF Next

LEMMA InvInFrame == IInv => OperandsInFrame
  BY DEF IInv, CodeInv, Placed, OperandsInFrame

\* A row that ends where another begins shares no slot with it.
LEMMA LaidApart ==
  ASSUME NEW us, NEW vs, NEW a \in Nat, NEW b, NEW c \in Nat, NEW d,
         Laid(us, a, b), Laid(vs, c, d), b <= c
  PROVE  Apart(us, vs)
<1>1. b \in Nat /\ \A i \in DOMAIN us : us[i] \in Slotted /\ End(us[i]) <= b
  BY LaidRow
<1>2. \A j \in DOMAIN vs : vs[j] \in Slotted /\ c <= vs[j].offset
  BY LaidRow
<1> SUFFICES ASSUME NEW i \in DOMAIN us, NEW j \in DOMAIN vs PROVE End(us[i]) <= vs[j].offset
  BY DEF Apart
<1>3. End(us[i]) \in Nat /\ vs[j].offset \in Nat
  BY <1>1, <1>2, EndNat
<1> QED BY <1>1, <1>2, <1>3

LEMMA InvApart == IInv => SlotsApart
<1> SUFFICES ASSUME IInv, phase = "body" PROVE SlotsApart
  BY DEF SlotsApart
<1>1. /\ Laid(argVars, 0, ArgsEnd) /\ Laid(localVars, ArgsEnd, base)
      /\ Laid(stack, base, top) /\ Laid(params, top, top + ParamSlots) /\ base \in Nat
  BY DEF IInv, VarsInv, BodyInv, StackInv, ParamsInv
<1>2. ArgsEnd \in Nat /\ ArgsEnd <= base /\ top \in Nat /\ 0 \in Nat
  BY <1>1, LaidRow
<1>a. ArgsEnd <= ArgsEnd /\ top <= top
  BY <1>2
<1>3. Apart(argVars, localVars)
  BY <1>1, <1>2, <1>a, LaidApart
<1>4. Apart(argVars, stack)
  BY <1>1, <1>2, <1>a, LaidApart
<1>5. Apart(localVars, stack)
  BY <1>1, <1>2, <1>a, LaidApart
<1>6. Apart(stack, params)
  BY <1>1, <1>2, <1>a, LaidApart
<1>7. \A vs \in {argVars, localVars, stack, params} : ApartWithin(vs)
  BY <1>1 DEF Laid
<1> QED BY <1>3, <1>4, <1>5, <1>6, <1>7 DEF SlotsApart

(* hl::Transformer, whatever the method and its control flow: everything an  *)
(* emitted instruction reads or writes, the locals zeroed at the head and    *)
(* the parameters left for a call lie within max_stack_object_size.          *)
THEOREM CodeInFrame == Spec => []OperandsInFrame
<1>1. Init => IInv
  BY InitInv
<1>2. IInv /\ [Next]_vars => IInv'
  BY NextInv
<1>3. IInv => OperandsInFrame
  BY InvInFrame
<1> QED BY <1>1, <1>2, <1>3, PTL DEF Spec

(* While hl::Transformer walks a method, its arguments, its locals, the      *)
(* entries of the simulated stack and the parameters popped for a call are   *)
(* never given a slot in common, whichever branch handed the stack over.     *)
THEOREM VariablesApart == Spec => []SlotsApart
<1>1. Init => IInv
  BY InitInv
<1>2. IInv /\ [Next]_vars => IInv'
  BY NextInv
<1>3. IInv => SlotsApart
  BY InvApart
<1> QED BY <1>1, <1>2, <1>3, PTL DEF Spec

-----------------------------------------------------------------------------
(***************************************************************************)
(* The frame while the code runs.  The second transformer keeps the slots  *)
(* of an instruction, so what an instruction writes follows from its       *)
(* opcode, its operands and the size of its result.                        *)
(*                                                                         *)
(* LoweredCode is a recursive function on 0..n: it exists, so it satisfies *)
(* its equation, and each of its entries is the lowering of an instruction. *)
(***************************************************************************)
LEMMA Induct ==
  ASSUME NEW n \in Nat, NEW S, 0 \in S, \A i \in 0..(n - 1) : i \in S => i + 1 \in S
  PROVE  0..n \subseteq S
<1> DEFINE T == (0..n) \ S
<1>1. ASSUME T # {} PROVE FALSE
  <2>1. IsWellFoundedOn(OpToRel(<, Nat), Nat)
    BY NatLessThanWellFounded
  <2>2. T \subseteq Nat
    OBVIOUS
  <2> HIDE DEF T
  <2>3. PICK m \in T : \A s \in T : ~ (<<s, m>> \in OpToRel(<, Nat))
    BY <1>1, <2>1, <2>2, WFMin
  <2>4. \A s \in T : ~ (s < m)
    BY <2>2, <2>3 DEF OpToRel
  <2> USE DEF T
  <2>5. m \in Nat /\ m # 0 /\ m <= n
    OBVIOUS
  <2>6. m - 1 \in 0..(n - 1) /\ m - 1 \notin T /\ m - 1 \in 0..n
    BY <2>4, <2>5
  <2> QED BY <2>6
<1> QED BY <1>1

Rounds(n, T) == [(1..n) \X T -> T]
Loops(n, T, e, step) == {f \in [0..n -> T] : f[0] = e /\ \A i \in 1..n : f[i] = step[<<i, f[i - 1]>>]}

LEMMA Recursion ==
  ASSUME NEW n \in Nat, NEW T, NEW e \in T, NEW step \in Rounds(n, T)
  PROVE  Loops(n, T, e, step) # {}
<1> USE DEF Rounds
<1> DEFINE Upto(m, f) == f \in [0..m -> T] /\ f[0] = e /\ \A i \in 1..m : f[i] = step[<<i, f[i - 1]>>]
           S == {m \in 0..n : \E f : Upto(m, f)}
<1>1. 0 \in S
  <2>1. Upto(0, [i \in 0..0 |-> e])
    OBVIOUS
  <2>2. 0 \in 0..n
    OBVIOUS
  <2> QED BY <2>1, <2>2
<1>2. ASSUME NEW m \in 0..(n - 1), m \in S PROVE m + 1 \in S
  <2>1. PICK f : Upto(m, f)
    BY <1>2
  <2> DEFINE v == step[<<m + 1, f[m]>>]
             g == [i \in 0..(m + 1) |-> IF i = m + 1 THEN v ELSE f[i]]
  <2>2. m \in Nat /\ m + 1 \in 1..n /\ m + 1 \in 0..n
    OBVIOUS
  <2>3. f \in [0..m -> T] /\ f[m] \in T /\ v \in T
    BY <2>1, <2>2
  <2>4. g \in [0..(m + 1) -> T] /\ g[m + 1] = v /\ \A i \in 0..m : g[i] = f[i]
    BY <2>2, <2>3
  <2>5. \A i \in 1..m : f[i] = step[<<i, f[i - 1]>>]
    BY <2>1
  <2> HIDE DEF g
  <2>6. ASSUME NEW i \in 1..(m + 1) PROVE g[i] = step[<<i, g[i - 1]>>]
    <3>1. CASE i = m + 1
      BY <2>2, <2>4, <3>1
    <3>2. CASE i # m + 1
      <4>1. i \in 1..m /\ i - 1 \in 0..m /\ i \in 0..m
        BY <2>2, <3>2
      <4> QED BY <2>4, <2>5, <4>1
    <3> QED BY <3>1, <3>2
  <2>7. g[0] = e
    BY <2>1, <2>2, <2>4
  <2>8. Upto(m + 1, g)
    BY <2>4, <2>6, <2>7
  <2> QED BY <2>2, <2>8
<1> HIDE DEF S
<1>3. n \in S
  BY <1>1, <1>2, Induct
<1> QED BY <1>3 DEF S, Loops

LEMMA CodeIsLowered ==
  ASSUME IsSeq(hl)
  PROVE  \A p \in DOMAIN LoweredCode : \E k \in DOMAIN hl : LoweredCode[p] = Lower(hl[k])
<1> DEFINE L == Len(hl)
           low == [k \in DOMAIN hl |-> Lower(hl[k])]
           D == {low[k] : k \in DOMAIN hl}
           Rule(f) == [n \in 0..L |-> IF n = 0 THEN <<>>
                                      ELSE IF Lower(hl[n]).op = "Nop" THEN f[n - 1]
                                      ELSE Append(f[n - 1], Lower(hl[n]))]
           kept == CHOOSE f : f = Rule(f)
           step == [q \in (1..L) \X Seq(D) |-> IF low[q[1]].op = "Nop" THEN q[2]
                                               ELSE Append(q[2], low[q[1]])]
<1>1. L \in Nat /\ DOMAIN hl = 1..L
  BY DEF IsSeq
<1>2. LoweredCode = kept[L]
  BY DEF LoweredCode
<1>3. \A i \in 1..L : low[i] \in D /\ low[i] = Lower(hl[i])
  BY <1>1
<1>4. DOMAIN low = 1..L /\ \A d \in D : \E k \in DOMAIN hl : d = Lower(hl[k])
  BY <1>1
<1> HIDE DEF low, D, L, kept, Rule
<1>5. step \in [(1..L) \X Seq(D) -> Seq(D)]
  BY <1>3
<1>6. \A i \in 1..L, s \in Seq(D) :
        step[<<i, s>>] = IF low[i].op = "Nop" THEN s ELSE Append(s, low[i])
  OBVIOUS
<1>7. <<>> \in Seq(D)
  OBVIOUS
<1> HIDE DEF step
<1>8. PICK f \in [0..L -> Seq(D)] : f[0] = <<>> /\ \A i \in 1..L : f[i] = step[<<i, f[i - 1]>>]
  <2>1. step \in Rounds(L, Seq(D))
    BY <1>5 DEF Rounds
  <2>2. Loops(L, Seq(D), <<>>, step) # {}
    BY <1>1, <1>7, <2>1, Recursion
  <2> QED BY <2>2 DEF Loops
<1>9. f = Rule(f)
  <2> USE DEF Rule
  <2>1. ASSUME NEW i \in 0..L PROVE f[i] = Rule(f)[i]
    <3>1. CASE i = 0
      BY <1>8, <3>1
    <3>2. CASE i # 0
      <4>1. i \in 1..L /\ i - 1 \in 0..L
        BY <1>1, <3>2
      <4>2. f[i - 1] \in Seq(D)
        BY <4>1
      <4> QED BY <1>3, <1>6, <1>8, <3>2, <4>1, <4>2
    <3> QED BY <3>1, <3>2
  <2>2. f = [n \in 0..L |-> f[n]]
    BY <1>8
  <2>3. f = [n \in 0..L |-> Rule(f)[n]]
    BY <2>1, <2>2
  <2> QED BY <2>3
<1>10. kept = Rule(kept)
  BY <1>9 DEF kept
<1>11. /\ kept[0] = <<>>
       /\ \A n \in 1..L : kept[n] = IF low[n].op = "Nop" THEN kept[n - 1]
                                    ELSE Append(kept[n - 1], low[n])
  <2>1. 0 \in 0..L /\ \A n \in 1..L : n \in 0..L /\ n # 0
    BY <1>1
  <2>2. \A n \in 0..L : kept[n] = Rule(kept)[n]
    BY <1>10
  <2> QED BY <1>3, <2>1, <2>2 DEF Rule
<1> DEFINE S == {n \in 0..L : kept[n] \in Seq(D)}
<1>12. 0 \in S
  <2>1. 0 \in 0..L /\ kept[0] \in Seq(D)
    BY <1>1, <1>7, <1>11
  <2> QED BY <2>1
<1>13. ASSUME NEW n \in 0..(L - 1), n \in S PROVE n + 1 \in S
  <2>1. n + 1 \in 1..L /\ n + 1 \in 0..L /\ (n + 1) - 1 = n /\ kept[n] \in Seq(D)
    BY <1>1, <1>13
  <2>2. kept[n + 1] = IF low[n + 1].op = "Nop" THEN kept[n] ELSE Append(kept[n], low[n + 1])
    BY <1>11, <2>1
  <2>3. low[n + 1] \in D
    BY <1>3, <2>1
  <2>4. Append(kept[n], low[n + 1]) \in Seq(D)
    BY <2>1, <2>3
  <2>5. kept[n + 1] = kept[n] \/ kept[n + 1] = Append(kept[n], low[n + 1])
    BY <2>2
  <2>6. kept[n + 1] \in Seq(D)
    BY <2>1, <2>4, <2>5
  <2> QED BY <2>1, <2>6
<1> HIDE DEF S
<1>14. 0..L \subseteq S
  BY ONLY <1>1, <1>12, <1>13, Induct
<1>15. kept[L] \in Seq(D)
  BY <1>1, <1>14 DEF S
<1>16. \A p \in DOMAIN LoweredCode : LoweredCode[p] \in D
  BY <1>2, <1>15
<1> QED BY <1>4, <1>16

-----------------------------------------------------------------------------
(* What the instructions are: which of them write, and how many slots. *)

Copies  == {"LdArg", "LdLoc", "Dup"}
Stores  == {"StArg", "StLoc"}
Loads   == {"LdInd", "LdObj", "Ldfld", "Ldsfld", "Ldelem", "LdelemAny"}
Results == {"LdcI4", "LdcI8", "LdNull", "LdLen"} \cup AddressOps
           \cup ArithOps \cup BitOps \cup ShiftOps \cup UnaryOps \cup CompareOps
Silent  == {"Br", "Switch", "Throw", "Leave", "StInd", "InitObj", "CpObj", "StObj", "Stfld",
            "Stelem", "StelemAny", "InitLocals"} \cup CondBranches

\* The slots below and above the parameters that an object made on the
\* stack takes, with the pointer to it, while its constructor runs.
RoomToMake(ret) == IF ret = "Ref" THEN 1 ELSE StackObjects(ret) + 1

\* An instruction has the operands of its kind, and what it writes at the
\* size of a value type has that size.
Sized(inst, limit) ==
    \/ inst.op \in Silent
    \/ inst.op = "Stsfld" /\ inst.of.at \in Nat
    \/ inst.op = "Ret" /\ (inst.src = <<>> \/ 1 \in DOMAIN inst.src)
    \/ inst.op \in Stores \cup Results /\ 1 \in DOMAIN inst.dst
    \/ inst.op = "Conv" /\ 1 \in DOMAIN inst.dst
          /\ inst.of.kind \in {"Conv", "ConvOvf", "ConvOvfUn"}
    \/ /\ inst.op \in Copies /\ 1 \in DOMAIN inst.src /\ 1 \in DOMAIN inst.dst
       /\ inst.dst[1].size = inst.src[1].size
    \/ /\ inst.op \in Loads /\ 1 \in DOMAIN inst.dst
       /\ inst.of.type \in {"Any", "Other"} => inst.dst[1].size = StackObjects("Any")
    \/ /\ inst.op \in {"Call", "CallVirt"}
       /\ inst.of.ret = "Void"
          \/ /\ 1 \in DOMAIN inst.dst /\ inst.dst[1].offset = inst.of.frame
             /\ inst.dst[1].size = StackObjects(inst.of.ret)
    \/ /\ inst.op = "NewObj" /\ inst.of.frame \in Nat /\ inst.of.total \in Int
       /\ inst.of.frame + RoomToMake(inst.of.ret) + inst.of.total \in Nat
       /\ inst.of.frame + RoomToMake(inst.of.ret) + inst.of.total <= limit

SizesInv == \A k \in DOMAIN hl : Sized(hl[k], FrameTop)

\* A value type with a constructor has two bytes or more.
RoomForValues ==
    \A m \in Methods : \A k \in DOMAIN m.body :
        m.body[k].op = "NewObj" /\ m.body[k].ret # "Ref" => ByteSize(m.body[k].ret) >= 2

LEMMA SizedGrows ==
  ASSUME NEW inst, NEW m \in Nat, NEW n \in Nat, m <= n, Sized(inst, m)
  PROVE  Sized(inst, n)
<1>1. CASE inst.op = "NewObj"
  <2> DEFINE r == inst.of.frame + RoomToMake(inst.of.ret) + inst.of.total
  <2>1. r \in Nat /\ r <= m /\ inst.of.frame \in Nat /\ inst.of.total \in Int
    BY <1>1 DEF Sized, Silent, Stores, Results, AddressOps, ArithOps, BitOps, ShiftOps,
                UnaryOps, CompareOps, Copies, Loads, CondBranches
  <2> HIDE DEF r
  <2>2. r <= n
    BY <2>1
  <2> QED BY <1>1, <2>1, <2>2 DEF Sized, r
<1>2. CASE inst.op # "NewObj"
  BY <1>2 DEF Sized
<1> QED BY <1>1, <1>2

LEMMA SizesGrow ==
  ASSUME IInv, IInv', base' = base, maxStack <= maxStack', SizesInv,
         NEW insts, IsSeq(insts), \A k \in DOMAIN insts : Sized(insts[k], FrameTop'),
         hl' = hl \o insts
  PROVE  SizesInv'
<1>1. FrameTop \in Nat /\ FrameTop' \in Nat /\ FrameTop <= FrameTop'
  BY FrameTopNat, FrameTopGrows DEF IInv
<1>2. \A k \in DOMAIN hl : Sized(hl[k], FrameTop')
  BY <1>1, SizedGrows DEF SizesInv
<1>3. \A k \in DOMAIN (hl \o insts) :
              \/ k \in DOMAIN hl /\ (hl \o insts)[k] = hl[k]
              \/ k - Len(hl) \in DOMAIN insts /\ (hl \o insts)[k] = insts[k - Len(hl)]
  BY Concatenated DEF IInv, CodeInv
<1>4. \A k \in DOMAIN (hl \o insts) : Sized((hl \o insts)[k], FrameTop')
  BY <1>2, <1>3
<1> QED BY <1>4 DEF SizesInv

LEMMA SizedEmit ==
  ASSUME IInv, IInv', Keeps, SizesInv, NEW k, NEW pushed,
         NEW insts, IsSeq(insts), \A j \in DOMAIN insts : Sized(insts[j], FrameTop'),
         Simulate(k, pushed, insts)
  PROVE  SizesInv'
<1>1. base' = base /\ hl' = hl \o insts /\ maxStack \in Nat /\ maxStack' \in Nat
  BY DEF Keeps, Simulate, IInv
<1>2. maxStack <= maxStack'
  <2>1. PICK t : maxStack' = maxStack \/ maxStack' = LargerOf(maxStack, t)
    BY DEF Simulate
  <2> QED BY <1>1, <2>1 DEF LargerOf
<1> QED BY <1>1, <1>2, SizesGrow

LEMMA SizedOne ==
  ASSUME IInv, IInv', Keeps, SizesInv, NEW k, NEW pushed,
         NEW inst, Sized(inst, FrameTop'), Simulate(k, pushed, <<inst>>)
  PROVE  SizesInv'
<1> DEFINE insts == <<inst>>
<1>1. IsSeq(insts) /\ \A j \in DOMAIN insts : Sized(insts[j], FrameTop')
  BY OneSeq
<1>2. Simulate(k, pushed, insts)
  OBVIOUS
<1> HIDE DEF insts
<1> QED BY <1>1, <1>2, SizedEmit

LEMMA SizedNone ==
  ASSUME IInv, IInv', Keeps, SizesInv, NEW k, NEW pushed, Simulate(k, pushed, <<>>)
  PROVE  SizesInv'
<1>1. IsSeq(<<>>) /\ \A j \in DOMAIN <<>> : Sized(<<>>[j], FrameTop')
  BY NoSeq
<1> QED BY <1>1, SizedEmit

LEMMA SizedSilent ==
  ASSUME NEW op \in Silent, NEW of, NEW srcs, NEW dsts, NEW n
  PROVE  Sized(Inst(op, of, srcs, dsts), n)
  BY DEF Inst, Sized

LEMMA SizedResult ==
  ASSUME NEW op \in Stores \cup Results, NEW of, NEW srcs, NEW dst, NEW n
  PROVE  Sized(Inst(op, of, srcs, <<dst>>), n)
<1>1. 1 \in DOMAIN <<dst>>
  BY OneSeq
<1> DEFINE dsts == <<dst>>
<1>2. 1 \in DOMAIN dsts
  BY <1>1
<1> HIDE DEF dsts
<1>3. Sized(Inst(op, of, srcs, dsts), n)
  BY <1>2 DEF Inst, Sized
<1> QED BY <1>3 DEF dsts

LEMMA SizedConv ==
  ASSUME NEW of, of.kind \in {"Conv", "ConvOvf", "ConvOvfUn"}, NEW srcs, NEW dst, NEW n
  PROVE  Sized(Inst("Conv", of, srcs, <<dst>>), n)
<1>1. 1 \in DOMAIN <<dst>>
  BY OneSeq
<1> DEFINE dsts == <<dst>>
<1>2. 1 \in DOMAIN dsts
  BY <1>1
<1> HIDE DEF dsts
<1>3. Sized(Inst("Conv", of, srcs, dsts), n)
  BY <1>2 DEF Inst, Sized
<1> QED BY <1>3 DEF dsts

LEMMA SizedCopy ==
  ASSUME NEW op \in Copies, NEW of, NEW src, NEW dst, dst.size = src.size, NEW n
  PROVE  Sized(Inst(op, of, <<src>>, <<dst>>), n)
<1> DEFINE srcs == <<src>>
           dsts == <<dst>>
<1>1. 1 \in DOMAIN srcs /\ 1 \in DOMAIN dsts /\ dsts[1].size = srcs[1].size
  BY OneSeq
<1> HIDE DEF srcs, dsts
<1>2. Sized(Inst(op, of, srcs, dsts), n)
  BY <1>1 DEF Inst, Sized
<1> QED BY <1>2 DEF srcs, dsts

LEMMA SizedLoad ==
  ASSUME NEW op \in Loads, NEW of, NEW srcs, NEW dst, NEW n,
         of.type \in {"Any", "Other"} => dst.size = StackObjects("Any")
  PROVE  Sized(Inst(op, of, srcs, <<dst>>), n)
<1> DEFINE dsts == <<dst>>
<1>1. 1 \in DOMAIN dsts /\ dsts[1] = dst
  BY OneSeq
<1> HIDE DEF dsts
<1>2. Sized(Inst(op, of, srcs, dsts), n)
  BY <1>1 DEF Inst, Sized
<1> QED BY <1>2 DEF dsts

\* A value type has the same size under both of its names.
LEMMA OtherSize ==
  /\ StackObjects("Any") = StackObjects("Other")
  /\ \A n : Var("Other", n).size = StackObjects("Any")
  /\ \A type \in {"Any", "Other"} : \A n :
        Primitive(DataTypeOf(type), n).size = StackObjects("Any")
<1>1. ByteSize("Any") = ByteSize("Other")
  BY DEF ByteSize
<1>2. StackObjects("Any") = StackObjects("Other")
  BY <1>1 DEF StackObjects
<1>3. \A type \in {"Any", "Other"} : PrimitiveReduce(DataTypeOf(type)) = "Other"
  BY DEF PrimitiveReduce, DataTypeOf
<1> QED BY <1>2, <1>3 DEF Var, Primitive

-----------------------------------------------------------------------------
(* One lemma for each action of the transformer. *)

LEMMA LoadOrStoreSizes == ASSUME IInv, IInv', SizesInv, LoadOrStore PROVE SizesInv'
<1>0. InBody /\ Keeps
  BY DEF LoadOrStore
<1>1. ASSUME NEW v, Load(v), Instr.op \in Copies, v \in Slotted PROVE SizesInv'
  <2> DEFINE dst == [v EXCEPT !.offset = top]
  <2>1. dst.size = v.size
    BY <1>1 DEF Slotted
  <2>2. Simulate(0, <<dst>>, <<Inst(Instr.op, Instr, <<v>>, <<dst>>)>>)
    BY <1>1 DEF Load
  <2> HIDE DEF dst
  <2>3. Sized(Inst(Instr.op, Instr, <<v>>, <<dst>>), FrameTop')
    BY <1>1, <2>1, SizedCopy
  <2> QED BY <1>0, <2>2, <2>3, SizedOne
<1>2. ASSUME NEW v, StoreTo(v), Instr.op \in Stores PROVE SizesInv'
  <2>1. Simulate(1, <<>>, <<Inst(Instr.op, Instr, <<FromTop(1)>>, <<v>>)>>)
    BY <1>2 DEF StoreTo
  <2>2. Sized(Inst(Instr.op, Instr, <<FromTop(1)>>, <<v>>), FrameTop')
    BY <1>2, SizedResult
  <2> QED BY <1>0, <2>1, <2>2, SizedOne
<1>3. ASSUME NEW data, Constant(data), Instr.op \in Results PROVE SizesInv'
  <2> DEFINE dst == Primitive(data, top)
  <2>1. Simulate(0, <<dst>>, <<Inst(Instr.op, Instr, <<>>, <<dst>>)>>)
    BY <1>3 DEF Constant
  <2> HIDE DEF dst
  <2>2. Sized(Inst(Instr.op, Instr, <<>>, <<dst>>), FrameTop')
    BY <1>3, SizedResult
  <2> QED BY <1>0, <2>1, <2>2, SizedOne
<1>6. \A n \in DOMAIN argVars : argVars[n] \in Slotted
  BY <1>0, VarsReadable DEF Readable
<1>7. \A n \in DOMAIN localVars : localVars[n] \in Slotted
  BY <1>0, VarsReadable DEF Readable
<1>8. stack # <<>> => FromTop(1) \in Slotted
  BY <1>0, OneOperand
<1>10. CASE Instr.op = "LdArg" /\ Instr.n \in DOMAIN argVars /\ Load(argVars[Instr.n])
  BY <1>10, <1>1, <1>6 DEF Copies
<1>11. CASE Instr.op = "LdLoc" /\ Instr.n \in DOMAIN localVars /\ Load(localVars[Instr.n])
  BY <1>11, <1>1, <1>7 DEF Copies
<1>12. CASE Instr.op = "Dup" /\ stack # <<>> /\ Load(FromTop(1))
  BY <1>12, <1>1, <1>8 DEF Copies
<1>13. CASE Instr.op = "LdcI4" /\ Constant("I4")
  BY <1>13, <1>3 DEF Results
<1>14. CASE Instr.op = "LdcI8" /\ Constant("I8")
  BY <1>14, <1>3 DEF Results
<1>15. CASE Instr.op = "LdNull" /\ Constant("RefOrPtr")
  BY <1>15, <1>3 DEF Results
<1>16. CASE Instr.op = "StArg" /\ StoreTo(argVars[Instr.n])
  BY <1>16, <1>2 DEF Stores
<1>17. CASE Instr.op = "StLoc" /\ StoreTo(localVars[Instr.n])
  BY <1>17, <1>2 DEF Stores
<1>18. CASE Instr.op = "Nop" /\ Simulate(0, <<>>, <<>>)
  BY <1>18, <1>0, SizedNone
<1>19. CASE Instr.op = "Pop" /\ Simulate(1, <<>>, <<>>)
  BY <1>19, <1>0, SizedNone
<1> QED BY <1>10, <1>11, <1>12, <1>13, <1>14, <1>15, <1>16, <1>17, <1>18, <1>19 DEF LoadOrStore

LEMMA BinArithSizes == ASSUME IInv, IInv', SizesInv, BinArith PROVE SizesInv'
<1> DEFINE left == FromTop(2)
           right == FromTop(1)
           dst == Result(2, BinResult(left.data, right.data))
           wide == Widening(left, right)
           main == Inst(Instr.op, Instr, <<left, right>>, <<dst>>)
<1>0. /\ InBody /\ Keeps /\ Instr.op \in ArithOps /\ TwoPrimitives
      /\ Simulate(2, <<dst>>, wide \o <<main>>)
  BY DEF BinArith
<1>1. Sized(main, FrameTop')
  <2> HIDE DEF dst, left, right
  <2>1. Instr.op \in Stores \cup Results
    BY <1>0 DEF Results
  <2> QED BY <2>1, SizedResult
<1>2. /\ left.data \in DataTypes /\ right.data \in DataTypes
      /\ IsPrimitive(left.data) /\ IsPrimitive(right.data)
  BY <1>0, TwoOperands DEF TwoPrimitives
<1>3. \A from, to : Sized(Widen(from, to), FrameTop')
  <2> TAKE from, to
  <2> DEFINE of == [op |-> "Conv", kind |-> "Conv",
                    type |-> CASE to.data = "I4" -> "I4" [] to.data = "I8" -> "I8"
                               [] to.data = "RefOrPtr" -> "I"]
             dst2 == [to EXCEPT !.offset = from.offset]
  <2>1. of.kind \in {"Conv", "ConvOvf", "ConvOvfUn"}
    OBVIOUS
  <2>2. Widen(from, to) = Inst("Conv", of, <<from>>, <<dst2>>)
    BY DEF Widen
  <2> HIDE DEF of, dst2
  <2>3. Sized(Inst("Conv", of, <<from>>, <<dst2>>), FrameTop')
    BY <2>1, SizedConv
  <2> QED BY <2>2, <2>3
<1>4. IsSeq(wide) /\ \A j \in DOMAIN wide : Sized(wide[j], FrameTop')
  <2> HIDE DEF dst, left, right, main
  <2>1. wide = <<>> \/ \E from, to : wide = <<Widen(from, to)>>
    BY <1>2 DEF Widening, ArithRank, DataTypes, IsPrimitive
  <2> HIDE DEF wide
  <2>2. CASE wide = <<>>
    BY <2>2, NoSeq
  <2>3. ASSUME NEW from, NEW to, wide = <<Widen(from, to)>>
        PROVE  IsSeq(wide) /\ \A j \in DOMAIN wide : Sized(wide[j], FrameTop')
    BY <1>3, <2>3, OneSeq
  <2> QED BY <2>1, <2>2, <2>3
<1> HIDE DEF dst, wide, left, right, main
<1>5. IsSeq(<<main>>) /\ \A j \in DOMAIN <<main>> : Sized(<<main>>[j], FrameTop')
  BY <1>1, OneSeq
<1>6. /\ IsSeq(wide \o <<main>>)
      /\ \A j \in DOMAIN (wide \o <<main>>) : Sized((wide \o <<main>>)[j], FrameTop')
  BY <1>4, <1>5, Concatenated
<1> DEFINE insts == wide \o <<main>>
           pushed == <<dst>>
<1>7. IsSeq(insts) /\ Simulate(2, pushed, insts) /\ \A j \in DOMAIN insts : Sized(insts[j], FrameTop')
  BY <1>0, <1>6
<1> HIDE DEF insts, pushed
<1> QED BY <1>0, <1>7, SizedEmit

\* An operator without widening: one instruction, one result.
LEMMA OperatorSizes ==
  ASSUME IInv, IInv', SizesInv, Keeps, Instr.op \in Results,
         NEW k, NEW dst, NEW srcs, Simulate(k, <<dst>>, <<Inst(Instr.op, Instr, srcs, <<dst>>)>>)
  PROVE  SizesInv'
<1>1. Sized(Inst(Instr.op, Instr, srcs, <<dst>>), FrameTop')
  BY SizedResult
<1> QED BY <1>1, SizedOne

LEMMA OperatorsSizes ==
  ASSUME IInv, IInv', SizesInv, BinBit \/ Shift \/ Unary \/ Compare
  PROVE  SizesInv'
<1>1. CASE BinBit
  <2>1. Keeps /\ Instr.op \in Results
    BY <1>1 DEF BinBit, Results
  <2>2. \E dst, srcs : Simulate(2, <<dst>>, <<Inst(Instr.op, Instr, srcs, <<dst>>)>>)
    BY <1>1 DEF BinBit
  <2> QED BY <2>1, <2>2, OperatorSizes
<1>2. CASE Shift
  <2>1. Keeps /\ Instr.op \in Results
    BY <1>2 DEF Shift, Results
  <2>2. \E dst, srcs : Simulate(2, <<dst>>, <<Inst(Instr.op, Instr, srcs, <<dst>>)>>)
    BY <1>2 DEF Shift
  <2> QED BY <2>1, <2>2, OperatorSizes
<1>3. CASE Unary
  <2>1. Keeps /\ Instr.op \in Results
    BY <1>3 DEF Unary, Results
  <2>2. \E dst, srcs : Simulate(1, <<dst>>, <<Inst(Instr.op, Instr, srcs, <<dst>>)>>)
    BY <1>3 DEF Unary
  <2> QED BY <2>1, <2>2, OperatorSizes
<1>4. CASE Compare
  <2>1. Keeps /\ Instr.op \in Results
    BY <1>4 DEF Compare, Results
  <2>2. \E dst, srcs : Simulate(2, <<dst>>, <<Inst(Instr.op, Instr, srcs, <<dst>>)>>)
    BY <1>4 DEF Compare
  <2> QED BY <2>1, <2>2, OperatorSizes
<1> QED BY <1>1, <1>2, <1>3, <1>4

\* What is known of the operands of an IL instruction.
LEMMA InstrOperands ==
  ASSUME IInv, InBody
  PROVE  /\ Instr.op = "Conv" => Instr.kind \in {"Conv", "ConvOvf", "ConvOvfUn"}
         /\ Instr.op = "Stsfld" => Instr.at \in Nat
         /\ RoomForValues /\ Instr.op = "NewObj" /\ Instr.ret # "Ref" => ByteSize(Instr.ret) >= 2
<1>1. method \in Methods /\ il \in DOMAIN Body
  BY InstrInBody DEF IInv, BodyInv, InBody
<1> QED BY <1>1, MethodAssumption DEF Instr, Body, RoomForValues

LEMMA ConvertSizes == ASSUME IInv, IInv', SizesInv, Convert PROVE SizesInv'
<1> DEFINE src == FromTop(1)
           dst == Result(1, StackType(Instr.type))
<1>0. /\ InBody /\ Keeps /\ Instr.op = "Conv"
      /\ \/ Simulate(1, <<src>>, <<>>)
         \/ Simulate(1, <<dst>>, <<Inst("Conv", Instr, <<src>>, <<dst>>)>>)
  BY DEF Convert
<1> HIDE DEF src, dst
<1>1. Sized(Inst("Conv", Instr, <<src>>, <<dst>>), FrameTop')
  BY <1>0, InstrOperands, SizedConv
<1> QED BY <1>0, <1>1, SizedOne, SizedNone

LEMMA AddressOfSizes == ASSUME IInv, IInv', SizesInv, AddressOf PROVE SizesInv'
<1>1. Keeps /\ Instr.op \in Results
  BY DEF AddressOf, Results, AddressOps
<1>2. \E dst, srcs : Simulate(0, <<dst>>, <<Inst(Instr.op, Instr, srcs, <<dst>>)>>)
  BY DEF AddressOf
<1> QED BY <1>1, <1>2, OperatorSizes

LEMMA EmitSilent ==
  ASSUME IInv, IInv', SizesInv, NEW k, Emit(k, <<>>),
         Instr.op \in Silent \/ (InBody /\ Instr.op = "Stsfld")
  PROVE  SizesInv'
<1>1. Keeps /\ Simulate(k, <<>>, <<Inst(Instr.op, Instr, Names(k), <<>>)>>)
  BY DEF Emit
<1>2. Sized(Inst(Instr.op, Instr, Names(k), <<>>), FrameTop')
  <2>1. CASE Instr.op \in Silent
    BY <2>1, SizedSilent
  <2>2. CASE Instr.op = "Stsfld" /\ InBody
    BY <2>2, InstrOperands DEF Inst, Sized
  <2> QED BY <2>1, <2>2
<1> QED BY <1>1, <1>2, SizedOne

LEMMA EmitLoad ==
  ASSUME IInv, IInv', SizesInv, NEW k, NEW dst, Emit(k, <<dst>>),
         \/ Instr.op \in Results
         \/ /\ Instr.op \in Loads
            /\ Instr.type \in {"Any", "Other"} => dst.size = StackObjects("Any")
  PROVE  SizesInv'
<1>1. Keeps /\ Simulate(k, <<dst>>, <<Inst(Instr.op, Instr, Names(k), <<dst>>)>>)
  BY DEF Emit
<1>2. Sized(Inst(Instr.op, Instr, Names(k), <<dst>>), FrameTop')
  BY SizedResult, SizedLoad
<1> QED BY <1>1, <1>2, SizedOne

\* A load of a variable with its own type, and one that widens it.
LEMMA EmitLoadVar ==
  ASSUME IInv, IInv', SizesInv, NEW k, NEW n, Emit(k, <<Var(Instr.type, n)>>),
         Instr.op \in Loads
  PROVE  SizesInv'
<1> DEFINE dst == Var(Instr.type, n)
<1>1. Emit(k, <<dst>>)
  OBVIOUS
<1>2. Instr.type \in {"Any", "Other"} => dst.size = StackObjects("Any")
  BY OtherSize DEF Var
<1> HIDE DEF dst
<1> QED BY <1>1, <1>2, EmitLoad

LEMMA EmitLoadWide ==
  ASSUME IInv, IInv', SizesInv, NEW k, Emit(k, <<Result(k, DataTypeOf(Instr.type))>>),
         Instr.op \in Loads
  PROVE  SizesInv'
<1> DEFINE dst == Result(k, DataTypeOf(Instr.type))
<1>1. Emit(k, <<dst>>)
  OBVIOUS
<1>2. Instr.type \in {"Any", "Other"} => dst.size = StackObjects("Any")
  BY OtherSize DEF Result
<1> HIDE DEF dst
<1> QED BY <1>1, <1>2, EmitLoad

LEMMA EmitResultSizes ==
  ASSUME IInv, IInv', SizesInv, NEW k, NEW data, Emit(k, <<Result(k, data)>>),
         Instr.op \in Results
  PROVE  SizesInv'
<1> DEFINE dst == Result(k, data)
<1>1. Emit(k, <<dst>>)
  OBVIOUS
<1> HIDE DEF dst
<1> QED BY <1>1, EmitLoad

LEMMA IndirectSizes == ASSUME IInv, IInv', SizesInv, Indirect PROVE SizesInv'
<1>1. CASE Instr.op = "LdInd" /\ Emit(1, <<Result(1, DataTypeOf(Instr.type))>>)
  BY <1>1, EmitLoadWide DEF Loads
<1>2. CASE Instr.op = "StInd" /\ Emit(2, <<>>)
  BY <1>2, EmitSilent DEF Silent
<1> QED BY <1>1, <1>2 DEF Indirect

LEMMA ClearOrCopySizes == ASSUME IInv, IInv', SizesInv, ClearOrCopy PROVE SizesInv'
<1>1. CASE Instr.op = "InitObj" /\ Emit(1, <<>>)
  BY <1>1, EmitSilent DEF Silent
<1>2. CASE Instr.op = "CpObj" /\ Emit(2, <<>>)
  BY <1>2, EmitSilent DEF Silent
<1> QED BY <1>1, <1>2 DEF ClearOrCopy

LEMMA ObjectAtSizes == ASSUME IInv, IInv', SizesInv, ObjectAt PROVE SizesInv'
<1>1. CASE Instr.op = "LdObj" /\ Emit(1, <<Var(Instr.type, TopBelow(1))>>)
  BY <1>1, EmitLoadVar DEF Loads
<1>2. CASE Instr.op = "StObj" /\ Emit(2, <<>>)
  BY <1>2, EmitSilent DEF Silent
<1> QED BY <1>1, <1>2 DEF ObjectAt

LEMMA FieldSizes == ASSUME IInv, IInv', SizesInv, Field PROVE SizesInv'
<1>1. CASE Instr.op = "Ldfld" /\ Emit(1, <<Var(Instr.type, TopBelow(1))>>)
  BY <1>1, EmitLoadVar DEF Loads
<1>2. CASE Instr.op = "Ldflda" /\ Emit(1, <<Result(1, "RefOrPtr")>>)
  BY <1>2, EmitResultSizes DEF Results, AddressOps
<1>3. CASE Instr.op = "Stfld" /\ Emit(2, <<>>)
  BY <1>3, EmitSilent DEF Silent
<1> QED BY <1>1, <1>2, <1>3 DEF Field

LEMMA StaticFieldSizes == ASSUME IInv, IInv', SizesInv, StaticField PROVE SizesInv'
<1>1. CASE Instr.op = "Ldsfld" /\ Emit(0, <<Var(Instr.type, top)>>)
  BY <1>1, EmitLoadVar DEF Loads
<1>2. CASE Instr.op = "Ldsflda" /\ Emit(0, <<Result(0, "RefOrPtr")>>)
  BY <1>2, EmitResultSizes DEF Results, AddressOps
<1>3. CASE InBody /\ Instr.op = "Stsfld" /\ Emit(1, <<>>)
  BY <1>3, EmitSilent
<1> QED BY <1>1, <1>2, <1>3 DEF StaticField

LEMMA ElementSizes == ASSUME IInv, IInv', SizesInv, Element PROVE SizesInv'
<1>1. CASE Instr.op = "LdLen" /\ Emit(1, <<Result(1, "I4")>>)
  BY <1>1, EmitResultSizes DEF Results
<1>2. CASE /\ Instr.op \in {"Ldelema", "Ldelem", "LdelemAny"}
           /\ Emit(2, <<IF Instr.op = "Ldelema" THEN Result(2, "RefOrPtr")
                        ELSE IF Instr.type = "Other" THEN Var("Other", TopBelow(2))
                        ELSE Result(2, DataTypeOf(Instr.type))>>)
  <2>1. CASE Instr.op = "Ldelema"
    <3>1. Emit(2, <<Result(2, "RefOrPtr")>>)
      BY <1>2, <2>1
    <3> QED BY <2>1, <3>1, EmitResultSizes DEF Results, AddressOps
  <2>2. CASE Instr.op # "Ldelema" /\ Instr.type = "Other"
    <3>1. Emit(2, <<Var(Instr.type, TopBelow(2))>>)
      BY <1>2, <2>2
    <3> QED BY <1>2, <2>2, <3>1, EmitLoadVar DEF Loads
  <2>3. CASE Instr.op # "Ldelema" /\ Instr.type # "Other"
    <3>1. Emit(2, <<Result(2, DataTypeOf(Instr.type))>>)
      BY <1>2, <2>3
    <3> QED BY <1>2, <2>3, <3>1, EmitLoadWide DEF Loads
  <2> QED BY <2>1, <2>2, <2>3
<1> QED BY <1>1, <1>2 DEF Element

LEMMA StoreElementSizes == ASSUME IInv, IInv', SizesInv, StoreElement PROVE SizesInv'
<1>1. Instr.op \in Silent /\ Emit(3, <<>>)
  BY DEF StoreElement, Silent
<1> QED BY <1>1, EmitSilent

\* A branch emits at most itself.
LEMMA SilentSizes ==
  ASSUME IInv, IInv', SizesInv, Keeps, NEW k, NEW srcs, Instr.op \in Silent,
         Simulate(k, <<>>, <<>>) \/ Simulate(k, <<>>, <<Inst(Instr.op, Instr, srcs, <<>>)>>)
  PROVE  SizesInv'
<1>1. Sized(Inst(Instr.op, Instr, srcs, <<>>), FrameTop')
  BY SizedSilent
<1> QED BY <1>1, SizedOne, SizedNone

LEMMA BranchesSizes ==
  ASSUME IInv, IInv', SizesInv, Branch \/ CondBranch \/ Switch
  PROVE  SizesInv'
<1>1. CASE Branch
  <2>1. Keeps /\ Instr.op \in Silent
    BY <1>1 DEF Branch, Silent
  <2>2. Simulate(0, <<>>, <<>>) \/ Simulate(0, <<>>, <<Inst(Instr.op, Instr, <<>>, <<>>)>>)
    BY <1>1 DEF Branch
  <2> QED BY <2>1, <2>2, SilentSizes
<1>2. CASE CondBranch
  <2> DEFINE k == Operands(Instr.op)
             srcs == [j \in 1..k |-> FromTop(k + 1 - j)]
  <2>1. Keeps /\ Instr.op \in Silent
    BY <1>2 DEF CondBranch, Silent
  <2>2. Simulate(k, <<>>, <<>>) \/ Simulate(k, <<>>, <<Inst(Instr.op, Instr, srcs, <<>>)>>)
    BY <1>2 DEF CondBranch
  <2> HIDE DEF k, srcs
  <2> QED BY <2>1, <2>2, SilentSizes
<1>3. CASE Switch
  <2>1. Keeps /\ Instr.op \in Silent
    BY <1>3 DEF Switch, Silent
  <2>2. Simulate(1, <<>>, <<>>) \/ Simulate(1, <<>>, <<Inst(Instr.op, Instr, <<FromTop(1)>>, <<>>)>>)
    BY <1>3 DEF Switch
  <2> QED BY <2>1, <2>2, SilentSizes
<1> QED BY <1>1, <1>2, <1>3

LEMMA PopParamSizes == ASSUME IInv, IInv', SizesInv, PopParam PROVE SizesInv'
  BY SizedNone DEF PopParam

LEMMA CallSizes == ASSUME IInv, IInv', SizesInv, Call PROVE SizesInv'
<1> DEFINE dst == IF Instr.ret = "Void" THEN <<>> ELSE <<Var(Instr.ret, top)>>
           call == CallInst(Instr.op, dst)
           first == Dereference
<1>0. Keeps /\ Instr.op \in {"Call", "CallVirt"} /\ Simulate(0, dst, first \o <<call>>)
  BY DEF Call
<1>1. Sized(call, FrameTop')
  <2>1. /\ call.op = Instr.op /\ call.dst = dst
        /\ call.of.ret = Instr.ret /\ call.of.frame = top
    BY DEF CallInst, Inst
  <2>2. Instr.ret # "Void" => /\ 1 \in DOMAIN dst /\ dst[1].offset = top
                              /\ dst[1].size = StackObjects(Instr.ret)
    <3>1. /\ 1 \in DOMAIN <<Var(Instr.ret, top)>>
          /\ <<Var(Instr.ret, top)>>[1] = Var(Instr.ret, top)
      BY OneSeq
    <3> QED BY <3>1 DEF Var
  <2> HIDE DEF call, dst
  <2> QED BY <1>0, <2>1, <2>2 DEF Sized
<1>2. IsSeq(first) /\ \A j \in DOMAIN first : Sized(first[j], FrameTop')
  <2>1. CASE Instr.op = "CallVirt" /\ Instr.constrained
    <3> DEFINE of == [op |-> "LdInd", type |-> "Ref"]
               to == Primitive("RefOrPtr", params[1].offset)
    <3>1. first = <<Inst("LdInd", of, <<params[1]>>, <<to>>)>>
      BY <2>1 DEF Dereference
    <3>2. of.type \notin {"Any", "Other"}
      OBVIOUS
    <3> HIDE DEF of, to, first
    <3>3. Sized(Inst("LdInd", of, <<params[1]>>, <<to>>), FrameTop')
      BY <3>2, SizedLoad DEF Loads
    <3> QED BY <3>1, <3>3, OneSeq
  <2>2. CASE ~(Instr.op = "CallVirt" /\ Instr.constrained)
    <3>1. first = <<>>
      BY <2>2 DEF Dereference
    <3> QED BY <3>1, NoSeq
  <2> QED BY <2>1, <2>2
<1> HIDE DEF dst, call, first
<1>3. IsSeq(<<call>>) /\ \A j \in DOMAIN <<call>> : Sized(<<call>>[j], FrameTop')
  BY <1>1, OneSeq
<1> DEFINE insts == first \o <<call>>
<1>4. IsSeq(insts) /\ Simulate(0, dst, insts) /\ \A j \in DOMAIN insts : Sized(insts[j], FrameTop')
  BY <1>0, <1>2, <1>3, Concatenated
<1> HIDE DEF insts
<1> QED BY <1>0, <1>4, SizedEmit

LEMMA NewObjSizes == ASSUME RoomForValues, IInv, IInv', SizesInv, NewObj PROVE SizesInv'
<1> DEFINE dst == Var(Instr.ret, top)
           room == IF Instr.ret = "Ref" THEN 1 ELSE ByteSize(Instr.ret)
           inst == CallInst("NewObj", <<dst>>)
           here == top + ParamSlots + room
<1>0. /\ InBody /\ Keeps /\ Instr.op = "NewObj"
      /\ maxStack' = LargerOf(LargerOf(maxStack, here), top + dst.size)
      /\ hl' = Append(hl, inst)
  BY DEF NewObj, Popped
<1>1. /\ base' = base /\ base \in Nat /\ maxStack \in Nat /\ maxStack' \in Nat /\ CodeInv
  BY <1>0 DEF IInv, Keeps
<1>2. top \in Nat /\ dst.size \in Nat /\ ParamSlots \in Int
  <2>1. Instr.ret \in ReduceTypes
    BY <1>0, InstrTyped DEF Calls
  <2>2. dst.size \in Nat /\ top \in Nat
    BY <1>0, <2>1, StackLength, VarSlotted
  <2>3. ParamSlots \in Int
    <3>1. CASE params = <<>>
      BY <3>1 DEF ParamSlots
    <3>2. CASE params # <<>>
      <4>1. params \in Seq(Slotted)
        BY <1>0 DEF IInv, BodyInv, ParamsInv, InBody, Laid
      <4>2. params[Len(params)] \in Slotted
        BY <3>2, <4>1, EmptySeq
      <4>3. params[Len(params)].offset \in Nat /\ params[Len(params)].size \in Nat
        BY <4>2, EndNat
      <4> QED BY <2>2, <3>2, <4>3 DEF ParamSlots
    <3> QED BY <3>1, <3>2
  <2> QED BY <2>2, <2>3
<1>3. room \in Nat /\ RoomToMake(Instr.ret) \in Nat /\ RoomToMake(Instr.ret) <= room
  <2>1. CASE Instr.ret = "Ref"
    BY <2>1 DEF RoomToMake
  <2>2. CASE Instr.ret # "Ref"
    <3>1. ByteSize(Instr.ret) \in Nat /\ ByteSize(Instr.ret) >= 2
      BY <1>0, <2>2, InstrOperands, SizesPositive
    <3>2. \A n \in Nat : n >= 2 => (n + 7) \div 8 + 1 <= n /\ (n + 7) \div 8 \in Nat
      OBVIOUS
    <3> QED BY <2>2, <3>1, <3>2 DEF RoomToMake, StackObjects
  <2> QED BY <2>1, <2>2
<1>4. /\ inst.op = "NewObj" /\ inst.of.frame = top /\ inst.of.total = ParamSlots
      /\ inst.of.ret = Instr.ret
  BY DEF CallInst, Inst
<1> HIDE DEF dst, room, inst
<1>5. maxStack <= maxStack' /\ here <= maxStack' /\ here \in Int
  BY <1>0, <1>1, <1>2, <1>3 DEF LargerOf
<1>6. FrameTop' \in Nat /\ maxStack' <= FrameTop'
  BY <1>1, <1>5, FrameTopGrows
<1>7. top + ParamSlots \in Nat
  BY <1>0, PoppedParams
<1>8. Sized(inst, FrameTop')
  <2> DEFINE r == inst.of.frame + RoomToMake(inst.of.ret) + inst.of.total
  <2>1. r = top + ParamSlots + RoomToMake(Instr.ret)
    BY <1>2, <1>3, <1>4
  <2>2. r \in Nat /\ r <= here
    BY <1>2, <1>3, <1>7, <2>1
  <2> HIDE DEF r, here
  <2>3. r <= FrameTop'
    BY <1>1, <1>5, <1>6, <2>2
  <2>4. inst.of.frame \in Nat /\ inst.of.total \in Int
    BY <1>2, <1>4
  <2> QED BY <1>4, <2>2, <2>3, <2>4 DEF Sized, r
<1>9. hl' = hl \o <<inst>>
  <2>1. PICK S : hl \in Seq(S)
    BY <1>1 DEF CodeInv, IsSeq
  <2>2. hl \in Seq(S \cup {inst}) /\ inst \in S \cup {inst}
    BY <2>1
  <2> QED BY <1>0, <2>2, AppendIsConcat
<1> DEFINE insts == <<inst>>
<1>10. hl' = hl \o insts /\ IsSeq(insts) /\ \A j \in DOMAIN insts : Sized(insts[j], FrameTop')
  BY <1>8, <1>9, OneSeq
<1> HIDE DEF insts
<1> QED BY <1>1, <1>5, <1>10, SizesGrow

LEMMA ReturnSizes == ASSUME IInv, IInv', SizesInv, Return PROVE SizesInv'
<1>0. Keeps
  BY DEF Return
<1>1. CASE Simulate(0, <<>>, <<Inst("Ret", Instr, <<>>, <<>>)>>)
  <2>1. Sized(Inst("Ret", Instr, <<>>, <<>>), FrameTop')
    BY DEF Inst, Sized
  <2> QED BY <1>0, <1>1, <2>1, SizedOne
<1>2. CASE Simulate(1, <<>>, <<Inst("Ret", Instr, <<FromTop(1)>>, <<>>)>>)
  <2> DEFINE srcs == <<FromTop(1)>>
  <2>1. 1 \in DOMAIN srcs
    BY OneSeq
  <2>2. Simulate(1, <<>>, <<Inst("Ret", Instr, srcs, <<>>)>>)
    BY <1>2
  <2> HIDE DEF srcs
  <2>3. Sized(Inst("Ret", Instr, srcs, <<>>), FrameTop')
    BY <2>1 DEF Inst, Sized
  <2> QED BY <1>0, <2>2, <2>3, SizedOne
<1> QED BY <1>1, <1>2 DEF Return

LEMMA ClearedSizes ==
  ASSUME IInv, IInv', SizesInv, Keeps, NEW op \in Silent, NEW srcs,
         Cleared(<<Inst(op, Instr, srcs, <<>>)>>)
  PROVE  SizesInv'
<1> DEFINE insts == <<Inst(op, Instr, srcs, <<>>)>>
<1>1. Sized(Inst(op, Instr, srcs, <<>>), FrameTop')
  BY SizedSilent
<1>2. IsSeq(insts) /\ \A j \in DOMAIN insts : Sized(insts[j], FrameTop')
  BY <1>1, OneSeq
<1>3. base' = base /\ maxStack' = maxStack /\ maxStack \in Nat /\ hl' = hl \o insts
  BY DEF Cleared, Keeps, IInv
<1> HIDE DEF insts
<1>4. maxStack <= maxStack'
  BY <1>3
<1> QED BY <1>2, <1>3, <1>4, SizesGrow

LEMMA ThrowLeaveSizes == ASSUME IInv, IInv', SizesInv, Throw \/ Leave PROVE SizesInv'
<1>1. Keeps /\ {"Throw", "Leave"} \subseteq Silent
  BY DEF Throw, Leave, Silent
<1>2. \/ Cleared(<<Inst("Throw", Instr, <<FromTop(1)>>, <<>>)>>)
      \/ Cleared(<<Inst("Leave", Instr, <<>>, <<>>)>>)
  BY DEF Throw, Leave
<1> QED BY <1>1, <1>2, ClearedSizes

LEMMA InstructionSizes ==
  ASSUME RoomForValues, IInv, IInv', SizesInv, Instruction
  PROVE  SizesInv'
  BY LoadOrStoreSizes, BinArithSizes, OperatorsSizes, ConvertSizes, AddressOfSizes,
     IndirectSizes, ClearOrCopySizes, ObjectAtSizes, FieldSizes, StaticFieldSizes,
     ElementSizes, StoreElementSizes, BranchesSizes, PopParamSizes, CallSizes, NewObjSizes,
     ReturnSizes, ThrowLeaveSizes
  DEF Instruction

\* The code and its frame stay as they are.
LEMMA SizesSame == ASSUME SizesInv, UNCHANGED <<base, maxStack, hl>> PROVE SizesInv'
  BY DEF SizesInv, FrameTop, LargerOf

LEMMA SetupSizes ==
  ASSUME IInv, IInv', SizesInv, SetupArg \/ SetupLocal \/ SetupBlocks
  PROVE  SizesInv'
<1>0. hl = <<>>
  BY DEF IInv, CodeInv, SetupArg, SetupLocal, SetupBlocks
<1>1. hl' = <<>> \/ hl' = InitLocals
  BY <1>0 DEF SetupArg, SetupLocal, SetupBlocks, bodyVars
<1>2. CASE hl' = <<>>
  BY <1>2, NoSeq DEF SizesInv
<1>3. CASE hl' = InitLocals
  <2> DEFINE of == [from |-> localVars[1].offset, size |-> base - localVars[1].offset]
  <2>1. InitLocals = <<>> \/ InitLocals = <<Inst("InitLocals", of, <<>>, <<>>)>>
    BY DEF InitLocals
  <2> HIDE DEF of
  <2>2. CASE InitLocals = <<>>
    BY <1>3, <2>2, NoSeq DEF SizesInv
  <2>3. CASE InitLocals = <<Inst("InitLocals", of, <<>>, <<>>)>>
    <3>1. Sized(Inst("InitLocals", of, <<>>, <<>>), FrameTop')
      BY SizedSilent DEF Silent
    <3> QED BY <1>3, <2>3, <3>1, OneSeq DEF SizesInv
  <2> QED BY <2>1, <2>2, <2>3
<1> QED BY <1>1, <1>2, <1>3

LEMMA SizesNext == RoomForValues /\ IInv /\ IInv' /\ SizesInv /\ [Next]_vars => SizesInv'
<1> SUFFICES ASSUME RoomForValues, IInv, IInv', SizesInv, [Next]_vars PROVE SizesInv'
  OBVIOUS
<1>1. CASE Compile
  <2>1. CASE EnterBlock \/ Finish \/ Reject
    BY <2>1, SizesSame DEF EnterBlock, Finish, Reject, bodyVars
  <2> QED BY <1>1, <2>1, SetupSizes, InstructionSizes DEF Compile, Transform
<1>2. CASE Assemble \/ PassArg \/ Enter \/ RunIL \/ RunCode \/ SkipCode \/ UNCHANGED vars
  BY <1>2, SizesSame DEF Assemble, PassArg, Enter, RunIL, RunCode, SkipCode, vars, tvars
<1> QED BY <1>1, <1>2 DEF Next

LEMMA SizesInit == Init => SizesInv
<1> SUFFICES ASSUME Init PROVE SizesInv
  OBVIOUS
<1>1. hl = <<>>
  BY DEF Init, TInit
<1> QED BY <1>1, NoSeq DEF SizesInv

-----------------------------------------------------------------------------
(* The second transformer: what a low-level instruction may write. *)

LowLoads == {"LdInd", "Ldsfld", "Ldvfld", "Ldfld", "Ldelem"}

\* The opcodes that put a primitive value into their destination.
LowResults == {"LdcI4", "LdcI8", "LdNull", "LdLoca", "Ldsflda", "Ldflda", "LdLen", "Ldelema",
               "Conv", "ConvOvf", "ConvOvfUn"}
              \cup ArithOps \cup BitOps \cup ShiftOps \cup UnaryOps \cup CompareOps

\* The slots that an instruction of compiled code writes by itself lie
\* below the limit.
LowFits(low, limit) ==
    /\ low.op \in {"LdLoc", "StLoc"} \cup LowLoads \cup LowResults =>
          low.dst[1] \in Nat /\ low.dst[1] + 1 <= limit
    /\ low.op \in {"LdLoc", "StLoc"} /\ low.type = "Any" =>
          low.size \in Nat /\ low.dst[1] + low.size <= limit
    /\ low.op \in LowLoads /\ low.type = "Any" => low.dst[1] + StackObjects("Any") <= limit
    /\ low.op = "Ret" /\ low.type = "Any" /\ low.from = "Other" => low.size \in Nat /\ low.size <= limit
    /\ low.op = "Stsfld" => low.of.at \in Nat
    /\ low.op = "InitLocals" =>
          low.of.from + low.of.size \in Nat /\ low.of.from + low.of.size <= limit
    /\ low.op \in {"Call", "CallVirt"} =>
          \/ low.of.ret = "Void"
          \/ /\ low.of.frame + StackObjects(low.of.ret) \in Nat
             /\ low.of.frame + StackObjects(low.of.ret) <= limit
    /\ low.op \in {"NewObj", "NewValue"} =>
          /\ low.of.frame \in Nat /\ low.of.total \in Int
          /\ low.of.frame + RoomToMake(low.of.ret) + low.of.total \in Nat
          /\ low.of.frame + RoomToMake(low.of.ret) + low.of.total <= limit
          /\ (low.op = "NewObj") <=> (low.of.ret = "Ref")

LEMMA ArchOther ==
  ASSUME NEW type
  PROVE  /\ Arch(type) = "Any" => type = "Any"
         /\ Arch(type) = "Other" => type = "Other"
  BY DEF Arch

LEMMA OpcodeSilent ==
  ASSUME NEW inst, inst.op \in Silent
  PROVE  /\ Opcode(inst)[1] \in Silent
         /\ Opcode(inst)[1] = "InitLocals" => inst.op = "InitLocals"
<1>1. CASE inst.op \in CondBranches \cup {"Br", "Switch", "Throw", "InitLocals", "Leave"}
  BY <1>1 DEF Opcode, Silent, CondBranches, ArithOps, BitOps, ShiftOps, UnaryOps, CompareOps
<1>2. CASE inst.op \in {"StInd", "InitObj", "CpObj", "StObj"}
  BY <1>2 DEF Opcode, Silent, CondBranches, ArithOps, BitOps, ShiftOps, UnaryOps, CompareOps,
              PointerOpcode, ObjectOpcode
<1>3. CASE inst.op \in {"Stfld", "Stelem", "StelemAny"}
  BY <1>3 DEF Opcode, Silent, CondBranches, ArithOps, BitOps, ShiftOps, UnaryOps, CompareOps,
              FieldOpcode, ElementOpcode
<1> QED BY <1>1, <1>2, <1>3 DEF Silent

LEMMA OpcodeStatic ==
  ASSUME NEW inst, inst.op = "Stsfld"
  PROVE  Opcode(inst)[1] = "Stsfld"
  BY DEF Opcode, CondBranches, ArithOps, BitOps, ShiftOps, UnaryOps, CompareOps, StaticOpcode

LEMMA OpcodeReturn ==
  ASSUME NEW inst, inst.op = "Ret"
  PROVE  /\ Opcode(inst)[1] \in {"RetVoid", "RetNop", "Ret"}
         /\ Opcode(inst)[1] = "Ret" => method.ret # "Void"
         /\ Opcode(inst)[1] = "Ret" /\ Opcode(inst)[2] = "Any" => method.ret = "Other"
<1>1. Opcode(inst) = ReturnOpcode(inst)
  BY DEF Opcode, CondBranches, ArithOps, BitOps, ShiftOps, UnaryOps, CompareOps
<1>2. Arch(DataTypeOf(method.ret)) # "Any"
  BY DEF Arch, DataTypeOf
<1> QED BY <1>1, <1>2 DEF ReturnOpcode

LEMMA OpcodeCopy ==
  ASSUME NEW inst, inst.op \in Copies
  PROVE  Opcode(inst)[1] = "LdLoc"
  BY DEF Opcode, Copies, CondBranches, ArithOps, BitOps, ShiftOps, UnaryOps, CompareOps

LEMMA OpcodeStore ==
  ASSUME NEW inst, inst.op \in Stores
  PROVE  Opcode(inst)[1] = "StLoc"
  BY DEF Opcode, Stores, CondBranches, ArithOps, BitOps, ShiftOps, UnaryOps, CompareOps

LEMMA OpcodeResult ==
  ASSUME NEW inst, inst.op \in Results
  PROVE  Opcode(inst)[1] \in LowResults
<1>1. CASE inst.op \in ArithOps \cup BitOps \cup ShiftOps \cup UnaryOps \cup CompareOps
  BY <1>1 DEF Opcode, CondBranches, ArithOps, BitOps, ShiftOps, UnaryOps, CompareOps, LowResults
<1>2. CASE inst.op \in {"LdcI4", "LdcI8", "LdNull"}
  BY <1>2 DEF Opcode, CondBranches, ArithOps, BitOps, ShiftOps, UnaryOps, CompareOps, LowResults
<1>3. CASE inst.op \in {"LdArga", "LdLoca", "Ldflda"}
  BY <1>3 DEF Opcode, CondBranches, ArithOps, BitOps, ShiftOps, UnaryOps, CompareOps, LowResults,
              PointerOpcode, FieldOpcode
<1>4. CASE inst.op \in {"Ldsflda", "Ldelema", "LdLen"}
  BY <1>4 DEF Opcode, CondBranches, ArithOps, BitOps, ShiftOps, UnaryOps, CompareOps, LowResults,
              StaticOpcode, ElementOpcode
<1> QED BY <1>1, <1>2, <1>3, <1>4 DEF Results, AddressOps

LEMMA OpcodeConv ==
  ASSUME NEW inst, inst.op = "Conv", inst.of.kind \in {"Conv", "ConvOvf", "ConvOvfUn"}
  PROVE  Opcode(inst)[1] \in LowResults \cup {"Nop"}
<1>1. Opcode(inst) = ConvOpcode(inst.of.kind, inst.of.type, WidthOf(inst.src[1]))
  BY DEF Opcode, CondBranches, ArithOps, BitOps, ShiftOps, UnaryOps, CompareOps
<1> QED BY <1>1 DEF ConvOpcode, LowResults

LEMMA OpcodeLoad ==
  ASSUME NEW inst, inst.op \in Loads
  PROVE  /\ Opcode(inst)[1] \in LowLoads \cup {"Conv", "Nop"}
         /\ Opcode(inst)[2] = "Any" => inst.of.type \in {"Any", "Other"}
<1>1. /\ MemoryType(inst.of.type) = "Any" => inst.of.type \in {"Any", "Other"}
      /\ StoredType(inst.of.type) = "Any" => inst.of.type \in {"Any", "Other"}
  BY ArchOther DEF MemoryType, StoredType
<1>2. CASE inst.op = "LdInd"
  BY <1>1, <1>2 DEF Opcode, CondBranches, ArithOps, BitOps, ShiftOps, UnaryOps, CompareOps,
                    LowLoads, PointerOpcode
<1>3. CASE inst.op = "LdObj"
  BY <1>1, <1>3 DEF Opcode, CondBranches, ArithOps, BitOps, ShiftOps, UnaryOps, CompareOps,
                    LowLoads, ObjectOpcode
<1>4. CASE inst.op = "Ldfld"
  <2>1. Opcode(inst) = FieldOpcode(inst)
    BY <1>4 DEF Opcode, CondBranches, ArithOps, BitOps, ShiftOps, UnaryOps, CompareOps
  <2>2. \/ Opcode(inst) = <<"Ldvfld", MemoryType(inst.of.type)>>
        \/ Opcode(inst) = <<"Conv", inst.of.type>>
        \/ Opcode(inst) = <<"Nop", "I4">>
        \/ Opcode(inst) = <<"Ldfld", MemoryType(inst.of.type)>>
    BY <1>4, <2>1 DEF FieldOpcode, ValueFieldOpcode
  <2> QED BY <1>1, <2>2 DEF LowLoads
<1>5. CASE inst.op = "Ldsfld"
  BY <1>1, <1>5 DEF Opcode, CondBranches, ArithOps, BitOps, ShiftOps, UnaryOps, CompareOps,
                    LowLoads, StaticOpcode
<1>6. CASE inst.op \in {"Ldelem", "LdelemAny"}
  BY <1>1, <1>6 DEF Opcode, CondBranches, ArithOps, BitOps, ShiftOps, UnaryOps, CompareOps,
                    LowLoads, ElementOpcode
<1> QED BY <1>2, <1>3, <1>4, <1>5, <1>6 DEF Loads

LEMMA OpcodeCall ==
  ASSUME NEW inst, inst.op \in Calls
  PROVE  IF inst.op = "NewObj"
             THEN Opcode(inst)[1] = IF inst.of.ret = "Ref" THEN "NewObj" ELSE "NewValue"
             ELSE Opcode(inst)[1] = inst.op
  BY DEF Opcode, Calls, CondBranches, ArithOps, BitOps, ShiftOps, UnaryOps, CompareOps, NewOpcode

\* The families of opcodes share none.
LEMMA FamiliesApart ==
  /\ Silent \cap ({"LdLoc", "StLoc", "Ret", "Stsfld", "Call", "CallVirt", "NewObj", "NewValue"}
                  \cup LowLoads \cup LowResults) = {}
  /\ LowResults \cap ({"LdLoc", "StLoc", "Ret", "Stsfld", "InitLocals", "Call", "CallVirt",
                       "NewObj", "NewValue"} \cup LowLoads) = {}
  BY DEF Silent, LowLoads, LowResults, CondBranches, ArithOps, BitOps, ShiftOps, UnaryOps,
         CompareOps

LEMMA LowerFits ==
  ASSUME NEW limit \in Nat, NEW inst, Placed(inst, limit), Sized(inst, limit)
  PROVE  LowFits(Lower(inst), limit)
<1> DEFINE low == Lower(inst)
           to == inst.dst[1]
<1>1. /\ low.op = Opcode(inst)[1] /\ low.type = Opcode(inst)[2] /\ low.of = inst.of
      /\ low.from = IF inst.src = <<>> \/ inst.op = "Ldfld" THEN "I4" ELSE WidthOf(inst.src[1])
      /\ low.size = CASE inst.op \in {"StArg", "StLoc"} -> inst.dst[1].size
                      [] inst.op = "Ret" /\ method.ret # "Void" -> StackObjects(method.ret)
                      [] inst.op \in {"LdArg", "LdLoc", "Dup"} -> inst.src[1].size
                      [] OTHER -> 1
      /\ \A j \in DOMAIN inst.dst : low.dst[j] = inst.dst[j].offset
  BY DEF Lower
<1> SUFFICES LowFits(low, limit)
  OBVIOUS
<1> HIDE DEF low
<1>2. 1 \in DOMAIN inst.dst => /\ to \in Slotted /\ to.offset \in Nat /\ to.size \in Nat \ {0}
                               /\ to.offset + to.size <= limit /\ to.offset + 1 <= limit
  <2> SUFFICES ASSUME 1 \in DOMAIN inst.dst
               PROVE  /\ to \in Slotted /\ to.offset \in Nat /\ to.size \in Nat \ {0}
                      /\ to.offset + to.size <= limit /\ to.offset + 1 <= limit
    OBVIOUS
  <2>1. to \in Slotted /\ End(to) <= limit
    BY DEF Placed, Within
  <2> HIDE DEF to
  <2> QED BY <2>1, EndNat DEF End
<1> HIDE DEF to
<1>3. CASE inst.op \in Silent
  <2>1. low.op \in Silent /\ (low.op = "InitLocals" => inst.op = "InitLocals")
    BY <1>1, <1>3, OpcodeSilent
  <2>2. inst.op = "InitLocals" => /\ inst.of.from + inst.of.size \in Nat
                                  /\ inst.of.from + inst.of.size <= limit
    BY DEF Placed, Within
  <2> QED BY <1>1, <2>1, <2>2, FamiliesApart DEF LowFits
<1>4. CASE inst.op = "Stsfld" /\ inst.of.at \in Nat
  <2>1. low.op = "Stsfld"
    BY <1>1, <1>4, OpcodeStatic
  <2> QED BY <1>1, <1>4, <2>1, FamiliesApart DEF LowFits, LowLoads
<1>5. CASE inst.op = "Ret" /\ (inst.src = <<>> \/ 1 \in DOMAIN inst.src)
  <2>1. /\ low.op \in {"RetVoid", "RetNop", "Ret"}
        /\ low.op = "Ret" => method.ret # "Void"
        /\ low.op = "Ret" /\ low.type = "Any" => method.ret = "Other"
    BY <1>1, <1>5, OpcodeReturn
  <2>2. ASSUME low.op = "Ret", low.type = "Any", low.from = "Other"
        PROVE  low.size \in Nat /\ low.size <= limit
    <3>1. inst.src # <<>> /\ Arch(inst.src[1].data) = "Other"
      BY <1>1, <1>5, <2>2 DEF WidthOf
    <3>2. inst.src[1].data = "Other" /\ inst.src[1] \in Slotted /\ End(inst.src[1]) <= limit
      BY <1>5, <3>1, ArchOther DEF Placed, Within
    <3>3. inst.src[1].size = StackObjects("Other")
      BY <3>2 DEF Slotted, IsPrimitive
    <3>4. low.size = StackObjects("Other")
      BY <1>1, <1>5, <2>1, <2>2
    <3>5. /\ inst.src[1].offset \in Nat /\ inst.src[1].size \in Nat
          /\ inst.src[1].offset + inst.src[1].size <= limit
      BY <3>2, EndNat DEF End
    <3> QED BY <3>3, <3>4, <3>5
  <2>3. /\ low.op \notin {"LdLoc", "StLoc"} \cup LowLoads \cup LowResults
        /\ low.op \notin {"Stsfld", "InitLocals", "Call", "CallVirt", "NewObj", "NewValue"}
    BY <2>1 DEF LowLoads, LowResults, ArithOps, BitOps, ShiftOps, UnaryOps, CompareOps
  <2> QED BY <2>2, <2>3 DEF LowFits
<1>6. CASE inst.op \in Stores /\ 1 \in DOMAIN inst.dst
  <2>1. low.op = "StLoc" /\ low.dst[1] = to.offset /\ low.size = to.size
    BY <1>1, <1>6, OpcodeStore DEF Stores, to
  <2> QED BY <1>2, <1>6, <2>1 DEF LowFits, LowLoads
<1>7. CASE inst.op \in Copies /\ 1 \in DOMAIN inst.dst /\ inst.dst[1].size = inst.src[1].size
  <2>1. low.op = "LdLoc" /\ low.dst[1] = to.offset /\ low.size = to.size
    BY <1>1, <1>7, OpcodeCopy DEF Copies, to
  <2> QED BY <1>2, <1>7, <2>1 DEF LowFits, LowLoads
<1>8. ASSUME low.op \in LowResults \cup {"Nop"}, 1 \in DOMAIN inst.dst
      PROVE  LowFits(low, limit)
  <2>1. low.dst[1] = to.offset
    BY <1>1, <1>8 DEF to
  <2>2. low.op \notin {"LdLoc", "StLoc", "Ret", "Stsfld", "InitLocals", "Call", "CallVirt",
                       "NewObj", "NewValue"} \cup LowLoads
    BY <1>8, FamiliesApart DEF LowLoads
  <2> QED BY <1>2, <1>8, <2>1, <2>2 DEF LowFits
<1>9. CASE inst.op \in Results /\ 1 \in DOMAIN inst.dst
  BY <1>1, <1>8, <1>9, OpcodeResult
<1>10. CASE /\ inst.op = "Conv" /\ 1 \in DOMAIN inst.dst
            /\ inst.of.kind \in {"Conv", "ConvOvf", "ConvOvfUn"}
  BY <1>1, <1>8, <1>10, OpcodeConv
<1>11. CASE /\ inst.op \in Loads /\ 1 \in DOMAIN inst.dst
            /\ inst.of.type \in {"Any", "Other"} => inst.dst[1].size = StackObjects("Any")
  <2>1. /\ low.op \in LowLoads \cup {"Conv", "Nop"}
        /\ low.type = "Any" => to.size = StackObjects("Any")
    BY <1>1, <1>11, OpcodeLoad DEF to
  <2>2. CASE low.op \in {"Conv", "Nop"}
    BY <1>8, <1>11, <2>2 DEF LowResults
  <2>3. CASE low.op \in LowLoads
    <3>1. low.dst[1] = to.offset
      BY <1>1, <1>11 DEF to
    <3>2. low.op \notin {"LdLoc", "StLoc", "Ret", "Stsfld", "InitLocals", "Call", "CallVirt",
                         "NewObj", "NewValue"}
      BY <2>3 DEF LowLoads
    <3> QED BY <1>2, <1>11, <2>1, <2>3, <3>1, <3>2 DEF LowFits
  <2> QED BY <2>1, <2>2, <2>3
<1>12. CASE /\ inst.op \in {"Call", "CallVirt"}
            /\ inst.of.ret = "Void"
               \/ /\ 1 \in DOMAIN inst.dst /\ inst.dst[1].offset = inst.of.frame
                  /\ inst.dst[1].size = StackObjects(inst.of.ret)
  <2>1. low.op = inst.op
    BY <1>1, <1>12, OpcodeCall DEF Calls
  <2>2. low.op \notin {"LdLoc", "StLoc", "Ret", "Stsfld", "InitLocals", "NewObj", "NewValue"}
                      \cup LowLoads \cup LowResults
    BY <1>12, <2>1 DEF LowLoads, LowResults, ArithOps, BitOps, ShiftOps, UnaryOps, CompareOps
  <2>3. \/ low.of.ret = "Void"
        \/ /\ low.of.frame + StackObjects(low.of.ret) \in Nat
           /\ low.of.frame + StackObjects(low.of.ret) <= limit
    BY <1>1, <1>2, <1>12 DEF to
  <2> QED BY <2>2, <2>3 DEF LowFits
<1>13. CASE /\ inst.op = "NewObj" /\ inst.of.frame \in Nat /\ inst.of.total \in Int
            /\ inst.of.frame + RoomToMake(inst.of.ret) + inst.of.total \in Nat
            /\ inst.of.frame + RoomToMake(inst.of.ret) + inst.of.total <= limit
  <2>1. low.op = IF inst.of.ret = "Ref" THEN "NewObj" ELSE "NewValue"
    BY <1>1, <1>13, OpcodeCall DEF Calls
  <2>2. low.op \notin {"LdLoc", "StLoc", "Ret", "Stsfld", "InitLocals", "Call", "CallVirt"}
                      \cup LowLoads \cup LowResults
    BY <2>1 DEF LowLoads, LowResults, ArithOps, BitOps, ShiftOps, UnaryOps, CompareOps
  <2> QED BY <1>1, <1>13, <2>1, <2>2 DEF LowFits
<1> QED BY <1>3, <1>4, <1>5, <1>6, <1>7, <1>9, <1>10, <1>11, <1>12, <1>13 DEF Sized

-----------------------------------------------------------------------------
(* Running the code: an instruction stays in the frame. *)

\* The stores whose target the code computes, and the return of something
\* that is no value type where the method returns one.
MayLeave ==
    /\ RunCode
    /\ \/ Cur.op \in {"StInd", "InitObj", "CpObj", "Stfld", "Stelem"}
       \/ Cur.op = "Ret" /\ Cur.type = "Any" /\ Cur.from # "Other"

\* The instruction that comes next fits the frame.
Ready == /\ base \in Nat /\ FrameTop \in Nat /\ base + 1 <= FrameTop
         /\ LowFits(Cur, FrameTop)

\* What the step has written lies below FrameTop.
Reaches == UNCHANGED high \/ \E n \in Int : n <= FrameTop /\ high' = LargerOf(high, n)

LEMMA ReachesInto ==
  ASSUME Ready, NEW slot \in Nat, slot + 1 <= FrameTop, NEW bytes, NEW value,
         LoadInto(slot, bytes, value)
  PROVE  Reaches
<1>1. slot + 1 \in Int /\ high' = LargerOf(high, slot + 1)
  BY DEF LoadInto
<1> QED BY <1>1 DEF Reaches

LEMMA ReachesCopy ==
  ASSUME Ready, NEW to, NEW n, to + n \in Int, to + n <= FrameTop, NEW from,
         CopySlots(to, from, n)
  PROVE  Reaches
<1>1. high' = LargerOf(high, to + n)
  BY DEF CopySlots
<1> QED BY <1>1 DEF Reaches

LEMMA ReachesRaise ==
  ASSUME Ready, NEW position, NEW ex, RaiseAt(position, ex)
  PROVE  Reaches
<1>1. UNCHANGED high \/ LoadInto(base, PtrSize, ex)
  BY DEF RaiseAt
<1>2. base \in Nat /\ base + 1 <= FrameTop
  BY DEF Ready
<1> QED BY <1>1, <1>2, ReachesInto DEF Reaches

\* An opcode with a primitive result puts it into its destination.
LEMMA ReachesResult ==
  ASSUME Ready, Cur.op \in {"LdLoc", "StLoc"} \cup LowLoads \cup LowResults,
         NEW bytes, NEW value, LoadInto(Cur.dst[1], bytes, value)
  PROVE  Reaches
<1>1. Cur.dst[1] \in Nat /\ Cur.dst[1] + 1 <= FrameTop
  BY DEF Ready, LowFits
<1> QED BY <1>1, ReachesInto

LEMMA ReachesLoad ==
  ASSUME Ready, Cur.op \in LowLoads, NEW a, LoadAt(a)
  PROVE  Reaches
<1>1. CASE Cur.type = "Any"
  <2>1. high' = LargerOf(high, Cur.dst[1] + StackObjects("Any"))
    BY <1>1 DEF LoadAt
  <2>2. Cur.dst[1] \in Nat /\ Cur.dst[1] + StackObjects("Any") <= FrameTop
    BY <1>1 DEF Ready, LowFits
  <2>3. StackObjects("Any") \in Nat
    BY SizesPositive
  <2> QED BY <2>1, <2>2, <2>3 DEF Reaches
<1>2. CASE Cur.type # "Any"
  <2>1. \E bytes, value : LoadInto(Cur.dst[1], bytes, value)
    BY <1>2 DEF LoadAt
  <2> QED BY <2>1, ReachesResult
<1> QED BY <1>1, <1>2

LEMMA LoadStoreReaches == ASSUME Ready, ExecLoad \/ ExecStore PROVE Reaches
<1>1. Cur.op \in {"LdLoc", "StLoc"}
  BY DEF ExecLoad, ExecStore
<1>2. CASE Cur.type = "Any"
  <2>1. CopySlots(Cur.dst[1], Cur.src[1], Cur.size)
    BY <1>2 DEF ExecLoad, ExecStore
  <2>2. Cur.dst[1] \in Nat /\ Cur.size \in Nat /\ Cur.dst[1] + Cur.size <= FrameTop
    BY <1>1, <1>2 DEF Ready, LowFits
  <2>3. Cur.dst[1] + Cur.size \in Int
    BY <2>2
  <2> QED BY <2>1, <2>2, <2>3, ReachesCopy
<1>3. CASE Cur.type # "Any"
  <2>1. \E bytes, value : LoadInto(Cur.dst[1], bytes, value)
    BY <1>3 DEF ExecLoad, ExecStore
  <2> QED BY <1>1, <2>1, ReachesResult
<1> QED BY <1>2, <1>3

LEMMA InitLocalsReaches == ASSUME Ready, ExecInitLocals PROVE Reaches
<1>1. Cur.op = "InitLocals" /\ high' = LargerOf(high, Cur.of.from + Cur.of.size)
  BY Zenon DEF ExecInitLocals
<1>2. Cur.of.from + Cur.of.size \in Nat /\ Cur.of.from + Cur.of.size <= FrameTop
  BY <1>1 DEF Ready, LowFits
<1>3. Cur.of.from + Cur.of.size \in Int
  BY <1>2
<1> QED BY <1>1, <1>2, <1>3 DEF Reaches

\* Constants, operators, conversions and comparisons.
LEMMA OperatorReaches ==
  ASSUME Ready,
         \/ ExecConst \/ ExecArith \/ ExecChecked \/ ExecDivide \/ ExecBits \/ ExecShift
         \/ ExecUnary \/ ExecConv \/ ExecConvOvf \/ ExecCompare
  PROVE  Reaches
<1>1. CASE ExecConst
  <2>1. Cur.op \in LowResults /\ \E bytes, value : LoadInto(Cur.dst[1], bytes, value)
    BY <1>1 DEF ExecConst, LowResults
  <2> QED BY <2>1, ReachesResult
<1>2. CASE ExecArith
  <2>1. Cur.op \in LowResults /\ \E bytes, value : LoadInto(Cur.dst[1], bytes, value)
    BY <1>2 DEF ExecArith, LowResults, ArithOps
  <2> QED BY <2>1, ReachesResult
<1>3. CASE ExecChecked
  <2>1. Cur.op \in LowResults
    BY <1>3 DEF ExecChecked, LowResults, ArithOps
  <2>2. (\E bytes, value : LoadInto(Cur.dst[1], bytes, value)) \/ \E ex : RaiseAt(ip, ex)
    BY <1>3 DEF ExecChecked, Raise
  <2> QED BY <2>1, <2>2, ReachesResult, ReachesRaise
<1>4. CASE ExecDivide
  <2>1. Cur.op \in LowResults
    BY <1>4 DEF ExecDivide, LowResults, ArithOps
  <2>2. (\E bytes, value : LoadInto(Cur.dst[1], bytes, value)) \/ \E ex : RaiseAt(ip, ex)
    BY <1>4 DEF ExecDivide, Raise
  <2> QED BY <2>1, <2>2, ReachesResult, ReachesRaise
<1>5. CASE ExecBits
  <2>1. Cur.op \in LowResults /\ \E bytes, value : LoadInto(Cur.dst[1], bytes, value)
    BY <1>5 DEF ExecBits, LowResults
  <2> QED BY <2>1, ReachesResult
<1>6. CASE ExecShift
  <2>1. Cur.op \in LowResults /\ \E bytes, value : LoadInto(Cur.dst[1], bytes, value)
    BY <1>6 DEF ExecShift, LowResults
  <2> QED BY <2>1, ReachesResult
<1>7. CASE ExecUnary
  <2>1. Cur.op \in LowResults /\ \E bytes, value : LoadInto(Cur.dst[1], bytes, value)
    BY <1>7 DEF ExecUnary, LowResults
  <2> QED BY <2>1, ReachesResult
<1>8. CASE ExecConv
  <2>1. Cur.op \in LowResults /\ \E bytes, value : LoadInto(Cur.dst[1], bytes, value)
    BY <1>8 DEF ExecConv, LowResults
  <2> QED BY <2>1, ReachesResult
<1>9. CASE ExecConvOvf
  <2>1. Cur.op \in LowResults
    BY <1>9 DEF ExecConvOvf, LowResults
  <2>2. (\E bytes, value : LoadInto(Cur.dst[1], bytes, value)) \/ \E ex : RaiseAt(ip, ex)
    BY <1>9 DEF ExecConvOvf, Raise
  <2> QED BY <2>1, <2>2, ReachesResult, ReachesRaise
<1>10. CASE ExecCompare
  <2>1. Cur.op \in LowResults /\ \E bytes, value : LoadInto(Cur.dst[1], bytes, value)
    BY <1>10 DEF ExecCompare, LowResults
  <2> QED BY <2>1, ReachesResult
<1> QED BY <1>1, <1>2, <1>3, <1>4, <1>5, <1>6, <1>7, <1>8, <1>9, <1>10

LEMMA ControlReaches ==
  ASSUME Ready, ExecBranch \/ ExecSwitch \/ ExecThrow
  PROVE  Reaches
<1>1. UNCHANGED high \/ \E ex : RaiseAt(ip, ex)
  BY DEF ExecBranch, ExecSwitch, ExecThrow, Raise
<1> QED BY <1>1, ReachesRaise DEF Reaches

LEMMA ReturnReaches ==
  ASSUME Ready, ExecReturn, Cur.op = "Ret" /\ Cur.type = "Any" => Cur.from = "Other"
  PROVE  Reaches
<1>1. CASE Cur.op \in {"RetVoid", "RetNop"}
  BY <1>1 DEF ExecReturn, Reaches
<1>2. CASE Cur.op = "Ret" /\ Cur.type = "Any"
  <2>1. CopySlots(0, Cur.src[1], Cur.size)
    BY <1>2 DEF ExecReturn
  <2>2. Cur.size \in Nat /\ Cur.size <= FrameTop
    BY <1>2 DEF Ready, LowFits
  <2>3. 0 + Cur.size \in Int /\ 0 + Cur.size <= FrameTop
    BY <2>2
  <2> QED BY <2>1, <2>3, ReachesCopy
<1>3. CASE Cur.op = "Ret" /\ Cur.type # "Any"
  <2>1. LoadInto(0, Bytes, Src(1))
    BY <1>3 DEF ExecReturn
  <2>2. 0 \in Nat /\ 0 + 1 <= FrameTop
    BY DEF Ready
  <2> QED BY <2>1, <2>2, ReachesInto
<1> QED BY <1>1, <1>2, <1>3 DEF ExecReturn

LEMMA MemoryReaches ==
  ASSUME Ready, ExecIndirect \/ ExecAddress \/ ExecStatic \/ ExecField \/ ExecElement,
         Cur.op \notin {"StInd", "InitObj", "CpObj", "Stfld", "Stelem"}
  PROVE  Reaches
<1>1. CASE ExecIndirect
  <2>1. Cur.op \in LowLoads /\ \E a : LoadAt(a)
    BY <1>1 DEF ExecIndirect, LowLoads
  <2> QED BY <2>1, ReachesLoad
<1>2. CASE ExecAddress
  <2>1. Cur.op \in LowResults /\ \E bytes, value : LoadInto(Cur.dst[1], bytes, value)
    BY <1>2 DEF ExecAddress, LowResults
  <2> QED BY <2>1, ReachesResult
<1>3. CASE ExecStatic
  <2>1. CASE Cur.op # "Stsfld"
    <3>1. Cur.op \in LowLoads /\ \E a : LoadAt(a)
      BY <1>3, <2>1 DEF ExecStatic, LowLoads
    <3> QED BY <3>1, ReachesLoad
  <2>2. CASE Cur.op = "Stsfld"
    <3>1. StoreAt(Object + Cur.of.at, Operand(1))
      BY <1>3, <2>2 DEF ExecStatic
    <3>2. Cur.of.at \in Nat
      BY <2>2 DEF Ready, LowFits
    <3>3. ~(Object + Cur.of.at <= Slots)
      BY <3>2, SlotsAssumption DEF Object
    <3>4. UNCHANGED high
      BY <3>1, <3>3 DEF StoreAt
    <3> QED BY <3>4 DEF Reaches
  <2> QED BY <2>1, <2>2
<1>4. CASE ExecField
  <2>1. Cur.op \in {"Ldfld", "Ldflda"}
    BY <1>4 DEF ExecField
  <2>2. \/ \E ex : RaiseAt(ip, ex)
        \/ Cur.op = "Ldfld" /\ \E a : LoadAt(a)
        \/ Cur.op = "Ldflda" /\ \E bytes, value : LoadInto(Cur.dst[1], bytes, value)
    BY <1>4 DEF ExecField, Raise
  <2>3. (Cur.op = "Ldfld" => Cur.op \in LowLoads) /\ (Cur.op = "Ldflda" => Cur.op \in LowResults)
    BY DEF LowLoads, LowResults
  <2> QED BY <2>2, <2>3, ReachesRaise, ReachesLoad, ReachesResult
<1>5. CASE ExecElement
  <2>1. Cur.op \in {"LdLen", "Ldelem", "Ldelema"}
    BY <1>5 DEF ExecElement
  <2>2. \/ \E ex : RaiseAt(ip, ex)
        \/ Cur.op = "Ldelem" /\ \E a : LoadAt(a)
        \/ Cur.op # "Ldelem" /\ \E bytes, value : LoadInto(Cur.dst[1], bytes, value)
    BY <1>5 DEF ExecElement, Raise
  <2>3. (Cur.op = "Ldelem" => Cur.op \in LowLoads) /\ (Cur.op # "Ldelem" => Cur.op \in LowResults)
    BY <2>1 DEF LowLoads, LowResults
  <2> QED BY <2>2, <2>3, ReachesRaise, ReachesLoad, ReachesResult
<1> QED BY <1>1, <1>2, <1>3, <1>4, <1>5

LEMMA CallReaches == ASSUME Ready, ExecCall PROVE Reaches
<1>1. Cur.op \in {"Call", "CallVirt"}
  BY DEF ExecCall
<1>2. \/ \E position, ex : RaiseAt(position, ex)
      \/ high' = IF Cur.of.ret = "Void" THEN high
                 ELSE LargerOf(high, Cur.of.frame + StackObjects(Cur.of.ret))
  BY DEF ExecCall, Raise
<1>3. \/ Cur.of.ret = "Void"
      \/ /\ Cur.of.frame + StackObjects(Cur.of.ret) \in Nat
         /\ Cur.of.frame + StackObjects(Cur.of.ret) <= FrameTop
  BY <1>1 DEF Ready, LowFits
<1>4. CASE \E position, ex : RaiseAt(position, ex)
  BY <1>4, ReachesRaise
<1>5. CASE high' = IF Cur.of.ret = "Void" THEN high
                   ELSE LargerOf(high, Cur.of.frame + StackObjects(Cur.of.ret))
  <2> DEFINE end == Cur.of.frame + StackObjects(Cur.of.ret)
  <2>1. \/ high' = high
        \/ high' = LargerOf(high, end) /\ end \in Nat /\ end <= FrameTop
    BY <1>3, <1>5
  <2> HIDE DEF end
  <2> QED BY <2>1 DEF Reaches
<1> QED BY <1>2, <1>4, <1>5

LEMMA NewReaches == ASSUME Ready, ExecNewObj \/ ExecNewValue PROVE Reaches
<1> DEFINE frm == Cur.of.frame
           total == Cur.of.total
           made == RoomToMake(Cur.of.ret)
           size == StackObjects(Cur.of.ret)
<1>1. Cur.op \in {"NewObj", "NewValue"}
  BY DEF ExecNewObj, ExecNewValue
<1>2. /\ frm \in Nat /\ total \in Int /\ frm + made + total <= FrameTop
      /\ (Cur.op = "NewObj") <=> (Cur.of.ret = "Ref")
  BY <1>1 DEF Ready, LowFits
<1>3. size \in Nat
  BY SizesPositive
<1>4. CASE ExecNewObj
  <2>1. Cur.op = "NewObj" /\ high' = LargerOf(high, frm + 1 + total)
    BY <1>4 DEF ExecNewObj
  <2>2. made = 1
    BY <1>2, <2>1 DEF RoomToMake
  <2> HIDE DEF frm, total, made
  <2>3. frm + 1 + total \in Int /\ frm + 1 + total <= FrameTop
    BY <1>2, <2>2
  <2> QED BY <2>1, <2>3 DEF Reaches
<1>5. CASE ExecNewValue
  <2>1. Cur.op = "NewValue" /\ high' = LargerOf(high, frm + size + 1 + total)
    BY <1>5 DEF ExecNewValue
  <2>2. made = size + 1
    BY <1>2, <2>1 DEF RoomToMake
  <2> HIDE DEF frm, total, made, size
  <2>3. frm + size + 1 + total \in Int /\ frm + size + 1 + total <= FrameTop
    BY <1>2, <1>3, <2>2
  <2> QED BY <2>1, <2>3 DEF Reaches
<1> QED BY <1>4, <1>5

LEMMA ExecReaches == ASSUME Ready, RunCode, ~MayLeave PROVE Reaches
<1>1. /\ Cur.op \notin {"StInd", "InitObj", "CpObj", "Stfld", "Stelem"}
      /\ Cur.op = "Ret" /\ Cur.type = "Any" => Cur.from = "Other"
  BY DEF MayLeave
<1>2. Exec
  BY DEF RunCode
<1>3. ~ExecStoreField /\ ~ExecStoreElement
  BY <1>1 DEF ExecStoreField, ExecStoreElement
<1> QED BY <1>1, <1>2, <1>3, LoadStoreReaches, OperatorReaches, InitLocalsReaches,
           ControlReaches, ReturnReaches, MemoryReaches, CallReaches, NewReaches
        DEF Exec

-----------------------------------------------------------------------------
(* The code that runs is the code that was compiled. *)

FrameInv ==
    /\ phase # "run" => high = 0
    /\ frameSize \in Nat
    /\ phase \in {"call", "run"} =>
          frameSize = maxStack /\ \A p \in DOMAIN code : LowFits(code[p], FrameTop)

LEMMA FrameInvInit == Init => FrameInv
  BY DEF Init, TInit, FrameInv

LEMMA AssembledFits ==
  ASSUME IInv, SizesInv
  PROVE  \A p \in DOMAIN LoweredCode : LowFits(LoweredCode[p], FrameTop)
<1> SUFFICES ASSUME NEW p \in DOMAIN LoweredCode PROVE LowFits(LoweredCode[p], FrameTop)
  OBVIOUS
<1>1. IsSeq(hl) /\ FrameTop \in Nat
  BY FrameTopNat DEF IInv, CodeInv
<1>2. PICK k \in DOMAIN hl : LoweredCode[p] = Lower(hl[k])
  BY <1>1, CodeIsLowered
<1>3. Placed(hl[k], FrameTop) /\ Sized(hl[k], FrameTop)
  BY DEF IInv, CodeInv, SizesInv
<1>4. LowFits(Lower(hl[k]), FrameTop)
  BY <1>1, <1>3, LowerFits
<1> QED BY <1>2, <1>4

LEMMA FrameInvNext ==
  IInv /\ SizesInv /\ FrameInv /\ maxStack < FrameLimit /\ FrameLimit \in Nat
  /\ [Next]_vars => FrameInv'
<1> SUFFICES ASSUME IInv, SizesInv, FrameInv, maxStack < FrameLimit, FrameLimit \in Nat, [Next]_vars
             PROVE  FrameInv'
  OBVIOUS
<1>1. CASE Compile
  <2>1. /\ phase \notin {"call", "run"} /\ phase' \notin {"call", "run"}
        /\ UNCHANGED <<high, frameSize>>
    BY <1>1 DEF Compile, Transform, irvars, SetupArg, SetupLocal, SetupBlocks, Instruction,
       EnterBlock, Finish, Reject, LoadOrStore, BinArith, BinBit, Shift, Unary, Compare, Convert,
       AddressOf, Indirect, ClearOrCopy, ObjectAt, Field, StaticField, Element, StoreElement,
       Branch, CondBranch, Switch, PopParam, Call, NewObj, Return, Throw, Leave, InBody, Popped,
       Keeps, Emit
  <2> QED BY <2>1 DEF FrameInv
<1>2. CASE Assemble
  <2>1. /\ phase = "transformed" /\ phase' = "call" /\ high' = high
        /\ code' = LoweredCode /\ frameSize' = FrameSize /\ UNCHANGED <<base, maxStack>>
    BY <1>2 DEF Assemble
  <2>2. FrameSize = maxStack /\ FrameSize \in Nat
    BY DEF FrameSize, IInv
  <2>3. FrameTop' = FrameTop
    BY <2>1 DEF FrameTop, LargerOf
  <2>4. \A p \in DOMAIN code' : LowFits(code'[p], FrameTop')
    BY <2>1, <2>3, AssembledFits
  <2> QED BY <2>1, <2>2, <2>4 DEF FrameInv
<1>3. ASSUME UNCHANGED <<base, maxStack, code, frameSize>>,
             phase' = "call" => phase = "call", phase' = "run" => phase \in {"call", "run"},
             phase' # "run" => high' = high /\ phase # "run"
      PROVE  FrameInv'
  <2>1. FrameTop' = FrameTop
    BY <1>3 DEF FrameTop, LargerOf
  <2> QED BY <1>3, <2>1 DEF FrameInv
<1>4. CASE PassArg \/ Enter
  BY <1>3, <1>4 DEF PassArg, Enter, tvars, irvars
<1>5. CASE RunIL
  BY <1>3, <1>5 DEF RunIL, tvars, irvars
<1>6. CASE RunCode
  BY <1>3, <1>6 DEF RunCode, tvars, Exec
<1>7. CASE SkipCode \/ UNCHANGED vars
  <2>1. UNCHANGED <<base, maxStack, code, frameSize, phase, high>>
    BY <1>7 DEF SkipCode, vars, tvars, irvars
  <2>2. FrameTop' = FrameTop
    BY <2>1 DEF FrameTop, LargerOf
  <2> QED BY <2>1, <2>2 DEF FrameInv
<1> QED BY <1>1, <1>2, <1>4, <1>5, <1>6, <1>7 DEF Next

LEMMA FrameStep ==
  IInv /\ FrameInv /\ FrameInv' /\ IInv' /\ FrameHolds /\ [Next]_vars
  => FrameHolds' \/ MayLeave
<1> SUFFICES ASSUME IInv, IInv', FrameInv, FrameInv', FrameHolds, [Next]_vars, ~MayLeave
             PROVE  FrameHolds'
  OBVIOUS
<1>1. CASE phase' # "run"
  <2>1. high' = 0 /\ base' \in Nat /\ frameSize' \in Nat
    BY <1>1 DEF FrameInv, IInv
  <2>2. base' + 1 \in Nat
    <3>1. \A b \in Nat : b + 1 \in Nat
      OBVIOUS
    <3>2. base' \in Nat
      BY <2>1
    <3> QED BY <3>1, <3>2, Zenon
  <2>3. LargerOf(frameSize', base' + 1) = frameSize' \/ LargerOf(frameSize', base' + 1) = base' + 1
    BY DEF LargerOf
  <2>4. LargerOf(frameSize', base' + 1) \in Nat
    BY <2>1, <2>2, <2>3
  <2>5. FrameHolds' <=> high' <= LargerOf(frameSize', base' + 1)
    BY DEF FrameHolds, LargerOf
  <2> HIDE DEF FrameHolds
  <2> QED BY <2>1, <2>4, <2>5
<1>2. CASE phase' = "run" /\ UNCHANGED <<base, frameSize, high>>
  BY <1>2 DEF FrameHolds, LargerOf
<1>3. CASE RunCode
  <2>1. /\ phase = "run" /\ ip \in DOMAIN code /\ UNCHANGED <<base, frameSize>>
    BY <1>3 DEF RunCode, Behind, BehindAt, tvars, Exec
  <2>2. /\ frameSize = maxStack /\ LowFits(Cur, FrameTop) /\ base \in Nat /\ maxStack \in Nat
        /\ FrameTop \in Nat
    BY <2>1, FrameTopNat DEF FrameInv, IInv, Cur
  <2>3. Ready
    BY <2>2, FrameTopNat DEF Ready
  <2>4. Reaches
    BY <1>3, <2>3, ExecReaches
  <2>5. LargerOf(frameSize, base + 1) = FrameTop /\ LargerOf(frameSize, base + 1)' = FrameTop
    BY <2>1, <2>2 DEF FrameTop
  <2>6. high <= FrameTop
    BY <2>5 DEF FrameHolds
  <2>7. high' <= FrameTop
    BY <2>4, <2>6 DEF Reaches, LargerOf
  <2> QED BY <2>5, <2>7 DEF FrameHolds
<1>4. CASE Compile
  <2>1. phase' # "run"
    BY <1>4 DEF Compile, Transform, irvars, SetupArg, SetupLocal, SetupBlocks, Instruction,
       EnterBlock, Finish, Reject, LoadOrStore, BinArith, BinBit, Shift, Unary, Compare, Convert,
       AddressOf, Indirect, ClearOrCopy, ObjectAt, Field, StaticField, Element, StoreElement,
       Branch, CondBranch, Switch, PopParam, Call, NewObj, Return, Throw, Leave, InBody, Popped,
       Keeps, Emit
  <2> QED BY <1>1, <2>1
<1>5. CASE Assemble
  BY <1>1, <1>5 DEF Assemble
<1>6. CASE PassArg
  BY <1>1, <1>2, <1>6 DEF PassArg, tvars
<1>7. CASE Enter \/ RunIL \/ SkipCode
  <2>1. UNCHANGED <<base, frameSize, high>>
    BY <1>7 DEF Enter, RunIL, SkipCode, tvars, irvars
  <2> QED BY <1>1, <1>2, <2>1
<1>8. CASE UNCHANGED vars
  <2>1. UNCHANGED <<base, frameSize, high>>
    BY <1>8 DEF vars, tvars, irvars
  <2> QED BY <1>1, <1>2, <2>1
<1> QED BY <1>3, <1>4, <1>5, <1>6, <1>7, <1>8 DEF Next

LEMMA FrameHoldsInit == Init => FrameHolds
  BY DEF Init, TInit, FrameHolds, LargerOf

(* Compiled code, whatever the method: an instruction that stays in its      *)
(* frame leaves it only by a store through a pointer, or by the return of    *)
(* what is no value type from a method that returns one.  The frame size is  *)
(* taken to fit its 16 bits, and a value type that is constructed to have    *)
(* more than one byte.                                                       *)
THEOREM OnlyPointersLeave ==
  ASSUME RoomForValues, FrameLimit \in Nat
  PROVE  Spec /\ [](maxStack < FrameLimit) => [][FrameHolds => FrameHolds' \/ MayLeave]_vars
<1>1. Init => IInv /\ SizesInv /\ FrameInv
  BY InitInv, SizesInit, FrameInvInit
<1>2. IInv /\ [Next]_vars => IInv'
  BY NextInv
<1>3. IInv /\ IInv' /\ SizesInv /\ [Next]_vars => SizesInv'
  BY SizesNext
<1>4. IInv /\ SizesInv /\ FrameInv /\ maxStack < FrameLimit /\ [Next]_vars => FrameInv'
  BY FrameInvNext
<1>5. IInv /\ IInv' /\ FrameInv /\ FrameInv' /\ [Next]_vars
        => [FrameHolds => FrameHolds' \/ MayLeave]_vars
  BY FrameStep
<1> QED BY <1>1, <1>2, <1>3, <1>4, <1>5, PTL DEF Spec

(* A running method stays in the frame that was reserved for it, provided    *)
(* its stores through pointers and its ill-typed returns do.                 *)
THEOREM FrameSafe ==
  ASSUME RoomForValues, FrameLimit \in Nat
  PROVE  Spec /\ [](maxStack < FrameLimit) /\ [][MayLeave => FrameHolds']_vars => []FrameHolds
<1>1. Init => FrameHolds
  BY FrameHoldsInit
<1>2. Spec /\ [](maxStack < FrameLimit) => [][FrameHolds => FrameHolds' \/ MayLeave]_vars
  BY OnlyPointersLeave
<1>3. FrameHolds /\ [FrameHolds => FrameHolds' \/ MayLeave]_vars /\ [MayLeave => FrameHolds']_vars
        => FrameHolds'
  <2> SUFFICES ASSUME FrameHolds, UNCHANGED vars PROVE FrameHolds'
    OBVIOUS
  <2>1. UNCHANGED <<high, frameSize, base>>
    BY DEF vars, tvars, irvars
  <2> QED BY <2>1 DEF FrameHolds, LargerOf
<1> QED BY <1>1, <1>2, <1>3, PTL DEF Spec
=============================================================================
