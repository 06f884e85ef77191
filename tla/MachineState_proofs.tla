-------------------------- MODULE MachineState_proofs --------------------------
(***************************************************************************)
(* For stacks of any size and methods of any need: the interpreter's two   *)
(* stacks represent the calls in progress.                                 *)
(***************************************************************************)
EXTENDS MachineState, SequenceTheorems, TLAPS

CallRec == [slot : 0 .. FrameSize - 1, frame : FrameRec,
            native : BOOLEAN, stale : BOOLEAN]
ActRec == [ftop : Nat, etop : Nat, cur : 0 .. FrameSize - 1]
M == Len(acts)

LEMMA FrontFacts ==
  ASSUME NEW S, NEW s \in Seq(S), s # <<>>
  PROVE  /\ Front(s) \in Seq(S) /\ Len(Front(s)) = Len(s) - 1
         /\ \A i \in 1 .. Len(s) - 1 : Front(s)[i] = s[i]
<1>1. PICK n \in Nat : n = Len(s)
  OBVIOUS
<1>2. n >= 1
  BY <1>1, EmptySeq
<1>3. 1 \in 1 .. n + 1 /\ n - 1 \in 0 .. n
  BY <1>1, <1>2
<1>4. /\ SubSeq(s, 1, n - 1) \in Seq(S)
      /\ Len(SubSeq(s, 1, n - 1)) = IF 1 <= n - 1 THEN n - 1 - 1 + 1 ELSE 0
      /\ \A i \in 1 .. n - 1 - 1 + 1 : SubSeq(s, 1, n - 1)[i] = s[1 + i - 1]
  BY <1>1, <1>3, SubSeqProperties
<1> QED BY <1>1, <1>2, <1>4 DEF Front

LEMMA LenFacts ==
  ASSUME NEW S, NEW s \in Seq(S)
  PROVE  /\ Len(s) \in Nat /\ (s = <<>> <=> Len(s) = 0)
         /\ s # <<>> => Len(s) >= 1 /\ Len(s) \in 1 .. Len(s)
         /\ \A i \in 1 .. Len(s) : s[i] \in S
<1>1. Len(s) \in Nat /\ \A i \in 1 .. Len(s) : s[i] \in S
  OBVIOUS
<1>2. s = <<>> <=> Len(s) = 0
  BY EmptySeq
<1> QED BY <1>1, <1>2

LEMMA CallTypes ==
  ASSUME TypeOK
  PROVE  /\ calls \in Seq(CallRec) /\ N \in Nat /\ (calls = <<>> <=> N = 0)
         /\ \A i \in 1 .. N :
              /\ calls[i] \in CallRec /\ calls[i].frame \in FrameRec
              /\ calls[i].slot \in Nat /\ calls[i].slot < FrameSize
              /\ calls[i].frame.base \in Nat /\ calls[i].frame.size \in Nat
              /\ calls[i].frame.old \in Nat
              /\ calls[i].native \in BOOLEAN /\ calls[i].stale \in BOOLEAN
<1>1. calls \in Seq(CallRec)
  BY DEF TypeOK, CallRec
<1>2. N \in Nat /\ (calls = <<>> <=> N = 0) /\ \A i \in 1 .. N : calls[i] \in CallRec
  BY <1>1, LenFacts DEF N
<1>3. ASSUME NEW c \in CallRec
      PROVE  /\ c.frame \in FrameRec /\ c.slot \in Nat /\ c.slot < FrameSize
             /\ c.frame.base \in Nat /\ c.frame.size \in Nat /\ c.frame.old \in Nat
             /\ c.native \in BOOLEAN /\ c.stale \in BOOLEAN
  BY SizeAssumption DEF CallRec, FrameRec
<1> QED BY <1>1, <1>2, <1>3

LEMMA ActTypes ==
  ASSUME TypeOK
  PROVE  /\ acts \in Seq(ActRec) /\ M \in Nat /\ (acts = <<>> <=> M = 0)
         /\ \A j \in 1 .. M :
              /\ acts[j] \in ActRec /\ acts[j].ftop \in Nat /\ acts[j].etop \in Nat
              /\ acts[j].cur \in Nat /\ acts[j].cur < FrameSize
<1>1. acts \in Seq(ActRec)
  BY DEF TypeOK, ActRec
<1>2. M \in Nat /\ (acts = <<>> <=> M = 0) /\ \A j \in 1 .. M : acts[j] \in ActRec
  BY <1>1, LenFacts DEF M
<1>3. ASSUME NEW a \in ActRec
      PROVE  a.ftop \in Nat /\ a.etop \in Nat /\ a.cur \in Nat /\ a.cur < FrameSize
  BY SizeAssumption DEF ActRec
<1> QED BY <1>1, <1>2, <1>3

(* The innermost call and activation. *)
LEMMA Innermost ==
  ASSUME IInv, acts # <<>>
  PROVE  /\ calls # <<>> /\ N \in 1 .. N /\ N >= 1 /\ Last(calls) = calls[N]
         /\ M \in 1 .. M /\ M >= 1 /\ Act = acts[M]
         /\ Act.cur \in Nat /\ Act.cur >= calls[N].slot
         /\ Act.cur \in 0 .. FrameSize - 1 /\ Cur = slots[Act.cur] /\ Cur \in FrameRec
         /\ etop = End(N) /\ ftop > calls[N].slot
         /\ \A i \in 1 .. N : calls[i].slot <= calls[N].slot
<1>1. TypeOK /\ FramesIntact /\ TopsExact /\ SlotsInOrder
  BY DEF IInv
<1>2. calls # <<>> /\ N \in 1 .. N /\ N >= 1
  BY <1>1, CallTypes, ActTypes DEF FramesIntact, N, M
<1>3. M \in 1 .. M /\ M >= 1
  BY <1>1, ActTypes
<1>4. Last(calls) = calls[N] /\ Act = acts[M]
  BY DEF Last, Act, N, M
<1>5. Act.cur \in Nat /\ Act.cur \in 0 .. FrameSize - 1
  BY <1>1, <1>3, <1>4, ActTypes, SizeAssumption
<1>6. Cur = slots[Act.cur] /\ Cur \in FrameRec
  BY <1>1, <1>5 DEF Cur, TypeOK
<1>7. etop = End(N) /\ ftop > calls[N].slot
  BY <1>1, <1>2, <1>4 DEF TopsExact, End
<1>8. ASSUME NEW i \in 1 .. N PROVE calls[i].slot <= calls[N].slot
  <2>1. i < N \/ i = N
    BY <1>2
  <2>2. i < N => calls[i].slot < calls[N].slot
    BY <1>1, <1>2 DEF SlotsInOrder
  <2> QED BY <2>1, <2>2, <1>1, <1>2, CallTypes
<1>9. Act.cur >= calls[N].slot
  <2>1. calls[N].slot \in Nat
    BY <1>1, <1>2, CallTypes
  <2>2. Act.cur = calls[N].slot \/ Act.cur > calls[N].slot
    BY <1>1, <1>4 DEF FramesIntact
  <2> QED BY <2>1, <2>2, <1>5
<1> QED BY <1>2, <1>3, <1>4, <1>5, <1>6, <1>7, <1>8, <1>9

(* Whether or not calls are in progress, the tops are above them. *)
LEMMA BelowTops ==
  ASSUME IInv
  PROVE  /\ ftop \in Nat /\ etop \in Nat
         /\ \A i \in 1 .. N : calls[i].slot < ftop
         /\ \A l \in leaked : l < ftop /\ l \in Nat
         /\ N = 0 => ftop = 0 /\ etop = 0 /\ leaked = {}
         /\ N # 0 => etop = End(N) /\ N \in 1 .. N /\ ftop > calls[N].slot
                     /\ calls[N].slot + 1 .. ftop - 1 = {l \in leaked : l > calls[N].slot}
<1>1. TypeOK /\ TopsExact /\ SlotsInOrder /\ FramesIntact
  BY DEF IInv
<1>2. ftop \in Nat /\ etop \in Nat /\ N \in Nat /\ \A l \in leaked : l \in Nat
  BY <1>1, CallTypes, SizeAssumption DEF TypeOK
<1>3. N = 0 => calls = <<>>
  BY <1>1, CallTypes
<1>4. N = 0 => ftop = 0 /\ etop = 0 /\ leaked = {}
  BY <1>1, <1>3 DEF TopsExact, SlotsInOrder
<1>5. CASE N # 0
  <2>1. acts # <<>> /\ calls # <<>>
    BY <1>1, <1>5, CallTypes, ActTypes DEF FramesIntact, N, M
  <2>2. etop = End(N) /\ N \in 1 .. N /\ ftop > calls[N].slot /\ Last(calls) = calls[N]
        /\ \A i \in 1 .. N : calls[i].slot <= calls[N].slot
    BY <2>1, Innermost
  <2>3. calls[N].slot + 1 .. ftop - 1 = {l \in leaked : l > calls[N].slot}
    BY <2>1, <2>2, <1>1 DEF TopsExact
  <2>4. calls[N].slot \in Nat /\ \A i \in 1 .. N : calls[i].slot \in Nat
    BY <2>2, <1>1, CallTypes
  <2>5. ASSUME NEW l \in leaked PROVE l < ftop
    <3>1. CASE l > calls[N].slot
      BY <3>1, <2>3, <2>4, <1>2
    <3>2. CASE ~(l > calls[N].slot)
      BY <3>2, <2>2, <2>4, <1>2
    <3> QED BY <3>1, <3>2
  <2>6. \A i \in 1 .. N : calls[i].slot < ftop
    BY <2>2, <2>4, <1>2
  <2> QED BY <2>2, <2>3, <2>5, <2>6, <1>2, <1>5
<1> QED BY <1>2, <1>4, <1>5

(* Where the interpreter stands: in the frame of the innermost call, or in *)
(* a leaked slot above it, which remembers the same top.                   *)
LEMMA Standing ==
  ASSUME IInv, acts # <<>>
  PROVE  /\ Stale <=> Act.cur # calls[N].slot
         /\ ~Stale => Cur = calls[N].frame
         /\ Stale => /\ Act.cur \in leaked /\ Act.cur > calls[N].slot
                     /\ Cur.old = End(N)
         /\ StandsIn(Act.cur, N)
         /\ Act.cur < ftop
<1>1. FramesIntact /\ LeakedInOrder
  BY DEF IInv
<1>2. /\ N \in 1 .. N /\ N >= 1 /\ Last(calls) = calls[N] /\ Cur = slots[Act.cur]
      /\ ftop > calls[N].slot
  BY Innermost
<1>3. Stale <=> Act.cur # calls[N].slot
  BY <1>2 DEF Stale
<1>4. ~Stale => Cur = calls[N].frame
  BY <1>1, <1>2, <1>3 DEF FramesIntact, N
<1>5. ASSUME Stale PROVE Act.cur \in leaked /\ Act.cur > calls[N].slot
  BY <1>1, <1>2, <1>3, <1>5 DEF FramesIntact
<1>6. ~(N < N)
  BY <1>2
<1>7. Stale => Above(Act.cur, N)
  BY <1>5, <1>6, BelowTops DEF Above
<1>8. Stale => Cur.old = End(N)
  BY <1>1, <1>2, <1>5, <1>7 DEF LeakedInOrder
<1>9. StandsIn(Act.cur, N)
  BY <1>3, <1>5, <1>7 DEF StandsIn
<1>10. Act.cur < ftop
  BY <1>2, <1>3, <1>5, BelowTops
<1> QED BY <1>3, <1>4, <1>5, <1>8, <1>9, <1>10

--------------------------------------------------------------------------------
(* A call that goes through: what it does to the chain of calls.           *)
LEMMA Pushed ==
  ASSUME IInv, NEW rec \in FrameRec, NEW nat \in BOOLEAN, NEW st \in BOOLEAN,
         FrameFits, Entered(rec, nat, st)
  PROVE  /\ calls' \in Seq(CallRec) /\ N' = N + 1 /\ N \in Nat
         /\ \A i \in 1 .. N : calls'[i] = calls[i]
         /\ calls'[N + 1].slot = ftop /\ calls'[N + 1].frame = rec
         /\ calls'[N + 1].native = nat /\ calls'[N + 1].stale = st
         /\ ftop \in 0 .. FrameSize - 1 /\ ftop' = ftop + 1 /\ leaked' = leaked
<1> DEFINE c == [slot |-> ftop, frame |-> rec, native |-> nat, stale |-> st]
<1>1. TypeOK
  BY DEF IInv
<1>2. ftop \in 0 .. FrameSize - 1
  BY <1>1, SizeAssumption DEF FrameFits, TypeOK
<1>3. c \in CallRec
  BY <1>2 DEF CallRec
<1>4. calls \in Seq(CallRec) /\ N \in Nat
  BY <1>1, CallTypes
<1>5. calls' = Append(calls, c)
  BY DEF Entered
<1>6. /\ calls' \in Seq(CallRec) /\ Len(calls') = Len(calls) + 1
      /\ \A i \in 1 .. Len(calls) : calls'[i] = calls[i]
      /\ calls'[Len(calls) + 1] = c
  BY <1>3, <1>4, <1>5, AppendProperties
<1>7. ftop' = ftop + 1 /\ leaked' = leaked
  BY DEF Entered
<1> QED BY <1>2, <1>4, <1>6, <1>7 DEF N

(* A slot above a call stays so when the next call begins. *)
LEMMA PushedStands ==
  ASSUME IInv, NEW rec \in FrameRec, NEW nat \in BOOLEAN, NEW st \in BOOLEAN,
         FrameFits, Entered(rec, nat, st),
         NEW i \in 1 .. N, NEW x, StandsIn(x, i)
  PROVE  StandsIn(x, i)'
<1>1. /\ N' = N + 1 /\ N \in Nat /\ leaked' = leaked /\ calls'[N + 1].slot = ftop
      /\ \A h \in 1 .. N : calls'[h] = calls[h]
  BY Pushed
<1>2. CASE x = calls[i].slot
  BY <1>1, <1>2 DEF StandsIn
<1>3. CASE x # calls[i].slot
  <2>1. x \in leaked /\ calls[i].slot < x /\ (i < N => x < calls[i + 1].slot)
    BY <1>3 DEF StandsIn, Above
  <2>2. x < ftop
    BY <2>1, BelowTops
  <2>3. i < N => i + 1 \in 1 .. N
    BY <1>1
  <2>4. ~(i < N) => i + 1 = N + 1
    BY <1>1
  <2>5. x < calls'[i + 1].slot
    BY <2>1, <2>2, <2>3, <2>4, <1>1
  <2> QED BY <2>1, <2>5, <1>1 DEF StandsIn, Above
<1> QED BY <1>2, <1>3

LEMMA PushedSlots ==
  ASSUME IInv, NEW rec \in FrameRec, NEW nat \in BOOLEAN, NEW st \in BOOLEAN,
         FrameFits, Entered(rec, nat, st)
  PROVE  /\ slots' \in [0 .. FrameSize - 1 -> FrameRec]
         /\ \A i \in 1 .. N' : slots'[calls'[i].slot] = calls'[i].frame
         /\ SlotsInOrder' /\ LeakedInOrder'
         /\ calls' # <<>> /\ Last(calls') = calls'[N + 1] /\ N + 1 \in 1 .. N'
         /\ ftop' > Last(calls').slot
         /\ Last(calls').slot + 1 .. ftop' - 1 = {l \in leaked' : l > Last(calls').slot}
<1>1. TypeOK /\ FramesIntact /\ SlotsInOrder /\ LeakedInOrder
  BY DEF IInv
<1>2. /\ calls' \in Seq(CallRec) /\ N' = N + 1 /\ N \in Nat
      /\ \A i \in 1 .. N : calls'[i] = calls[i]
      /\ calls'[N + 1].slot = ftop /\ calls'[N + 1].frame = rec
      /\ ftop \in 0 .. FrameSize - 1 /\ ftop' = ftop + 1 /\ leaked' = leaked
  BY Pushed
<1>3. /\ \A i \in 1 .. N : calls[i].slot < ftop
      /\ \A l \in leaked : l < ftop /\ l \in Nat
      /\ N = 0 => ftop = 0 /\ leaked = {}
      /\ N # 0 => N \in 1 .. N /\ calls[N].slot < ftop
           /\ calls[N].slot + 1 .. ftop - 1 = {l \in leaked : l > calls[N].slot}
  BY BelowTops
<1>4. \A i \in 1 .. N : calls[i].slot \in 0 .. FrameSize - 1 /\ calls[i].slot \in Nat
  BY <1>1, CallTypes, SizeAssumption
<1>5. slots' = [slots EXCEPT ![ftop] = rec]
  BY DEF Entered
<1>6. slots' \in [0 .. FrameSize - 1 -> FrameRec]
  BY <1>1, <1>2, <1>5 DEF TypeOK
<1>7. \A i \in 1 .. N : slots'[calls[i].slot] = calls[i].frame
  <2> SUFFICES ASSUME NEW i \in 1 .. N PROVE slots'[calls[i].slot] = calls[i].frame
    OBVIOUS
  <2>1. slots[calls[i].slot] = calls[i].frame
    BY <1>1 DEF FramesIntact, N
  <2>2. calls[i].slot # ftop
    BY <1>2, <1>3, <1>4
  <2> QED BY <2>1, <2>2, <1>1, <1>2, <1>4, <1>5 DEF TypeOK
<1>8. slots'[ftop] = rec
  BY <1>1, <1>2, <1>5 DEF TypeOK
<1>9. \A i \in 1 .. N' : i \in 1 .. N \/ i = N + 1
  BY <1>2
<1>10. \A i \in 1 .. N' : slots'[calls'[i].slot] = calls'[i].frame
  BY <1>2, <1>7, <1>8, <1>9
<1>11. \A i, j \in 1 .. N' : i < j => calls'[i].slot < calls'[j].slot
  <2> SUFFICES ASSUME NEW i \in 1 .. N', NEW j \in 1 .. N', i < j
               PROVE  calls'[i].slot < calls'[j].slot
    OBVIOUS
  <2>1. i \in 1 .. N
    BY <1>2
  <2>2. CASE j \in 1 .. N
    BY <2>1, <2>2, <1>1, <1>2 DEF SlotsInOrder
  <2>3. CASE j = N + 1
    BY <2>1, <2>3, <1>2, <1>3
  <2> QED BY <2>2, <2>3, <1>9
<1>12. \A i \in 2 .. N' : calls'[i - 1].slot + 1 .. calls'[i].slot - 1 \subseteq leaked
  <2> SUFFICES ASSUME NEW i \in 2 .. N'
               PROVE  calls'[i - 1].slot + 1 .. calls'[i].slot - 1 \subseteq leaked
    OBVIOUS
  <2>1. i - 1 \in 1 .. N
    BY <1>2
  <2>2. CASE i \in 2 .. N
    <3>1. calls[i - 1].slot + 1 .. calls[i].slot - 1 \subseteq leaked
      BY <2>2, <1>1 DEF SlotsInOrder
    <3>2. i \in 1 .. N
      BY <2>2, <1>2
    <3> QED BY <3>1, <3>2, <2>1, <1>2
  <2>3. CASE i = N + 1
    <3>1. i - 1 = N /\ N # 0
      BY <2>1, <2>3, <1>2
    <3> QED BY <3>1, <2>3, <1>2, <1>3
  <2> QED BY <2>2, <2>3, <1>2
<1>13. \A i \in 1 .. N' :
         {l \in leaked : l < calls'[i].slot} = {} => calls'[i].slot = i - 1
  <2> SUFFICES ASSUME NEW i \in 1 .. N', {l \in leaked : l < calls'[i].slot} = {}
               PROVE  calls'[i].slot = i - 1
    OBVIOUS
  <2>1. CASE i \in 1 .. N
    BY <2>1, <1>1, <1>2 DEF SlotsInOrder
  <2>2. CASE i = N + 1
    <3>1. {l \in leaked : l < ftop} = {}
      BY <2>2, <1>2
    <3>2. leaked = {}
      BY <3>1, <1>3
    <3>3. CASE N = 0
      BY <3>3, <2>2, <1>2, <1>3
    <3>4. CASE N # 0
      <4>1. calls[N].slot = N - 1
        BY <3>2, <3>4, <1>1, <1>3 DEF SlotsInOrder
      <4>2. calls[N].slot + 1 .. ftop - 1 = {}
        BY <3>2, <3>4, <1>3
      <4>3. ftop = N
        BY <4>1, <4>2, <1>2, <1>3, <3>4
      <4> QED BY <4>3, <2>2, <1>2
    <3> QED BY <3>3, <3>4
  <2> QED BY <2>1, <2>2, <1>9
<1>14. calls' # <<>> /\ Last(calls') = calls'[N + 1] /\ N + 1 \in 1 .. N'
  <2>1. Len(calls') = N + 1
    BY <1>2 DEF N
  <2>2. calls' # <<>>
    BY <2>1, <1>2, EmptySeq
  <2> QED BY <2>1, <2>2, <1>2 DEF Last
<1>15. calls'[1].slot = 0
  <2>1. CASE N = 0
    BY <2>1, <1>2, <1>3
  <2>2. CASE N # 0
    <3>1. calls # <<>> /\ 1 \in 1 .. N
      BY <2>2, <1>1, <1>2, CallTypes
    <3> QED BY <3>1, <1>1, <1>2 DEF SlotsInOrder
  <2> QED BY <2>1, <2>2
<1>16. {l \in leaked : l > ftop} = {} /\ ftop + 1 .. ftop + 1 - 1 = {}
  BY <1>2, <1>3
<1>17. SlotsInOrder'
  BY <1>2, <1>11, <1>12, <1>13, <1>14, <1>15 DEF SlotsInOrder
<1>18. LeakedInOrder'
  <2> SUFFICES ASSUME NEW l \in leaked, NEW i \in 1 .. N', Above(l, i)'
               PROVE  slots'[l].old = End(i)'
    BY <1>2 DEF LeakedInOrder
  <2>1. l < ftop /\ l \in Nat /\ l \in 0 .. FrameSize - 1
    BY <1>1, <1>3 DEF TypeOK
  <2>2. calls'[i].slot < l /\ (i < N + 1 => l < calls'[i + 1].slot)
    BY <1>2 DEF Above
  <2>3. i \in 1 .. N
    BY <2>1, <2>2, <1>2, <1>9
  <2>4. i < N => i + 1 \in 1 .. N
    BY <2>3, <1>2
  <2>5. Above(l, i)
    BY <2>2, <2>3, <2>4, <1>2 DEF Above
  <2>6. slots[l].old = End(i)
    BY <2>3, <2>5, <1>1 DEF LeakedInOrder
  <2>7. slots'[l] = slots[l]
    BY <2>1, <1>1, <1>2, <1>5 DEF TypeOK
  <2> QED BY <2>3, <2>6, <2>7, <1>2 DEF End
<1> QED BY <1>2, <1>6, <1>10, <1>14, <1>16, <1>17, <1>18

(* The areas, when the new call begins where native code found the top, or *)
(* within the area of the innermost call, unless a stale frame made it.    *)
LEMMA PushedAreas ==
  ASSUME IInv, NEW rec \in FrameRec, NEW nat \in BOOLEAN, NEW st \in BOOLEAN,
         FrameFits, Entered(rec, nat, st),
         rec.old = etop, rec.base + rec.size <= EvalSize,
         IF nat THEN rec.base = etop
         ELSE N # 0 /\ (~st => calls[N].frame.base <= rec.base /\ rec.base <= etop),
         nat => ~st
  PROVE  AreasInOrder'
<1>1. TypeOK /\ AreasInOrder
  BY DEF IInv
<1>2. /\ N' = N + 1 /\ N \in Nat
      /\ \A i \in 1 .. N : calls'[i] = calls[i]
      /\ calls'[N + 1].frame = rec /\ calls'[N + 1].native = nat
      /\ calls'[N + 1].stale = st
  BY Pushed
<1>3. /\ N = 0 => etop = 0
      /\ N # 0 => N \in 1 .. N /\ etop = End(N)
      /\ etop \in Nat
  BY BelowTops
<1>4. \A i \in 1 .. N : /\ calls[i].frame.base \in Nat /\ calls[i].frame.size \in Nat
                        /\ calls[i].frame.base <= End(i) /\ End(i) \in Nat
  <2> SUFFICES ASSUME NEW i \in 1 .. N
               PROVE  /\ calls[i].frame.base \in Nat /\ calls[i].frame.size \in Nat
                      /\ calls[i].frame.base <= End(i) /\ End(i) \in Nat
    OBVIOUS
  <2>1. calls[i].frame.base \in Nat /\ calls[i].frame.size \in Nat
    BY <1>1, CallTypes
  <2> QED BY <2>1 DEF End
<1>5. rec.base \in Nat
  BY DEF FrameRec
<1>6. \A i \in 1 .. N : End(i)' = End(i)
  BY <1>2 DEF End
<1>7. \A i \in 1 .. N + 1 : i \in 1 .. N \/ i = N + 1
  BY <1>2
<1>8. \A i \in 1 .. N : i # 1 => i - 1 \in 1 .. N
  BY <1>2
<1>9. \A i \in 1 .. N' : calls'[i].frame.old = IF i = 1 THEN 0 ELSE End(i - 1)'
  <2> SUFFICES ASSUME NEW i \in 1 .. N + 1
               PROVE  calls'[i].frame.old = IF i = 1 THEN 0 ELSE End(i - 1)'
    BY <1>2
  <2>1. CASE i \in 1 .. N
    BY <2>1, <1>1, <1>2, <1>6, <1>8 DEF AreasInOrder
  <2>2. CASE i = N + 1
    <3>1. N = 0 => i = 1
      BY <2>2
    <3>2. N # 0 => i # 1 /\ i - 1 = N /\ i - 1 \in 1 .. N
      BY <2>2, <1>2
    <3> QED BY <3>1, <3>2, <2>2, <1>2, <1>3, <1>6
  <2> QED BY <2>1, <2>2, <1>7
<1>10. \A i \in 1 .. N' :
         IF calls'[i].native THEN calls'[i].frame.base = calls'[i].frame.old
         ELSE i > 1 /\ (~calls'[i].stale =>
                           /\ calls'[i - 1].frame.base <= calls'[i].frame.base
                           /\ calls'[i].frame.base <= End(i - 1)')
  <2> SUFFICES ASSUME NEW i \in 1 .. N + 1
               PROVE  IF calls'[i].native THEN calls'[i].frame.base = calls'[i].frame.old
                      ELSE i > 1 /\ (~calls'[i].stale =>
                                        /\ calls'[i - 1].frame.base <= calls'[i].frame.base
                                        /\ calls'[i].frame.base <= End(i - 1)')
    BY <1>2
  <2>1. CASE i \in 1 .. N
    <3>1. IF calls[i].native THEN calls[i].frame.base = calls[i].frame.old
          ELSE i > 1 /\ (~calls[i].stale =>
                            /\ calls[i - 1].frame.base <= calls[i].frame.base
                            /\ calls[i].frame.base <= End(i - 1))
      BY <2>1, <1>1 DEF AreasInOrder
    <3>2. i > 1 => i - 1 \in 1 .. N
      BY <2>1, <1>2
    <3> QED BY <3>1, <3>2, <2>1, <1>2, <1>6
  <2>2. CASE i = N + 1
    <3>1. N # 0 => i > 1 /\ i - 1 = N /\ i - 1 \in 1 .. N
      BY <2>2, <1>2
    <3> QED BY <3>1, <2>2, <1>2, <1>3, <1>6
  <2> QED BY <2>1, <2>2, <1>7
<1>11. \A i, j \in 1 .. N :
         i < j /\ Regular(j) => calls[i].frame.base <= calls[j].frame.base
  BY <1>1 DEF AreasInOrder
<1>12. \A j \in 1 .. N : Regular(j)' <=> Regular(j)
  <2> SUFFICES ASSUME NEW j \in 1 .. N PROVE Regular(j)' <=> Regular(j)
    OBVIOUS
  <2>1. \A m \in 1 .. j : m \in 1 .. N
    BY <1>2
  <2> QED BY <2>1, <1>2 DEF Regular
<1>13. ASSUME NEW z, z = N + 1, Regular(z)' PROVE ~st /\ (N # 0 => Regular(N))
  <2>1. N + 1 \in 1 .. N + 1 /\ \A m \in 1 .. N : m \in 1 .. N + 1
    BY <1>2
  <2> QED BY <2>1, <1>2, <1>13 DEF Regular
<1>14. ASSUME NEW z, z = N + 1, Regular(z)', NEW i \in 1 .. N
       PROVE  calls[i].frame.base <= rec.base
  <2>1. N \in 1 .. N /\ N # 0 /\ (i < N \/ i = N)
    BY <1>2
  <2>2. calls[i].frame.base <= calls[N].frame.base
    BY <2>1, <1>4, <1>14, <1>11, <1>13
  <2>3. calls[N].frame.base <= rec.base
    BY <2>1, <1>3, <1>4, <1>14, <1>13
  <2> QED BY <2>1, <2>2, <2>3, <1>4, <1>5
<1>15. \A i, j \in 1 .. N' :
         i < j /\ Regular(j)' => calls'[i].frame.base <= calls'[j].frame.base
  <2> SUFFICES ASSUME NEW i \in 1 .. N + 1, NEW j \in 1 .. N + 1, i < j, Regular(j)'
               PROVE  calls'[i].frame.base <= calls'[j].frame.base
    BY <1>2
  <2>1. i \in 1 .. N
    BY <1>2
  <2>2. CASE j \in 1 .. N
    BY <2>1, <2>2, <1>2, <1>11, <1>12
  <2>3. CASE j = N + 1
    BY <2>1, <2>3, <1>2, <1>14
  <2> QED BY <2>2, <2>3, <1>7
<1>16. \A i \in 1 .. N' : End(i)' <= EvalSize
  <2>2. \A i \in 1 .. N : End(i) <= EvalSize
    BY <1>1 DEF AreasInOrder
  <2> SUFFICES ASSUME NEW i \in 1 .. N + 1 PROVE End(i)' <= EvalSize
    BY <1>2
  <2>3. CASE i \in 1 .. N
    BY <2>2, <2>3, <1>6
  <2>4. CASE i = N + 1
    <3>1. End(i)' = rec.base + rec.size
      BY <2>4, <1>2 DEF End
    <3> QED BY <3>1
  <2> QED BY <2>3, <2>4, <1>7
<1> QED BY <1>9, <1>10, <1>15, <1>16 DEF AreasInOrder

--------------------------------------------------------------------------------
(* The innermost call ends.                                                *)
LEMMA Popped ==
  ASSUME IInv, acts # <<>>, calls' = Front(calls)
  PROVE  /\ calls' \in Seq(CallRec) /\ N' = N - 1 /\ N \in Nat /\ N >= 1
         /\ \A i \in 1 .. N - 1 : calls'[i] = calls[i]
         /\ calls' = <<>> <=> N = 1
         /\ N # 1 => Last(calls') = calls[N - 1] /\ N - 1 \in 1 .. N - 1 /\ N - 1 \in 1 .. N
<1>1. calls \in Seq(CallRec) /\ calls # <<>> /\ N \in Nat /\ N >= 1
  BY Innermost, CallTypes DEF IInv
<1>2. /\ calls' \in Seq(CallRec) /\ Len(calls') = N - 1
      /\ \A i \in 1 .. N - 1 : calls'[i] = calls[i]
  BY <1>1, FrontFacts DEF N
<1>3. N' = N - 1
  BY <1>2 DEF N
<1>4. calls' = <<>> <=> N = 1
  BY <1>1, <1>2, LenFacts
<1>5. N # 1 => N - 1 \in 1 .. N - 1 /\ N - 1 \in 1 .. N
  BY <1>1
<1>6. N # 1 => Last(calls') = calls[N - 1]
  BY <1>2, <1>5 DEF Last
<1> QED BY <1>1, <1>2, <1>3, <1>4, <1>5, <1>6

LEMMA PoppedSlots ==
  ASSUME IInv, acts # <<>>, ~Stale, Left(calls[N].slot)
  PROVE  /\ \A i \in 1 .. N' : slots'[calls'[i].slot] = calls'[i].frame
         /\ SlotsInOrder' /\ LeakedInOrder'
         /\ N = 1 => ftop' = 0
         /\ N # 1 => /\ ftop' > calls[N - 1].slot
                     /\ calls[N - 1].slot + 1 .. ftop' - 1 = {l \in leaked' : l > calls[N - 1].slot}
<1> DEFINE top == calls[N].slot
<1>1. TypeOK /\ FramesIntact /\ SlotsInOrder /\ LeakedInOrder
  BY DEF IInv
<1>2. /\ calls' = Front(calls) /\ slots' = slots /\ ftop' = top
      /\ leaked' = {l \in leaked : l < top}
  BY DEF Left
<1>3. /\ N' = N - 1 /\ N \in Nat /\ N >= 1
      /\ \A i \in 1 .. N - 1 : calls'[i] = calls[i]
      /\ calls' = <<>> <=> N = 1
      /\ N # 1 => N - 1 \in 1 .. N - 1 /\ N - 1 \in 1 .. N
  BY <1>2, Popped
<1>4. \A i \in 1 .. N : calls[i].slot \in Nat
  BY <1>1, CallTypes
<1>5. \A l \in leaked : l \in Nat
  BY <1>1 DEF TypeOK
<1>6. \A i \in 1 .. N - 1 : i \in 1 .. N /\ N \in 1 .. N /\ i < N /\ calls[i].slot < top
  <2> SUFFICES ASSUME NEW i \in 1 .. N - 1
               PROVE  i \in 1 .. N /\ N \in 1 .. N /\ i < N /\ calls[i].slot < top
    OBVIOUS
  <2>1. i \in 1 .. N /\ N \in 1 .. N /\ i < N
    BY <1>3
  <2> QED BY <2>1, <1>1 DEF SlotsInOrder
<1>7. \A i \in 1 .. N' : slots'[calls'[i].slot] = calls'[i].frame
  BY <1>1, <1>2, <1>3, <1>6 DEF FramesIntact, N
<1>8. \A i, j \in 1 .. N' : i < j => calls'[i].slot < calls'[j].slot
  BY <1>1, <1>3, <1>6 DEF SlotsInOrder
<1>9. \A i \in 2 .. N' : calls'[i - 1].slot + 1 .. calls'[i].slot - 1 \subseteq leaked'
  <2> SUFFICES ASSUME NEW i \in 2 .. N - 1,
                      NEW l \in calls'[i - 1].slot + 1 .. calls'[i].slot - 1
               PROVE  l \in leaked'
    BY <1>3
  <2>1. i \in 1 .. N - 1 /\ i - 1 \in 1 .. N - 1 /\ i \in 2 .. N
    BY <1>3
  <2>2. l \in calls[i - 1].slot + 1 .. calls[i].slot - 1
    BY <2>1, <1>3
  <2>3. l \in leaked
    BY <2>1, <2>2, <1>1 DEF SlotsInOrder
  <2>4. l < top
    BY <2>1, <2>2, <1>3, <1>4, <1>6
  <2> QED BY <2>3, <2>4, <1>2
<1>10. \A i \in 1 .. N' :
         {l \in leaked' : l < calls'[i].slot} = {} => calls'[i].slot = i - 1
  <2> SUFFICES ASSUME NEW i \in 1 .. N - 1, {l \in leaked' : l < calls'[i].slot} = {}
               PROVE  calls'[i].slot = i - 1
    BY <1>3
  <2>1. i \in 1 .. N /\ calls'[i] = calls[i] /\ calls[i].slot < top
    BY <1>3, <1>6
  <2>2. {l \in leaked : l < calls[i].slot} = {}
    BY <2>1, <1>2, <1>3, <1>4, <1>5
  <2> QED BY <2>1, <2>2, <1>1 DEF SlotsInOrder
<1>11. calls # <<>> /\ calls[1].slot = 0
  BY <1>1, <1>3, CallTypes DEF SlotsInOrder
<1>12. N = 1 => ftop' = 0 /\ leaked' = {}
  BY <1>2, <1>5, <1>11
<1>13. N # 1 => calls'[1].slot = 0
  BY <1>3, <1>11
<1>14. SlotsInOrder'
  BY <1>3, <1>8, <1>9, <1>10, <1>12, <1>13 DEF SlotsInOrder
<1>15. ASSUME N # 1
       PROVE  /\ ftop' > calls[N - 1].slot
              /\ calls[N - 1].slot + 1 .. ftop' - 1 = {l \in leaked' : l > calls[N - 1].slot}
  <2>1. N \in 2 .. N /\ N - 1 \in 1 .. N - 1
    BY <1>3, <1>15
  <2>2. calls[N - 1].slot + 1 .. top - 1 \subseteq leaked
    BY <2>1, <1>1 DEF SlotsInOrder
  <2>3. calls[N - 1].slot < top /\ calls[N - 1].slot \in Nat /\ top \in Nat
    BY <2>1, <1>3, <1>4, <1>6
  <2> HIDE DEF top
  <2>4. calls[N - 1].slot + 1 .. top - 1 = {l \in leaked' : l > calls[N - 1].slot}
    BY <2>2, <2>3, <1>2, <1>5
  <2> QED BY <2>3, <2>4, <1>2
<1>16. LeakedInOrder'
  <2> SUFFICES ASSUME NEW l \in leaked', NEW i \in 1 .. N', Above(l, i)'
               PROVE  slots'[l].old = End(i)'
    BY DEF LeakedInOrder
  <2>1. l \in leaked /\ l < top /\ i \in 1 .. N - 1 /\ i \in 1 .. N
    BY <1>2, <1>3, <1>6
  <2>2. i < N - 1 => i + 1 \in 1 .. N - 1
    BY <2>1, <1>3
  <2>3. i < N - 1 \/ i + 1 = N
    BY <2>1, <1>3
  <2>4. calls[i].slot < l
    BY <2>1, <1>3 DEF Above
  <2>5. i < N => l < calls[i + 1].slot
    BY <2>1, <2>2, <2>3, <1>3 DEF Above
  <2>6. slots[l].old = End(i)
    BY <2>1, <2>4, <2>5, <1>1 DEF LeakedInOrder, Above
  <2> QED BY <2>1, <2>6, <1>2, <1>3 DEF End
<1> QED BY <1>7, <1>12, <1>14, <1>15, <1>16

LEMMA PoppedStands ==
  ASSUME IInv, acts # <<>>, ~Stale, Left(calls[N].slot),
         NEW i \in 1 .. N - 1, NEW x, StandsIn(x, i)
  PROVE  /\ StandsIn(x, i)'
         /\ x = calls[i].slot \/ (x \in leaked' /\ x > calls[i].slot)
<1>1. /\ calls' = Front(calls) /\ leaked' = {l \in leaked : l < calls[N].slot}
  BY DEF Left
<1>2. /\ N' = N - 1 /\ N \in Nat /\ N >= 1
      /\ \A h \in 1 .. N - 1 : calls'[h] = calls[h]
  BY <1>1, Popped
<1>3. i \in 1 .. N /\ i < N /\ i + 1 \in 1 .. N /\ (i < N - 1 => i + 1 \in 1 .. N - 1)
  BY <1>2
<1>4. CASE x = calls[i].slot
  BY <1>2, <1>4 DEF StandsIn
<1>5. CASE x # calls[i].slot
  <2>1. x \in leaked /\ calls[i].slot < x /\ x < calls[i + 1].slot
    BY <1>3, <1>5 DEF StandsIn, Above
  <2>2. calls[i + 1].slot <= calls[N].slot
    BY <1>3, Innermost
  <2>3. calls[i + 1].slot \in Nat /\ calls[N].slot \in Nat /\ x \in Nat /\ calls[i].slot \in Nat
    <3>1. N \in 1 .. N
      BY <1>2
    <3> QED BY <2>1, <3>1, <1>3, CallTypes, BelowTops DEF IInv
  <2>4. x \in leaked'
    BY <2>1, <2>2, <2>3, <1>1
  <2>5. i < N - 1 => x < calls'[i + 1].slot
    BY <2>1, <1>2, <1>3
  <2> QED BY <2>1, <2>3, <2>4, <2>5, <1>2 DEF StandsIn, Above
<1> QED BY <1>4, <1>5

LEMMA PoppedAreas ==
  ASSUME IInv, acts # <<>>, calls' = Front(calls)
  PROVE  AreasInOrder'
<1>1. AreasInOrder
  BY DEF IInv
<1>2. /\ N' = N - 1 /\ N \in Nat /\ N >= 1
      /\ \A i \in 1 .. N - 1 : calls'[i] = calls[i]
  BY Popped
<1>3. \A i \in 1 .. N - 1 : i \in 1 .. N /\ (i # 1 => i - 1 \in 1 .. N - 1) /\ End(i)' = End(i)
  BY <1>2 DEF End
<1>4. \A i \in 1 .. N' : calls'[i].frame.old = IF i = 1 THEN 0 ELSE End(i - 1)'
  BY <1>1, <1>2, <1>3 DEF AreasInOrder
<1>5. ASSUME NEW i \in 1 .. N'
      PROVE  IF calls'[i].native THEN calls'[i].frame.base = calls'[i].frame.old
             ELSE i > 1 /\ (~calls'[i].stale =>
                               /\ calls'[i - 1].frame.base <= calls'[i].frame.base
                               /\ calls'[i].frame.base <= End(i - 1)')
  <2>1. i \in 1 .. N /\ i \in 1 .. N - 1
    BY <1>2
  <2>2. IF calls[i].native THEN calls[i].frame.base = calls[i].frame.old
        ELSE i > 1 /\ (~calls[i].stale =>
                          /\ calls[i - 1].frame.base <= calls[i].frame.base
                          /\ calls[i].frame.base <= End(i - 1))
    BY <2>1, <1>1 DEF AreasInOrder
  <2>3. i > 1 => i # 1 /\ calls'[i - 1] = calls[i - 1] /\ End(i - 1)' = End(i - 1)
    BY <2>1, <1>2, <1>3
  <2> QED BY <2>1, <2>2, <2>3, <1>2
<1>6. \A i, j \in 1 .. N' :
        i < j /\ Regular(j)' => calls'[i].frame.base <= calls'[j].frame.base
  <2> SUFFICES ASSUME NEW i \in 1 .. N - 1, NEW j \in 1 .. N - 1, i < j, Regular(j)'
               PROVE  calls[i].frame.base <= calls[j].frame.base
    BY <1>2
  <2>1. \A m \in 1 .. j : m \in 1 .. N - 1
    BY <1>2
  <2>2. Regular(j)
    BY <2>1, <1>2 DEF Regular
  <2> QED BY <2>2, <1>1, <1>3 DEF AreasInOrder
<1>7. \A i \in 1 .. N' : End(i)' <= EvalSize
  BY <1>1, <1>2, <1>3 DEF AreasInOrder
<1> QED BY <1>4, <1>5, <1>6, <1>7 DEF AreasInOrder

--------------------------------------------------------------------------------
(* The activation of execute that a frame belongs to.                      *)
LEMMA ActFacts ==
  ASSUME IInv, acts # <<>>
  PROVE  /\ \A j \in 1 .. M : acts[j].ftop <= Act.ftop
         /\ \A j \in 1 .. M : acts[j].ftop < ftop
         /\ Act.ftop <= Act.cur
         /\ FirstFrame => /\ calls[N].native /\ Act.ftop = calls[N].slot
                          /\ Act.etop = calls[N].frame.base /\ ~Stale
         /\ ~FirstFrame /\ ~Stale => ~calls[N].native /\ N # 1
<1>1. TypeOK /\ ActsMatchCalls /\ SlotsInOrder
  BY DEF IInv
<1>2. /\ N \in 1 .. N /\ M \in 1 .. M /\ Act = acts[M]
      /\ Act.cur \in Nat /\ Act.cur >= calls[N].slot /\ (Stale <=> Act.cur # calls[N].slot)
      /\ ftop > calls[N].slot /\ \A i \in 1 .. N : calls[i].slot <= calls[N].slot
  BY Innermost, Standing
<1>3. /\ \A j \in 1 .. M : acts[j].ftop \in Nat /\ acts[j].cur \in Nat
      /\ \A i \in 1 .. N : calls[i].slot \in Nat /\ calls[i].native \in BOOLEAN
      /\ ftop \in Nat
  BY <1>1, ActTypes, CallTypes, BelowTops
<1>4. \A i, j \in 1 .. M : i < j => acts[i].ftop < acts[j].ftop
  BY <1>1 DEF ActsMatchCalls, M
<1>5. \A j \in 1 .. M : \E i \in 1 .. N :
        calls[i].native /\ calls[i].slot = acts[j].ftop /\ calls[i].frame.base = acts[j].etop
  BY <1>1 DEF ActsMatchCalls, M
<1>6. ASSUME NEW j \in 1 .. M PROVE acts[j].ftop <= Act.ftop
  <2>1. j < M \/ j = M
    BY <1>2
  <2> QED BY <2>1, <1>2, <1>3, <1>4
<1>7. ASSUME NEW j \in 1 .. M PROVE acts[j].ftop < ftop /\ acts[j].ftop <= Act.cur
  BY <1>2, <1>3, <1>5
<1>8. PICK k \in 1 .. N : /\ calls[k].native /\ calls[k].slot = Act.ftop
                          /\ calls[k].frame.base = Act.etop
  BY <1>2, <1>5
<1>9. \A i, j \in 1 .. N : i < j => calls[i].slot < calls[j].slot
  BY <1>1 DEF SlotsInOrder
<1>10. ASSUME FirstFrame PROVE k = N /\ ~Stale
  <2>1. calls[k].slot = calls[N].slot /\ Act.cur = calls[N].slot
    BY <1>2, <1>3, <1>7, <1>8, <1>10 DEF FirstFrame
  <2>2. k < N \/ k = N
    BY <1>2
  <2> QED BY <2>1, <2>2, <1>2, <1>3, <1>9
<1>11. ASSUME ~FirstFrame, ~Stale PROVE ~calls[N].native /\ N # 1
  <2>1. calls[N].slot > Act.ftop
    BY <1>2, <1>3, <1>7, <1>11 DEF FirstFrame
  <2>2. calls[N].native => \E j \in 1 .. M : calls[N].slot = acts[j].ftop
    BY <1>1, <1>2 DEF ActsMatchCalls, M
  <2>3. ~calls[N].native
    BY <2>1, <2>2, <1>2, <1>3, <1>6
  <2>4. N # 1
    BY <2>1, <1>2, <1>3, <1>8
  <2> QED BY <2>3, <2>4
<1> QED BY <1>2, <1>6, <1>7, <1>8, <1>10, <1>11

(* No activation, no call.                                                 *)
LEMMA NoAct ==
  ASSUME IInv
  PROVE  M = 0 <=> N = 0
BY DEF IInv, FramesIntact, M, N

LEMMA ExecuteActs ==
  ASSUME IInv, NEW n \in Need, Execute(n)
  PROVE  ActsMatchCalls' /\ acts' \in Seq(ActRec) /\ acts' # <<>> /\ Last(acts').cur = ftop
<1> DEFINE a == [ftop |-> ftop, etop |-> etop, cur |-> ftop]
<1> DEFINE rec == Rec(etop, n)
<1>1. TypeOK /\ ActsMatchCalls
  BY DEF IInv
<1>2. ftop \in Nat /\ etop \in Nat /\ n \in Nat /\ \A i \in 1 .. N : calls[i].slot < ftop
  BY BelowTops, NeedAssumption
<1>3. rec \in FrameRec /\ rec.base = etop
  BY <1>2 DEF Rec, FrameRec
<1>4. FrameFits /\ Entered(rec, TRUE, FALSE) /\ acts' = Append(acts, a)
  BY DEF Execute
<1> HIDE DEF rec
<1>5. /\ N' = N + 1 /\ N \in Nat
      /\ \A i \in 1 .. N : calls'[i] = calls[i]
      /\ calls'[N + 1].slot = ftop /\ calls'[N + 1].frame.base = etop
      /\ calls'[N + 1].native = TRUE /\ ftop \in 0 .. FrameSize - 1
  BY <1>3, <1>4, Pushed
<1>6. a \in ActRec /\ acts \in Seq(ActRec) /\ M \in Nat
  BY <1>1, <1>2, <1>5, ActTypes DEF ActRec
<1>7. /\ acts' \in Seq(ActRec) /\ Len(acts') = M + 1
      /\ \A j \in 1 .. M : acts'[j] = acts[j]
      /\ acts'[M + 1] = a
  BY <1>4, <1>6, AppendProperties DEF M
<1>8. acts' # <<>> /\ Last(acts') = a
  BY <1>6, <1>7, EmptySeq DEF Last
<1>9. \A j \in 1 .. M : acts[j].ftop < ftop /\ acts[j].ftop \in Nat
  <2>1. acts = <<>> => M = 0
    BY <1>1, ActTypes
  <2> QED BY <2>1, ActFacts, ActTypes, <1>1
<1>10. /\ \A j \in 1 .. M + 1 : j \in 1 .. M \/ j = M + 1
       /\ \A i \in 1 .. N + 1 : i \in 1 .. N \/ i = N + 1
       /\ \A i \in 1 .. N : i \in 1 .. N + 1
       /\ \A j \in 1 .. M : j \in 1 .. M + 1
       /\ N + 1 \in 1 .. N + 1 /\ M + 1 \in 1 .. M + 1
  BY <1>5, <1>6
<1>11. \A i, j \in 1 .. M + 1 : i < j => acts'[i].ftop < acts'[j].ftop
  <2> SUFFICES ASSUME NEW i \in 1 .. M + 1, NEW j \in 1 .. M + 1, i < j
               PROVE  acts'[i].ftop < acts'[j].ftop
    OBVIOUS
  <2>1. i \in 1 .. M
    BY <1>6
  <2>2. CASE j \in 1 .. M
    BY <2>1, <2>2, <1>1, <1>7 DEF ActsMatchCalls, M
  <2>3. CASE j = M + 1
    BY <2>1, <2>3, <1>7, <1>9
  <2> QED BY <2>2, <2>3, <1>10
<1>12. ASSUME NEW j \in 1 .. M + 1
       PROVE  \E i \in 1 .. N + 1 : /\ calls'[i].native /\ calls'[i].slot = acts'[j].ftop
                                    /\ calls'[i].frame.base = acts'[j].etop
  <2>1. CASE j \in 1 .. M
    <3>1. PICK i \in 1 .. N : /\ calls[i].native /\ calls[i].slot = acts[j].ftop
                              /\ calls[i].frame.base = acts[j].etop
      BY <2>1, <1>1 DEF ActsMatchCalls, M
    <3> QED BY <3>1, <2>1, <1>5, <1>7, <1>10
  <2>2. CASE j = M + 1
    BY <2>2, <1>5, <1>7, <1>10
  <2> QED BY <2>1, <2>2, <1>10
<1>13. ASSUME NEW i \in 1 .. N + 1, calls'[i].native
       PROVE  \E j \in 1 .. M + 1 : calls'[i].slot = acts'[j].ftop
  <2>1. CASE i \in 1 .. N
    <3>1. calls[i].native
      BY <2>1, <1>5, <1>13
    <3>2. PICK j \in 1 .. M : calls[i].slot = acts[j].ftop
      BY <2>1, <3>1, <1>1 DEF ActsMatchCalls, M
    <3> QED BY <3>2, <2>1, <1>5, <1>7, <1>10
  <2>2. CASE i = N + 1
    BY <2>2, <1>5, <1>7, <1>10
  <2> QED BY <2>1, <2>2, <1>10
<1>14. ASSUME NEW j \in 1 .. M + 1, NEW i \in 1 .. N + 1, calls'[i].slot = acts'[j].ftop
       PROVE  IF j = 1 THEN i = 1 ELSE i > 1 /\ StandsIn(acts[j - 1].cur, i - 1)'
  <2>1. CASE j \in 1 .. M /\ i \in 1 .. N
    <3>1. calls[i].slot = acts[j].ftop
      BY <2>1, <1>5, <1>7, <1>14
    <3>2. IF j = 1 THEN i = 1 ELSE i > 1 /\ StandsIn(acts[j - 1].cur, i - 1)
      BY <2>1, <3>1, <1>1 DEF ActsMatchCalls, M
    <3>3. ASSUME j # 1 PROVE StandsIn(acts[j - 1].cur, i - 1)'
      <4>1. j - 1 \in 1 .. M /\ i - 1 \in 1 .. N /\ StandsIn(acts[j - 1].cur, i - 1)
        BY <2>1, <3>2, <3>3, <1>5, <1>6
      <4>2. PICK x : x = acts[j - 1].cur
        OBVIOUS
      <4>3. acts'[j - 1].cur = x
        BY <4>1, <4>2, <1>7
      <4>4. StandsIn(x, i - 1)'
        BY <4>1, <4>2, <1>3, <1>4, PushedStands
      <4> QED BY <4>3, <4>4
    <3> QED BY <3>2, <3>3
  <2>2. CASE j \in 1 .. M /\ i = N + 1
    BY <2>2, <1>5, <1>7, <1>9, <1>14
  <2>3. CASE j = M + 1 /\ i \in 1 .. N
    BY <2>3, <1>2, <1>5, <1>7, <1>14, CallTypes, <1>1
  <2>4. CASE j = M + 1 /\ i = N + 1
    <3>1. M = 0 => j = 1 /\ i = 1
      BY <2>4, NoAct
    <3>2. ASSUME M # 0
          PROVE  j # 1 /\ i > 1 /\ StandsIn(acts[j - 1].cur, i - 1)'
      <4>1. acts # <<>>
        BY <3>2, <1>1, ActTypes
      <4>2. N # 0
        BY <3>2, NoAct
      <4>3. j # 1 /\ j - 1 = M /\ M \in 1 .. M /\ i > 1 /\ i - 1 = N /\ N \in 1 .. N
        BY <4>2, <2>4, <3>2, <1>5, <1>6
      <4>4. PICK x : x = Act.cur
        OBVIOUS
      <4>5. StandsIn(x, i - 1)
        BY <4>1, <4>3, <4>4, Standing
      <4>6. acts'[j - 1].cur = x
        BY <4>1, <4>3, <4>4, <1>7, Innermost
      <4>7. StandsIn(x, i - 1)'
        BY <4>3, <4>5, <1>3, <1>4, PushedStands
      <4> QED BY <4>3, <4>6, <4>7
    <3> QED BY <3>1, <3>2
  <2> QED BY <2>1, <2>2, <2>3, <2>4, <1>10
<1>15. ActsMatchCalls'
  BY <1>5, <1>7, <1>11, <1>12, <1>13, <1>14 DEF ActsMatchCalls
<1> QED BY <1>7, <1>8, <1>15

(* The innermost activation goes on in frame x. *)
LEMMA CurMoved ==
  ASSUME TypeOK, acts # <<>>, NEW x \in 0 .. FrameSize - 1,
         acts' = [acts EXCEPT ![Len(acts)].cur = x]
  PROVE  /\ acts' \in Seq(ActRec) /\ M' = M /\ M \in 1 .. M /\ acts' # <<>>
         /\ \A j \in 1 .. M : acts'[j].ftop = acts[j].ftop /\ acts'[j].etop = acts[j].etop
         /\ \A j \in 1 .. M : j # M => acts'[j] = acts[j]
         /\ Last(acts').cur = x
<1>1. acts \in Seq(ActRec) /\ M \in 1 .. M /\ M = Len(acts)
  BY ActTypes DEF M
<1> DEFINE a == [acts[M] EXCEPT !.cur = x]
<1>2. acts[M] \in ActRec
  BY <1>1
<1>3. a \in ActRec /\ a.ftop = acts[M].ftop /\ a.etop = acts[M].etop /\ a.cur = x
  BY <1>2 DEF ActRec
<1>4. acts' = [acts EXCEPT ![M] = a]
  BY <1>1
<1> HIDE DEF a
<1>5. /\ acts' \in Seq(ActRec) /\ Len(acts') = M
      /\ \A j \in 1 .. M : acts'[j] = IF j = M THEN a ELSE acts[j]
  BY <1>1, <1>3, <1>4, ExceptSeq
<1>6. acts' # <<>> /\ Last(acts') = a
  BY <1>1, <1>5, EmptySeq DEF Last
<1> QED BY <1>1, <1>3, <1>5, <1>6 DEF M

LEMMA CallActs ==
  ASSUME IInv, acts # <<>>, NEW rec \in FrameRec, NEW st \in BOOLEAN,
         FrameFits, Entered(rec, FALSE, st),
         acts' = [acts EXCEPT ![Len(acts)].cur = ftop]
  PROVE  ActsMatchCalls' /\ acts' \in Seq(ActRec) /\ acts' # <<>> /\ Last(acts').cur = ftop
<1>1. TypeOK /\ ActsMatchCalls
  BY DEF IInv
<1>2. /\ N' = N + 1 /\ N \in Nat
      /\ \A i \in 1 .. N : calls'[i] = calls[i]
      /\ calls'[N + 1].slot = ftop /\ calls'[N + 1].native = FALSE
      /\ ftop \in 0 .. FrameSize - 1
  BY Pushed
<1>3. /\ acts' \in Seq(ActRec) /\ M' = M /\ M \in 1 .. M /\ acts' # <<>>
      /\ \A j \in 1 .. M : acts'[j].ftop = acts[j].ftop /\ acts'[j].etop = acts[j].etop
      /\ \A j \in 1 .. M : j # M => acts'[j] = acts[j]
      /\ Last(acts').cur = ftop
  BY <1>1, <1>2, CurMoved
<1>4. \A j \in 1 .. M : acts[j].ftop < ftop /\ acts[j].ftop \in Nat
  BY <1>1, ActFacts, ActTypes
<1>5. /\ \A i \in 1 .. N + 1 : i \in 1 .. N \/ i = N + 1
      /\ \A i \in 1 .. N : i \in 1 .. N + 1
  BY <1>2
<1>6. \A i, j \in 1 .. M : i < j => acts'[i].ftop < acts'[j].ftop
  BY <1>1, <1>3 DEF ActsMatchCalls, M
<1>7. ASSUME NEW j \in 1 .. M
      PROVE  \E i \in 1 .. N + 1 : /\ calls'[i].native /\ calls'[i].slot = acts'[j].ftop
                                   /\ calls'[i].frame.base = acts'[j].etop
  <2>1. PICK i \in 1 .. N : /\ calls[i].native /\ calls[i].slot = acts[j].ftop
                            /\ calls[i].frame.base = acts[j].etop
    BY <1>1 DEF ActsMatchCalls, M
  <2>2. calls'[i] = calls[i] /\ i \in 1 .. N + 1
    BY <1>2, <1>5
  <2>3. acts'[j].ftop = acts[j].ftop /\ acts'[j].etop = acts[j].etop
    BY <1>3
  <2> QED BY <2>1, <2>2, <2>3
<1>8. ASSUME NEW i \in 1 .. N + 1, calls'[i].native
      PROVE  \E j \in 1 .. M : calls'[i].slot = acts'[j].ftop
  <2>1. i \in 1 .. N
    BY <1>2, <1>5, <1>8
  <2>2. calls[i].native
    BY <2>1, <1>2, <1>8
  <2>3. PICK j \in 1 .. M : calls[i].slot = acts[j].ftop
    BY <2>1, <2>2, <1>1 DEF ActsMatchCalls, M
  <2> QED BY <2>1, <2>3, <1>2, <1>3
<1>9. ASSUME NEW j \in 1 .. M, NEW i \in 1 .. N + 1, calls'[i].slot = acts'[j].ftop
      PROVE  IF j = 1 THEN i = 1 ELSE i > 1 /\ StandsIn(acts[j - 1].cur, i - 1)'
  <2>1. i # N + 1
    BY <1>2, <1>3, <1>4, <1>9
  <2>2. i \in 1 .. N
    BY <2>1, <1>5
  <2>3. calls[i].slot = acts[j].ftop
    BY <2>2, <1>2, <1>3, <1>9
  <2>4. IF j = 1 THEN i = 1 ELSE i > 1 /\ StandsIn(acts[j - 1].cur, i - 1)
    BY <2>2, <2>3, <1>1 DEF ActsMatchCalls, M
  <2>5. ASSUME j # 1 PROVE StandsIn(acts[j - 1].cur, i - 1)'
    <3>1. /\ j - 1 \in 1 .. M /\ j - 1 # M /\ i - 1 \in 1 .. N
          /\ StandsIn(acts[j - 1].cur, i - 1)
      BY <2>2, <2>4, <2>5, <1>2, <1>3
    <3>2. PICK x : x = acts[j - 1].cur
      OBVIOUS
    <3>3. acts'[j - 1].cur = x
      BY <3>1, <3>2, <1>3
    <3>4. StandsIn(x, i - 1)'
      BY <3>1, <3>2, PushedStands
    <3> QED BY <3>3, <3>4
  <2> QED BY <2>4, <2>5
<1>10. ActsMatchCalls'
  BY <1>2, <1>3, <1>6, <1>7, <1>8, <1>9 DEF ActsMatchCalls, M
<1> QED BY <1>3, <1>10

LEMMA LeaveCallActs ==
  ASSUME IInv, LeaveToInterp, ~Stale
  PROVE  /\ Act.cur = calls[N].slot /\ N # 1 /\ calls' = Front(calls)
         /\ ActsMatchCalls' /\ acts' \in Seq(ActRec) /\ acts' # <<>>
         /\ \/ Last(acts').cur = calls[N - 1].slot
            \/ Last(acts').cur \in leaked' /\ Last(acts').cur > calls[N - 1].slot
<1>1. TypeOK /\ ActsMatchCalls /\ SlotsInOrder
  BY DEF IInv
<1>2. /\ acts # <<>> /\ ~FirstFrame /\ calls' = Front(calls) /\ Left(Act.cur)
      /\ leaked' = {l \in leaked : l < Act.cur}
  BY DEF LeaveToInterp, Left
<1>3. /\ Act.cur = calls[N].slot /\ ~calls[N].native /\ N # 1 /\ M \in 1 .. M /\ Act = acts[M]
      /\ Act.cur \in Nat
  BY <1>2, Innermost, Standing, ActFacts
<1>4. /\ N' = N - 1 /\ N \in Nat /\ N >= 1
      /\ \A i \in 1 .. N - 1 : calls'[i] = calls[i]
      /\ N - 1 \in 1 .. N - 1 /\ N - 1 \in 1 .. N
  BY <1>2, <1>3, Popped
<1>5. /\ N \in 2 .. N /\ N \in 1 .. N /\ N - 1 < N
      /\ \A i \in 1 .. N - 1 : i \in 1 .. N /\ i # N
      /\ \A i \in 1 .. N : i \in 1 .. N - 1 \/ i = N
  BY <1>3, <1>4
<1>6. /\ Act.cur - 1 \in 0 .. FrameSize - 1
      /\ \/ Act.cur - 1 = calls[N - 1].slot
         \/ Act.cur - 1 \in leaked' /\ Act.cur - 1 > calls[N - 1].slot
  <2>1. calls[N - 1].slot < calls[N].slot
    BY <1>1, <1>4, <1>5 DEF SlotsInOrder
  <2>2. calls[N - 1].slot + 1 .. calls[N].slot - 1 \subseteq leaked
    BY <1>1, <1>5 DEF SlotsInOrder
  <2>3. calls[N - 1].slot \in Nat /\ calls[N].slot \in Nat /\ calls[N].slot < FrameSize
    BY <1>1, <1>4, <1>5, CallTypes
  <2>4. Act.cur - 1 \in 0 .. FrameSize - 1
    BY <2>1, <2>3, <1>3, SizeAssumption
  <2>5. CASE Act.cur - 1 > calls[N - 1].slot
    BY <2>2, <2>3, <2>4, <2>5, <1>2, <1>3
  <2>6. CASE ~(Act.cur - 1 > calls[N - 1].slot)
    BY <2>1, <2>3, <2>4, <2>6, <1>3
  <2> QED BY <2>5, <2>6
<1>7. acts' = [acts EXCEPT ![Len(acts)].cur = Act.cur - 1]
  BY DEF LeaveToInterp, Act
<1>8. /\ acts' \in Seq(ActRec) /\ M' = M /\ acts' # <<>>
      /\ \A j \in 1 .. M : acts'[j].ftop = acts[j].ftop /\ acts'[j].etop = acts[j].etop
      /\ \A j \in 1 .. M : j # M => acts'[j] = acts[j]
      /\ Last(acts').cur = Act.cur - 1
  <2>1. PICK x \in 0 .. FrameSize - 1 : x = Act.cur - 1
    BY <1>6
  <2>2. acts' = [acts EXCEPT ![Len(acts)].cur = x]
    BY <2>1, <1>7
  <2> QED BY <2>1, <2>2, <1>1, <1>2, CurMoved
<1>9. \A i, j \in 1 .. M : i < j => acts'[i].ftop < acts'[j].ftop
  BY <1>1, <1>8 DEF ActsMatchCalls, M
<1>10. ASSUME NEW j \in 1 .. M
       PROVE  \E i \in 1 .. N - 1 : /\ calls'[i].native /\ calls'[i].slot = acts'[j].ftop
                                    /\ calls'[i].frame.base = acts'[j].etop
  <2>1. PICK i \in 1 .. N : /\ calls[i].native /\ calls[i].slot = acts[j].ftop
                            /\ calls[i].frame.base = acts[j].etop
    BY <1>1 DEF ActsMatchCalls, M
  <2>2. i \in 1 .. N - 1
    BY <2>1, <1>3, <1>5
  <2> QED BY <2>1, <2>2, <1>4, <1>8
<1>11. ASSUME NEW i \in 1 .. N - 1, calls'[i].native
       PROVE  \E j \in 1 .. M : calls'[i].slot = acts'[j].ftop
  <2>1. i \in 1 .. N /\ calls[i].native
    BY <1>4, <1>5, <1>11
  <2>2. PICK j \in 1 .. M : calls[i].slot = acts[j].ftop
    BY <2>1, <1>1 DEF ActsMatchCalls, M
  <2> QED BY <2>2, <1>4, <1>8
<1>12. ASSUME NEW j \in 1 .. M, NEW i \in 1 .. N - 1, calls'[i].slot = acts'[j].ftop
       PROVE  IF j = 1 THEN i = 1 ELSE i > 1 /\ StandsIn(acts[j - 1].cur, i - 1)'
  <2>1. i \in 1 .. N /\ calls[i].slot = acts[j].ftop
    BY <1>4, <1>5, <1>8, <1>12
  <2>2. IF j = 1 THEN i = 1 ELSE i > 1 /\ StandsIn(acts[j - 1].cur, i - 1)
    BY <2>1, <1>1 DEF ActsMatchCalls, M
  <2>3. ASSUME j # 1 PROVE StandsIn(acts[j - 1].cur, i - 1)'
    <3>1. /\ j - 1 \in 1 .. M /\ j - 1 # M /\ i - 1 \in 1 .. N - 1
          /\ StandsIn(acts[j - 1].cur, i - 1)
      BY <2>2, <2>3, <1>3, <1>4
    <3>2. PICK x : x = acts[j - 1].cur
      OBVIOUS
    <3>3. acts'[j - 1].cur = x
      BY <3>1, <3>2, <1>8
    <3>4. Left(calls[N].slot)
      BY <1>2, <1>3
    <3>5. StandsIn(x, i - 1)'
      BY <3>1, <3>2, <3>4, <1>2, PoppedStands
    <3> QED BY <3>3, <3>5
  <2> QED BY <2>2, <2>3
<1>13. ActsMatchCalls'
  BY <1>4, <1>8, <1>9, <1>10, <1>11, <1>12 DEF ActsMatchCalls, M
<1> QED BY <1>2, <1>3, <1>6, <1>8, <1>13

LEMMA LeaveToNativeActs ==
  ASSUME IInv, LeaveToNative
  PROVE  /\ Act.ftop = calls[N].slot /\ Act.etop = calls[N].frame.old /\ calls[N].native
         /\ ActsMatchCalls' /\ acts' \in Seq(ActRec) /\ (acts' = <<>> <=> N = 1)
         /\ ~Stale /\ calls' = Front(calls)
         /\ N # 1 => \/ Last(acts').cur = calls[N - 1].slot
                     \/ Last(acts').cur \in leaked' /\ Last(acts').cur > calls[N - 1].slot
<1>1. TypeOK /\ ActsMatchCalls /\ SlotsInOrder /\ AreasInOrder
  BY DEF IInv
<1>2. acts # <<>> /\ FirstFrame /\ Left(Act.ftop) /\ acts' = Front(acts)
  BY DEF LeaveToNative
<1>3. /\ calls[N].native /\ Act.ftop = calls[N].slot /\ Act.etop = calls[N].frame.base
      /\ ~Stale /\ M \in 1 .. M /\ N \in 1 .. N /\ Act = acts[M]
  BY <1>2, Innermost, ActFacts
<1>4. calls' = Front(calls) /\ Left(calls[N].slot)
  BY <1>2, <1>3 DEF Left
<1>5. Act.etop = calls[N].frame.old
  BY <1>1, <1>3 DEF AreasInOrder
<1>6. /\ N' = N - 1 /\ N \in Nat /\ N >= 1
      /\ \A i \in 1 .. N - 1 : calls'[i] = calls[i]
      /\ N # 1 => N - 1 \in 1 .. N - 1
  BY <1>2, <1>4, Popped
<1>7. /\ acts' \in Seq(ActRec) /\ M' = M - 1 /\ M \in Nat
      /\ \A j \in 1 .. M - 1 : acts'[j] = acts[j]
  <2>1. acts \in Seq(ActRec) /\ M \in Nat
    BY <1>1, ActTypes
  <2> QED BY <2>1, <1>2, FrontFacts DEF M
<1>8. IF M = 1 THEN N = 1 ELSE N > 1 /\ StandsIn(acts[M - 1].cur, N - 1)
  BY <1>1, <1>3 DEF ActsMatchCalls, M
<1>9. acts' = <<>> <=> N = 1
  <2>1. acts' = <<>> <=> M' = 0
    BY <1>7, LenFacts DEF M
  <2> QED BY <2>1, <1>7, <1>8
<1>10. ASSUME N # 1
      PROVE  \/ Last(acts').cur = calls[N - 1].slot
             \/ Last(acts').cur \in leaked' /\ Last(acts').cur > calls[N - 1].slot
  <2>1. Last(acts') = acts'[M']
    BY DEF Last, M
  <2>2. M - 1 \in 1 .. M - 1 /\ N - 1 \in 1 .. N - 1 /\ StandsIn(acts[M - 1].cur, N - 1)
    BY <1>3, <1>6, <1>7, <1>8, <1>10
  <2>3. PICK h \in 1 .. N - 1 : h = N - 1
    BY <2>2
  <2>4. PICK x : x = acts[M - 1].cur
    OBVIOUS
  <2>5. x = calls[h].slot \/ (x \in leaked' /\ x > calls[h].slot)
    BY <2>2, <2>3, <2>4, <1>2, <1>3, <1>4, PoppedStands
  <2>6. Last(acts').cur = x
    BY <2>1, <2>2, <2>4, <1>7
  <2> QED BY <2>3, <2>5, <2>6
<1>11. /\ \A j \in 1 .. M - 1 : j \in 1 .. M /\ j # M /\ acts[j].ftop < acts[M].ftop
       /\ \A i \in 1 .. N - 1 : i \in 1 .. N /\ i # N /\ calls[i].slot < calls[N].slot
       /\ \A j \in 1 .. M : j \in 1 .. M - 1 \/ j = M
       /\ \A i \in 1 .. N : i \in 1 .. N - 1 \/ i = N
  <2>1. /\ \A j \in 1 .. M - 1 : j \in 1 .. M /\ j # M /\ j < M
        /\ \A i \in 1 .. N - 1 : i \in 1 .. N /\ i # N /\ i < N
        /\ \A j \in 1 .. M : j \in 1 .. M - 1 \/ j = M
        /\ \A i \in 1 .. N : i \in 1 .. N - 1 \/ i = N
    BY <1>3, <1>6, <1>7
  <2>2. \A j \in 1 .. M - 1 : acts[j].ftop < acts[M].ftop
    BY <2>1, <1>1, <1>3 DEF ActsMatchCalls, M
  <2>3. \A i \in 1 .. N - 1 : calls[i].slot < calls[N].slot
    BY <2>1, <1>1, <1>3 DEF SlotsInOrder
  <2> QED BY <2>1, <2>2, <2>3
<1>12. \A i, j \in 1 .. M - 1 : i < j => acts'[i].ftop < acts'[j].ftop
  <2>1. \A i, j \in 1 .. M : i < j => acts[i].ftop < acts[j].ftop
    BY <1>1 DEF ActsMatchCalls, M
  <2> QED BY <2>1, <1>7, <1>11
<1>13. \A j \in 1 .. M : acts[j].ftop \in Nat
  BY <1>1, ActTypes
<1>14. ASSUME NEW j \in 1 .. M - 1
       PROVE  \E i \in 1 .. N - 1 : /\ calls'[i].native /\ calls'[i].slot = acts'[j].ftop
                                    /\ calls'[i].frame.base = acts'[j].etop
  <2>1. PICK i \in 1 .. N : /\ calls[i].native /\ calls[i].slot = acts[j].ftop
                            /\ calls[i].frame.base = acts[j].etop
    BY <1>1, <1>11 DEF ActsMatchCalls, M
  <2>2. i # N
    BY <2>1, <1>3, <1>11, <1>13
  <2> QED BY <2>1, <2>2, <1>6, <1>7, <1>11
<1>15. ASSUME NEW i \in 1 .. N - 1, calls'[i].native
       PROVE  \E j \in 1 .. M - 1 : calls'[i].slot = acts'[j].ftop
  <2>1. i \in 1 .. N /\ calls[i].native
    BY <1>6, <1>11, <1>15
  <2>2. PICK j \in 1 .. M : calls[i].slot = acts[j].ftop
    BY <2>1, <1>1 DEF ActsMatchCalls, M
  <2>3. j # M
    BY <2>2, <1>3, <1>11, <1>13
  <2> QED BY <2>2, <2>3, <1>6, <1>7, <1>11
<1>16. ASSUME NEW j \in 1 .. M - 1, NEW i \in 1 .. N - 1, calls'[i].slot = acts'[j].ftop
       PROVE  IF j = 1 THEN i = 1 ELSE i > 1 /\ StandsIn(acts[j - 1].cur, i - 1)'
  <2>1. i \in 1 .. N /\ j \in 1 .. M /\ calls[i].slot = acts[j].ftop
    BY <1>6, <1>7, <1>11, <1>16
  <2>2. IF j = 1 THEN i = 1 ELSE i > 1 /\ StandsIn(acts[j - 1].cur, i - 1)
    BY <2>1, <1>1 DEF ActsMatchCalls, M
  <2>3. ASSUME j # 1 PROVE StandsIn(acts[j - 1].cur, i - 1)'
    <3>1. /\ j - 1 \in 1 .. M - 1 /\ i - 1 \in 1 .. N - 1
          /\ StandsIn(acts[j - 1].cur, i - 1)
      BY <2>2, <2>3, <1>6, <1>7
    <3>2. PICK x : x = acts[j - 1].cur
      OBVIOUS
    <3>3. acts'[j - 1].cur = x
      BY <3>1, <3>2, <1>7
    <3>4. StandsIn(x, i - 1)'
      BY <3>1, <3>2, <1>2, <1>3, <1>4, PoppedStands
    <3> QED BY <3>3, <3>4
  <2> QED BY <2>2, <2>3
<1>17. ActsMatchCalls'
  BY <1>6, <1>7, <1>12, <1>14, <1>15, <1>16 DEF ActsMatchCalls, M
<1> QED BY <1>3, <1>5, <1>4, <1>7, <1>9, <1>10, <1>17

--------------------------------------------------------------------------------
(* A call that goes through preserves the invariant.                       *)
LEMMA PushStep ==
  ASSUME IInv, NEW rec \in FrameRec, NEW nat \in BOOLEAN, NEW st \in BOOLEAN,
         FrameFits, Entered(rec, nat, st),
         etop' = rec.base + rec.size, etop' <= EvalSize,
         ActsMatchCalls', acts' \in Seq(ActRec), acts' # <<>>, Last(acts').cur = ftop,
         AreasInOrder'
  PROVE  IInv'
<1>1. TypeOK
  BY DEF IInv
<1>2. /\ calls' \in Seq(CallRec) /\ N' = N + 1 /\ N \in Nat
      /\ calls'[N + 1].slot = ftop /\ calls'[N + 1].frame = rec
      /\ ftop \in 0 .. FrameSize - 1 /\ ftop' = ftop + 1 /\ leaked' = leaked
  BY Pushed
<1>3. /\ slots' \in [0 .. FrameSize - 1 -> FrameRec]
      /\ \A i \in 1 .. N' : slots'[calls'[i].slot] = calls'[i].frame
      /\ SlotsInOrder' /\ LeakedInOrder'
      /\ calls' # <<>> /\ Last(calls') = calls'[N + 1]
      /\ ftop' > Last(calls').slot
      /\ Last(calls').slot + 1 .. ftop' - 1 = {l \in leaked' : l > Last(calls').slot}
  BY PushedSlots
<1>4. TypeOK'
  <2>1. etop' \in 0 .. EvalSize
    BY SizeAssumption DEF FrameRec
  <2>2. ftop' \in 0 .. FrameSize
    BY <1>2, SizeAssumption
  <2>3. leaked' \subseteq 0 .. FrameSize - 1
    BY <1>1, <1>2 DEF TypeOK
  <2> QED BY <2>1, <2>2, <2>3, <1>2, <1>3 DEF TypeOK, CallRec, ActRec
<1>5. FramesIntact'
  <2>1. Len(acts') = 0 <=> Len(calls') = 0
    BY <1>2, <1>3, LenFacts
  <2>2. Act' = Last(acts')
    BY DEF Act, Last
  <2> QED BY <2>1, <2>2, <1>2, <1>3 DEF FramesIntact, N
<1>6. TopsExact'
  BY <1>2, <1>3 DEF TopsExact
<1> QED BY <1>3, <1>4, <1>5, <1>6 DEF IInv

(* So does the end of one.                                                 *)
LEMMA PopStep ==
  ASSUME IInv, acts # <<>>, ~Stale, Left(calls[N].slot), etop' = calls[N].frame.old,
         ActsMatchCalls', acts' \in Seq(ActRec), acts' = <<>> <=> N = 1,
         N # 1 => \/ Last(acts').cur = calls[N - 1].slot
                  \/ Last(acts').cur \in leaked' /\ Last(acts').cur > calls[N - 1].slot
  PROVE  IInv'
<1>1. TypeOK /\ AreasInOrder
  BY DEF IInv
<1>2. /\ calls' = Front(calls) /\ slots' = slots /\ ftop' = calls[N].slot
      /\ leaked' = {l \in leaked : l < calls[N].slot}
  BY DEF Left
<1>3. /\ calls' \in Seq(CallRec) /\ N' = N - 1 /\ N \in Nat /\ N >= 1
      /\ \A i \in 1 .. N - 1 : calls'[i] = calls[i]
      /\ calls' = <<>> <=> N = 1
      /\ N # 1 => Last(calls') = calls[N - 1] /\ N - 1 \in 1 .. N - 1 /\ N - 1 \in 1 .. N
  BY <1>2, Popped
<1>4. /\ \A i \in 1 .. N' : slots'[calls'[i].slot] = calls'[i].frame
      /\ SlotsInOrder' /\ LeakedInOrder'
      /\ N = 1 => ftop' = 0
      /\ N # 1 => /\ ftop' > calls[N - 1].slot
                  /\ calls[N - 1].slot + 1 .. ftop' - 1 = {l \in leaked' : l > calls[N - 1].slot}
  BY PoppedSlots
<1>5. AreasInOrder'
  BY <1>2, PoppedAreas
<1>6. N = 1 => etop' = 0
  <2>1. 1 \in 1 .. N
    BY <1>3
  <2> QED BY <2>1, <1>1 DEF AreasInOrder
<1>7. N # 1 => etop' = End(N - 1) /\ End(N - 1) \in 0 .. EvalSize
  <2> SUFFICES ASSUME N # 1 PROVE etop' = End(N - 1) /\ End(N - 1) \in 0 .. EvalSize
    OBVIOUS
  <2>1. N \in 1 .. N /\ N - 1 \in 1 .. N
    BY <1>3
  <2>2. etop' = End(N - 1) /\ End(N - 1) <= EvalSize
    <3>1. calls[N].frame.old = End(N - 1)
      BY <2>1, <1>1 DEF AreasInOrder
    <3>2. End(N - 1) <= EvalSize
      BY <2>1, <1>1 DEF AreasInOrder
    <3> QED BY <3>1, <3>2
  <2>3. End(N - 1) \in Nat
    <3>1. calls[N - 1].frame.base \in Nat /\ calls[N - 1].frame.size \in Nat
      BY <2>1, <1>1, CallTypes
    <3> QED BY <3>1 DEF End
  <2> QED BY <2>2, <2>3, SizeAssumption
<1>8. TypeOK'
  <2>1. etop' \in 0 .. EvalSize
    BY <1>6, <1>7, SizeAssumption
  <2>2. ftop' \in 0 .. FrameSize
    <3>1. N \in 1 .. N
      BY <1>3
    <3> QED BY <3>1, <1>1, <1>2, CallTypes, SizeAssumption
  <2>3. leaked' \subseteq 0 .. FrameSize - 1
    BY <1>1, <1>2 DEF TypeOK
  <2>4. slots' \in [0 .. FrameSize - 1 -> FrameRec]
    BY <1>1, <1>2 DEF TypeOK
  <2> QED BY <2>1, <2>2, <2>3, <2>4, <1>3 DEF TypeOK, CallRec, ActRec
<1>9. FramesIntact'
  <2>1. Len(acts') = 0 <=> Len(calls') = 0
    <3>1. acts' = <<>> <=> Len(acts') = 0
      BY LenFacts
    <3>2. calls' = <<>> <=> Len(calls') = 0
      BY <1>3, LenFacts
    <3> QED BY <3>1, <3>2, <1>3
  <2>2. Act' = Last(acts')
    BY DEF Act, Last
  <2> QED BY <2>1, <2>2, <1>3, <1>4 DEF FramesIntact, N
<1>10. TopsExact'
  <2>1. CASE N = 1
    BY <2>1, <1>3, <1>4, <1>6 DEF TopsExact
  <2>2. CASE N # 1
    BY <2>2, <1>3, <1>4, <1>7 DEF TopsExact, End
  <2> QED BY <2>1, <2>2
<1> QED BY <1>4, <1>5, <1>8, <1>9, <1>10 DEF IInv

(* A stale frame is left for the slot below it: no call ends, and the tops *)
(* go back to where they were when its own call failed.                    *)
LEMMA StaleStep ==
  ASSUME IInv, LeaveToInterp, Stale
  PROVE  IInv'
<1>1. /\ acts # <<>> /\ slots' = slots /\ calls' = calls /\ ftop' = Act.cur
      /\ leaked' = {l \in leaked : l < Act.cur} /\ etop' = Cur.old
      /\ acts' = [acts EXCEPT ![Len(acts)].cur = Act.cur - 1]
  BY DEF LeaveToInterp, Left, Act
<1>2. /\ TypeOK /\ FramesIntact /\ TopsExact /\ SlotsInOrder /\ AreasInOrder
      /\ LeakedInOrder /\ ActsMatchCalls
  BY DEF IInv
<1>3. /\ calls # <<>> /\ N \in 1 .. N /\ Last(calls) = calls[N]
      /\ Act.cur \in Nat /\ Act.cur \in 0 .. FrameSize - 1 /\ etop = End(N)
      /\ \A i \in 1 .. N : calls[i].slot <= calls[N].slot
  BY <1>1, Innermost
<1>4. /\ Act.cur \in leaked /\ Act.cur > calls[N].slot /\ Cur.old = etop /\ Act.cur < ftop
  BY <1>1, <1>3, Standing
<1>5. N \in Nat /\ \A i \in 1 .. N : calls[i].slot \in Nat /\ calls[i].slot < Act.cur
  BY <1>2, <1>3, <1>4, CallTypes
<1>6. PICK x \in 0 .. FrameSize - 1 : x = Act.cur - 1
  BY <1>3, <1>4, <1>5, SizeAssumption
<1>7. /\ acts' \in Seq(ActRec) /\ M' = M /\ M \in 1 .. M /\ acts' # <<>>
      /\ \A j \in 1 .. M : acts'[j].ftop = acts[j].ftop /\ acts'[j].etop = acts[j].etop
      /\ \A j \in 1 .. M : j # M => acts'[j] = acts[j]
      /\ Last(acts').cur = x
  BY <1>1, <1>2, <1>6, CurMoved
<1>8. \A l \in leaked : l \in Nat /\ l < ftop
  BY BelowTops
<1>9. calls[N].slot + 1 .. ftop - 1 = {l \in leaked : l > calls[N].slot} /\ ftop \in Nat
  BY <1>2, <1>3, BelowTops
<1>10. x = calls[N].slot \/ (x \in leaked' /\ x > calls[N].slot)
  <2>1. CASE x > calls[N].slot
    <3>1. x \in calls[N].slot + 1 .. ftop - 1
      BY <2>1, <1>3, <1>4, <1>5, <1>6, <1>9
    <3> QED BY <2>1, <3>1, <1>1, <1>3, <1>6, <1>9
  <2>2. CASE ~(x > calls[N].slot)
    BY <2>2, <1>3, <1>4, <1>5, <1>6
  <2> QED BY <2>1, <2>2
<1>11. TypeOK'
  <2>1. etop' \in 0 .. EvalSize
    BY <1>1, <1>2, <1>4 DEF TypeOK
  <2>2. ftop' \in 0 .. FrameSize
    BY <1>1, <1>3, SizeAssumption
  <2>3. leaked' \subseteq 0 .. FrameSize - 1
    BY <1>1, <1>2 DEF TypeOK
  <2> QED BY <2>1, <2>2, <2>3, <1>1, <1>2, <1>7 DEF TypeOK, ActRec
<1>12. FramesIntact'
  <2>1. Len(acts') # 0 /\ Len(calls') # 0
    BY <1>1, <1>3, <1>5, <1>7 DEF M, N
  <2>2. Act' = Last(acts') /\ Last(calls') = calls[N]
    BY <1>1, <1>3 DEF Act, Last
  <2>3. Act'.cur = calls[N].slot \/ (Act'.cur \in leaked' /\ Act'.cur > calls[N].slot)
    BY <2>2, <1>7, <1>10
  <2>4. \A i \in 1 .. Len(calls') : slots'[calls'[i].slot] = calls'[i].frame
    BY <1>1, <1>2 DEF FramesIntact
  <2> QED BY <2>1, <2>2, <2>3, <2>4 DEF FramesIntact
<1>13. TopsExact'
  <2> DEFINE b == calls[N].slot
             c == Act.cur
  <2>1. b \in Nat /\ c \in Nat /\ b < c /\ c < ftop
    BY <1>3, <1>4, <1>5
  <2>2. b + 1 .. ftop - 1 = {l \in leaked : l > b}
    BY <1>9
  <2>3. leaked' = {l \in leaked : l < c} /\ ftop' = c
    BY <1>1
  <2> HIDE DEF b, c
  <2>4. b + 1 .. c - 1 = {l \in leaked' : l > b}
    BY <2>1, <2>2, <2>3, <1>8, <1>9
  <2>5. ftop' > b /\ b + 1 .. ftop' - 1 = {l \in leaked' : l > b}
    BY <2>1, <2>3, <2>4
  <2>6. Last(calls') = calls[N] /\ etop' = End(N)
    BY <1>1, <1>3, <1>4
  <2> QED BY <2>5, <2>6, <1>1, <1>3 DEF TopsExact, End, b
<1>14. SlotsInOrder'
  <2>1. N' = N
    BY <1>1 DEF N
  <2>2. ASSUME NEW i \in 1 .. N
        PROVE  {l \in leaked' : l < calls[i].slot} = {l \in leaked : l < calls[i].slot}
    BY <1>1, <1>3, <1>5, <1>8
  <2>3. ASSUME NEW i \in 2 .. N
        PROVE  calls[i - 1].slot + 1 .. calls[i].slot - 1 \subseteq leaked'
    <3>1. i \in 1 .. N /\ i - 1 \in 1 .. N
      BY <1>5
    <3>2. calls[i - 1].slot + 1 .. calls[i].slot - 1 \subseteq leaked
      BY <1>2 DEF SlotsInOrder
    <3> QED BY <3>1, <3>2, <1>1, <1>3, <1>5
  <2>4. \A i \in 1 .. N :
          {l \in leaked' : l < calls[i].slot} = {} => calls[i].slot = i - 1
    BY <2>2, <1>2 DEF SlotsInOrder
  <2> QED BY <2>1, <2>3, <2>4, <1>1, <1>2, <1>3 DEF SlotsInOrder
<1>15. AreasInOrder' /\ LeakedInOrder'
  BY <1>1, <1>2 DEF AreasInOrder, LeakedInOrder, Above, Regular, N, End
<1>16. ActsMatchCalls'
  <2>1. N' = N
    BY <1>1 DEF N
  <2>2. ASSUME NEW j \in 1 .. M, NEW i \in 1 .. N, calls[i].slot = acts[j].ftop
        PROVE  IF j = 1 THEN i = 1 ELSE i > 1 /\ StandsIn(acts[j - 1].cur, i - 1)'
    <3>1. IF j = 1 THEN i = 1 ELSE i > 1 /\ StandsIn(acts[j - 1].cur, i - 1)
      BY <2>2, <1>2 DEF ActsMatchCalls, M
    <3>2. ASSUME j # 1 PROVE StandsIn(acts[j - 1].cur, i - 1)'
      <4>1. /\ j - 1 \in 1 .. M /\ j - 1 # M /\ i - 1 \in 1 .. N /\ i - 1 < N
            /\ StandsIn(acts[j - 1].cur, i - 1)
        BY <3>1, <3>2, <1>5, <1>7
      <4>2. PICK h \in 1 .. N : h = i - 1 /\ h < N /\ h + 1 = i
        BY <4>1
      <4>3. PICK y : y = acts[j - 1].cur
        OBVIOUS
      <4>4. y = calls[h].slot \/ (y \in leaked /\ calls[h].slot < y /\ y < calls[i].slot)
        BY <4>1, <4>2, <4>3 DEF StandsIn, Above
      <4>5. y \in leaked /\ y < calls[i].slot => y \in leaked'
        BY <1>1, <1>3, <1>5, <1>8
      <4>6. StandsIn(y, h)'
        BY <4>2, <4>4, <4>5, <2>1, <1>1 DEF StandsIn, Above
      <4>7. acts'[j - 1].cur = y
        BY <4>1, <4>3, <1>7
      <4> QED BY <4>2, <4>6, <4>7
    <3> QED BY <3>1, <3>2
  <2>3. \A i, j \in 1 .. M : i < j => acts'[i].ftop < acts'[j].ftop
    BY <1>2, <1>7 DEF ActsMatchCalls, M
  <2>4. \A j \in 1 .. M : \E i \in 1 .. N :
          calls[i].native /\ calls[i].slot = acts'[j].ftop /\ calls[i].frame.base = acts'[j].etop
    BY <1>2, <1>7 DEF ActsMatchCalls, M
  <2>5. \A i \in 1 .. N : calls[i].native => \E j \in 1 .. M : calls[i].slot = acts'[j].ftop
    BY <1>2, <1>7 DEF ActsMatchCalls, M
  <2>6. \A j \in 1 .. M, i \in 1 .. N : calls'[i].slot = acts'[j].ftop =>
          IF j = 1 THEN i = 1 ELSE i > 1 /\ StandsIn(acts[j - 1].cur, i - 1)'
    BY <2>2, <1>1, <1>7
  <2> QED BY <2>1, <2>3, <2>4, <2>5, <2>6, <1>1, <1>7 DEF ActsMatchCalls, M
<1> QED BY <1>11, <1>12, <1>13, <1>14, <1>15, <1>16 DEF IInv

--------------------------------------------------------------------------------
(* Calls that fail.                                                        *)
LEMMA SpareSlot ==
  ASSUME IInv, FrameFits, slots' = [slots EXCEPT ![ftop].old = etop], calls' = calls
  PROVE  /\ slots' \in [0 .. FrameSize - 1 -> FrameRec] /\ ftop \in 0 .. FrameSize - 1
         /\ \A i \in 1 .. N : slots'[calls[i].slot] = calls[i].frame
         /\ \A l \in leaked : slots'[l] = slots[l]
         /\ slots'[ftop].old = etop
<1>1. TypeOK /\ FramesIntact
  BY DEF IInv
<1>2. ftop \in 0 .. FrameSize - 1
  BY <1>1, SizeAssumption DEF FrameFits, TypeOK
<1>3. etop \in Nat /\ \A i \in 1 .. N : calls[i].slot < ftop
  BY BelowTops
<1>4. slots[ftop] \in FrameRec
  BY <1>1, <1>2 DEF TypeOK
<1> DEFINE r == [slots[ftop] EXCEPT !.old = etop]
<1>5. r \in FrameRec
  BY <1>3, <1>4 DEF FrameRec
<1>6. slots' = [slots EXCEPT ![ftop] = r]
  OBVIOUS
<1> HIDE DEF r
<1>7. slots' \in [0 .. FrameSize - 1 -> FrameRec]
  BY <1>1, <1>2, <1>5, <1>6 DEF TypeOK
<1>8. \A i \in 1 .. N : calls[i].slot \in 0 .. FrameSize - 1 /\ calls[i].slot \in Nat
  BY <1>1, CallTypes, SizeAssumption
<1>9. \A i \in 1 .. N : slots[calls[i].slot] = calls[i].frame
  BY <1>1 DEF FramesIntact, N
<1>10. \A i \in 1 .. N : slots'[calls[i].slot] = calls[i].frame
  BY <1>1, <1>2, <1>3, <1>6, <1>8, <1>9 DEF TypeOK
<1>11. \A l \in leaked : slots'[l] = slots[l]
  <2>1. \A l \in leaked : l \in 0 .. FrameSize - 1 /\ l # ftop
    BY <1>1, <1>2, BelowTops DEF TypeOK
  <2> QED BY <2>1, <1>1, <1>6 DEF TypeOK
<1>12. slots'[ftop].old = etop
  <2>1. r.old = etop
    BY <1>4 DEF r, FrameRec
  <2> QED BY <2>1, <1>1, <1>2, <1>6 DEF TypeOK
<1> QED BY <1>2, <1>7, <1>10, <1>11, <1>12

LEMMA ExecuteOverflowsStep ==
  ASSUME IInv, NEW n \in Need, ExecuteOverflows(n)
  PROVE  IInv'
<1>1. /\ FrameFits /\ slots' = [slots EXCEPT ![ftop].old = etop]
      /\ UNCHANGED <<ftop, etop, acts, leaked, calls>>
  BY DEF ExecuteOverflows
<1>2. /\ slots' \in [0 .. FrameSize - 1 -> FrameRec]
      /\ \A i \in 1 .. N : slots'[calls[i].slot] = calls[i].frame
      /\ \A l \in leaked : slots'[l] = slots[l]
  BY <1>1, SpareSlot
<1>3. /\ TypeOK /\ FramesIntact /\ TopsExact /\ SlotsInOrder /\ AreasInOrder
      /\ LeakedInOrder /\ ActsMatchCalls
  BY DEF IInv
<1>4. TypeOK'
  BY <1>1, <1>2, <1>3 DEF TypeOK
<1>5. FramesIntact'
  BY <1>1, <1>2, <1>3 DEF FramesIntact, Act, N
<1>6. TopsExact'
  BY <1>1, <1>3 DEF TopsExact
<1>7. SlotsInOrder' /\ AreasInOrder' /\ ActsMatchCalls'
  <2>1. SlotsInOrder' /\ AreasInOrder'
    BY <1>1, <1>3 DEF SlotsInOrder, AreasInOrder, Regular, N, End
  <2>2. ActsMatchCalls'
    BY <1>1, <1>3 DEF ActsMatchCalls, StandsIn, Above, N
  <2> QED BY <2>1, <2>2
<1>8. LeakedInOrder'
  <2> SUFFICES ASSUME NEW l \in leaked, NEW i \in 1 .. N, Above(l, i)
               PROVE  slots'[l].old = End(i)
    BY <1>1 DEF LeakedInOrder, Above, N, End
  <2> QED BY <1>2, <1>3 DEF LeakedInOrder
<1> QED BY <1>4, <1>5, <1>6, <1>7, <1>8 DEF IInv

LEMMA CallOverflowsStep ==
  ASSUME IInv, NEW k \in 0 .. EvalSize, NEW n \in Need, CallOverflows(k, n)
  PROVE  IInv'
<1>1. /\ FrameFits /\ slots' = [slots EXCEPT ![ftop].old = etop] /\ acts # <<>>
      /\ ftop' = ftop + 1 /\ leaked' = leaked \cup {ftop}
      /\ UNCHANGED <<etop, acts, calls>>
  BY DEF CallOverflows
<1>2. /\ slots' \in [0 .. FrameSize - 1 -> FrameRec] /\ ftop \in 0 .. FrameSize - 1
      /\ \A i \in 1 .. N : slots'[calls[i].slot] = calls[i].frame
      /\ (\A l \in leaked : slots'[l] = slots[l]) /\ slots'[ftop].old = etop
  BY <1>1, SpareSlot
<1>3. /\ TypeOK /\ FramesIntact /\ TopsExact /\ SlotsInOrder /\ AreasInOrder
      /\ LeakedInOrder /\ ActsMatchCalls
  BY DEF IInv
<1>4. /\ calls # <<>> /\ Last(calls) = calls[N] /\ N \in 1 .. N /\ etop = End(N)
  BY <1>1, Innermost
<1>5. /\ \A i \in 1 .. N : calls[i].slot < ftop /\ calls[i].slot \in Nat
      /\ \A l \in leaked : l < ftop /\ l \in Nat
      /\ calls[N].slot + 1 .. ftop - 1 = {l \in leaked : l > calls[N].slot}
  BY <1>3, <1>4, BelowTops, CallTypes
<1>6. TypeOK'
  <2>1. ftop' \in 0 .. FrameSize
    BY <1>1, <1>2, SizeAssumption
  <2>2. leaked' \subseteq 0 .. FrameSize - 1
    BY <1>1, <1>2, <1>3 DEF TypeOK
  <2> QED BY <2>1, <2>2, <1>1, <1>2, <1>3 DEF TypeOK
<1>7. FramesIntact'
  BY <1>1, <1>2, <1>3 DEF FramesIntact, Act, N
<1>8. TopsExact'
  <2>1. calls[N].slot + 1 .. ftop' - 1 = {l \in leaked' : l > calls[N].slot}
    <3> DEFINE s == calls[N].slot
    <3>1. s \in Nat /\ s < ftop
      BY <1>4, <1>5
    <3>2. s + 1 .. ftop - 1 = {l \in leaked : l > s}
      BY <1>5
    <3> HIDE DEF s
    <3>3. s + 1 .. ftop' - 1 = {l \in leaked' : l > s}
      BY <3>1, <3>2, <1>1, <1>2, <1>5
    <3> QED BY <3>3 DEF s
  <2>2. ftop' > calls[N].slot
    BY <1>1, <1>2, <1>4, <1>5
  <2> QED BY <2>1, <2>2, <1>1, <1>3, <1>4 DEF TopsExact
<1>9. SlotsInOrder'
  <2>1. ASSUME NEW i \in 1 .. N, {l \in leaked' : l < calls[i].slot} = {}
        PROVE  calls[i].slot = i - 1
    <3>1. {l \in leaked : l < calls[i].slot} = {}
      BY <2>1, <1>1
    <3> QED BY <3>1, <1>3 DEF SlotsInOrder
  <2>2. \A i \in 2 .. N : calls[i - 1].slot + 1 .. calls[i].slot - 1 \subseteq leaked'
    BY <1>1, <1>3 DEF SlotsInOrder
  <2>3. N' = N
    BY <1>1 DEF N
  <2> QED BY <2>1, <2>2, <2>3, <1>1, <1>3, <1>4 DEF SlotsInOrder
<1>10. AreasInOrder'
  BY <1>1, <1>3 DEF AreasInOrder, Regular, N, End
<1>11. LeakedInOrder'
  <2> SUFFICES ASSUME NEW l \in leaked', NEW i \in 1 .. N, Above(l, i)
               PROVE  slots'[l].old = End(i)
    BY <1>1 DEF LeakedInOrder, Above, N, End
  <2>1. CASE l \in leaked
    BY <2>1, <1>2, <1>3 DEF LeakedInOrder
  <2>2. CASE l = ftop
    <3>1. N \in Nat /\ (i < N => i + 1 \in 1 .. N)
      BY <1>3, CallTypes
    <3>2. ~(i < N)
      BY <2>2, <3>1, <1>2, <1>5 DEF Above
    <3>3. i = N
      BY <3>1, <3>2
    <3> QED BY <2>2, <3>3, <1>2, <1>4
  <2> QED BY <2>1, <2>2, <1>1
<1>12. ActsMatchCalls'
  <2>1. ASSUME NEW x, NEW i \in 1 .. N, StandsIn(x, i) PROVE StandsIn(x, i)'
    BY <2>1, <1>1 DEF StandsIn, Above, N
  <2>2. ASSUME NEW j \in 1 .. M, NEW i \in 1 .. N, calls[i].slot = acts[j].ftop
        PROVE  IF j = 1 THEN i = 1 ELSE i > 1 /\ StandsIn(acts[j - 1].cur, i - 1)'
    <3>1. IF j = 1 THEN i = 1 ELSE i > 1 /\ StandsIn(acts[j - 1].cur, i - 1)
      BY <2>2, <1>3 DEF ActsMatchCalls, M
    <3>2. i > 1 => i - 1 \in 1 .. N
      BY <1>4
    <3> QED BY <3>1, <3>2, <2>1, <1>1
  <2> QED BY <2>2, <1>1, <1>3 DEF ActsMatchCalls, M, N
<1> QED BY <1>6, <1>7, <1>8, <1>9, <1>10, <1>11, <1>12 DEF IInv

--------------------------------------------------------------------------------
(* The invariant is inductive.                                             *)
LEMMA InitInv == Init => IInv
<1> SUFFICES ASSUME Init PROVE IInv
  OBVIOUS
<1>1. /\ slots = [i \in 0 .. FrameSize - 1 |-> Unset] /\ ftop = 0 /\ etop = 0
      /\ acts = <<>> /\ leaked = {} /\ calls = <<>>
  BY DEF Init
<1>2. Len(acts) = 0 /\ Len(calls) = 0
  BY <1>1
<1>3. TypeOK
  <2>1. Unset \in FrameRec
    BY DEF Unset, FrameRec
  <2>2. slots \in [0 .. FrameSize - 1 -> FrameRec]
    BY <1>1, <2>1
  <2>3. calls \in Seq([slot : 0 .. FrameSize - 1, frame : FrameRec,
                    native : BOOLEAN, stale : BOOLEAN])
    BY <1>1
  <2>4. acts \in Seq([ftop : Nat, etop : Nat, cur : 0 .. FrameSize - 1])
    BY <1>1
  <2>5. ftop \in 0 .. FrameSize /\ etop \in 0 .. EvalSize
    BY <1>1, SizeAssumption
  <2> QED BY <2>2, <2>3, <2>4, <2>5, <1>1 DEF TypeOK
<1>4. FramesIntact
  BY <1>1, <1>2 DEF FramesIntact
<1>5. TopsExact
  BY <1>1 DEF TopsExact
<1>6. SlotsInOrder /\ AreasInOrder /\ LeakedInOrder /\ ActsMatchCalls
  BY <1>1, <1>2 DEF SlotsInOrder, AreasInOrder, LeakedInOrder, ActsMatchCalls, N
<1> QED BY <1>3, <1>4, <1>5, <1>6 DEF IInv

LEMMA ExecuteStep ==
  ASSUME IInv, NEW n \in Need, Execute(n)
  PROVE  IInv'
<1>1. /\ FrameFits /\ EvalFits(etop + n) /\ Entered(Rec(etop, n), TRUE, FALSE)
      /\ etop' = etop + n
  BY DEF Execute
<1>2. etop \in Nat /\ n \in Nat
  BY BelowTops, NeedAssumption
<1>3. PICK rec \in FrameRec : rec = Rec(etop, n)
  BY <1>2 DEF Rec, FrameRec
<1>4. rec.base = etop /\ rec.size = n /\ rec.old = etop
  BY <1>3 DEF Rec
<1>5. Entered(rec, TRUE, FALSE) /\ TRUE \in BOOLEAN /\ FALSE \in BOOLEAN
  BY <1>1, <1>3
<1>6. etop' = rec.base + rec.size /\ etop' <= EvalSize
  BY <1>1, <1>4 DEF EvalFits
<1>7. AreasInOrder'
  BY <1>1, <1>4, <1>5, <1>6, PushedAreas
<1>8. ActsMatchCalls' /\ acts' \in Seq(ActRec) /\ acts' # <<>> /\ Last(acts').cur = ftop
  BY ExecuteActs
<1> QED BY <1>1, <1>5, <1>6, <1>7, <1>8, PushStep

LEMMA CallInterpStep ==
  ASSUME IInv, NEW k \in 0 .. EvalSize, NEW n \in Need, CallInterp(k, n)
  PROVE  IInv'
<1>1. /\ acts # <<>> /\ k <= Cur.size /\ FrameFits /\ EvalFits(Cur.base + k + n)
      /\ Entered(Rec(Cur.base + k, n), FALSE, Stale) /\ etop' = Cur.base + k + n
      /\ acts' = [acts EXCEPT ![Len(acts)].cur = ftop]
  BY DEF CallInterp
<1>2. Cur \in FrameRec /\ etop = End(N) /\ N \in 1 .. N /\ N # 0
  BY <1>1, Innermost
<1>3. Cur.base \in Nat /\ Cur.size \in Nat /\ n \in Nat /\ k \in Nat /\ etop \in Nat
  BY <1>2, BelowTops, NeedAssumption DEF FrameRec
<1>4. PICK st \in BOOLEAN : st <=> Stale
  OBVIOUS
<1>5. PICK rec \in FrameRec : rec = Rec(Cur.base + k, n)
  <2>1. Rec(Cur.base + k, n) \in FrameRec
    <3>1. Cur.base + k \in Nat
      BY <1>3
    <3> QED BY <3>1, <1>3 DEF Rec, FrameRec
  <2> QED BY <2>1
<1>6. rec.base = Cur.base + k /\ rec.size = n /\ rec.old = etop
  BY <1>5 DEF Rec
<1>7. Entered(rec, FALSE, st) /\ FALSE \in BOOLEAN
  BY <1>1, <1>4, <1>5
<1>8. etop' = rec.base + rec.size /\ etop' <= EvalSize
  BY <1>1, <1>6 DEF EvalFits
<1>9. ~st => calls[N].frame.base <= rec.base /\ rec.base <= etop
  <2>1. ~st => Cur = calls[N].frame
    BY <1>1, <1>4, Standing
  <2>2. ~st => etop = Cur.base + Cur.size
    BY <2>1, <1>2 DEF End
  <2> QED BY <2>1, <2>2, <1>1, <1>3, <1>6
<1>10. AreasInOrder'
  BY <1>1, <1>2, <1>6, <1>7, <1>8, <1>9, PushedAreas
<1>11. ActsMatchCalls' /\ acts' \in Seq(ActRec) /\ acts' # <<>> /\ Last(acts').cur = ftop
  BY <1>1, <1>7, CallActs
<1> QED BY <1>1, <1>7, <1>8, <1>10, <1>11, PushStep

LEMMA LeaveToInterpStep ==
  ASSUME IInv, LeaveToInterp
  PROVE  IInv'
<1>1. acts # <<>> /\ Left(Act.cur) /\ etop' = Cur.old
  BY DEF LeaveToInterp
<1>2. CASE Stale
  BY <1>2, StaleStep
<1>3. CASE ~Stale
  <2>1. Cur = calls[N].frame
    BY <1>1, <1>3, Standing
  <2>2. /\ Act.cur = calls[N].slot /\ N # 1
        /\ ActsMatchCalls' /\ acts' \in Seq(ActRec) /\ acts' # <<>>
        /\ \/ Last(acts').cur = calls[N - 1].slot
           \/ Last(acts').cur \in leaked' /\ Last(acts').cur > calls[N - 1].slot
    BY <1>3, LeaveCallActs
  <2> QED BY <2>1, <2>2, <1>1, <1>3, PopStep
<1> QED BY <1>2, <1>3

LEMMA LeaveToNativeStep ==
  ASSUME IInv, LeaveToNative
  PROVE  IInv'
<1>1. acts # <<>> /\ Left(Act.ftop) /\ etop' = Act.etop
  BY DEF LeaveToNative
<1>2. /\ Act.ftop = calls[N].slot /\ Act.etop = calls[N].frame.old
      /\ ActsMatchCalls' /\ acts' \in Seq(ActRec) /\ (acts' = <<>> <=> N = 1)
      /\ ~Stale
      /\ N # 1 => \/ Last(acts').cur = calls[N - 1].slot
                  \/ Last(acts').cur \in leaked' /\ Last(acts').cur > calls[N - 1].slot
  BY LeaveToNativeActs
<1> QED BY <1>1, <1>2, PopStep

LEMMA NextInv ==
  ASSUME IInv, [Next]_vars
  PROVE  IInv'
<1>1. CASE UNCHANGED vars
  <2>1. UNCHANGED <<slots, ftop, etop, acts, leaked, calls>>
    BY <1>1 DEF vars
  <2>2. TypeOK' /\ FramesIntact' /\ TopsExact'
    BY <2>1 DEF IInv, TypeOK, FramesIntact, Act, TopsExact
  <2>3. SlotsInOrder' /\ AreasInOrder' /\ LeakedInOrder' /\ ActsMatchCalls'
    BY <2>1 DEF IInv, SlotsInOrder, AreasInOrder, Regular, LeakedInOrder, ActsMatchCalls,
                StandsIn, Above, N, End
  <2> QED BY <2>2, <2>3 DEF IInv
<1>2. ASSUME NEW n \in Need, Execute(n) PROVE IInv'
  BY <1>2, ExecuteStep
<1>3. ASSUME NEW n \in Need, ExecuteOverflows(n) PROVE IInv'
  BY <1>3, ExecuteOverflowsStep
<1>4. ASSUME NEW k \in 0 .. EvalSize, NEW n \in Need, CallInterp(k, n) PROVE IInv'
  BY <1>4, CallInterpStep
<1>5. ASSUME NEW k \in 0 .. EvalSize, NEW n \in Need, CallOverflows(k, n) PROVE IInv'
  BY <1>5, CallOverflowsStep
<1>6. CASE LeaveToInterp
  BY <1>6, LeaveToInterpStep
<1>7. CASE LeaveToNative
  BY <1>7, LeaveToNativeStep
<1> QED BY <1>1, <1>2, <1>3, <1>4, <1>5, <1>6, <1>7 DEF Next

LEMMA InvHolds == Spec => []IInv
<1>1. Init => IInv
  BY InitInv
<1>2. IInv /\ [Next]_vars => IInv'
  BY NextInv
<1> QED BY <1>1, <1>2, PTL DEF Spec

(* Whatever calls were made, returned or failed for lack of either stack,  *)
(* and even while a frame runs that a failed call left: both tops are what *)
(* the calls in progress need (enter_frame_*, leave_frame,                 *)
(* MachineStateSavePoint).                                                 *)
THEOREM StacksExact == Spec => [](TypeOK /\ TopsExact)
<1>1. IInv => TypeOK /\ TopsExact
  BY DEF IInv
<1> QED BY <1>1, InvHolds, PTL

(* No call overwrites the frame of a call in progress, in whichever order  *)
(* interpreter and native code nest, and the interpreter never stands      *)
(* below the innermost call, nor above it but in a slot that a failed call *)
(* left.                                                                   *)
THEOREM FramesSurvive == Spec => []FramesIntact
<1>1. IInv => FramesIntact
  BY DEF IInv
<1> QED BY <1>1, InvHolds, PTL

(* The part of its area that a call in progress may still use is never     *)
(* part of the area of another: callees overlay arguments only, and native *)
(* code allocates above everything in use; only what a stale frame called, *)
(* and calls made from there, may lie anywhere.                            *)
THEOREM AreasDisjoint == Spec => []LiveDisjoint
<1>1. ASSUME IInv PROVE LiveDisjoint
  <2> SUFFICES ASSUME NEW i \in 1 .. N, NEW j \in 1 .. N, i < j, Regular(j)
               PROVE  LiveEnd(i) <= calls[j].frame.base /\ calls[i].frame.base <= LiveEnd(i)
    BY DEF LiveDisjoint, N
  <2>1. TypeOK /\ AreasInOrder
    BY <1>1 DEF IInv
  <2>2. PICK h \in 1 .. N : h = i + 1 /\ h <= j /\ h # 1 /\ i = h - 1
    BY <2>1, CallTypes
  <2>3. /\ calls[h].frame.base \in Nat /\ calls[j].frame.base \in Nat
        /\ calls[i].frame.base \in Nat /\ calls[i].frame.size \in Nat
    BY <2>1, CallTypes
  <2>4. \A a, b \in 1 .. N : a < b /\ Regular(b) => calls[a].frame.base <= calls[b].frame.base
    BY <2>1 DEF AreasInOrder
  <2>5. Regular(h)
    BY <2>1, <2>2, CallTypes DEF Regular
  <2>6. calls[h].frame.base <= calls[j].frame.base /\ calls[i].frame.base <= calls[h].frame.base
    BY <2>2, <2>3, <2>4, <2>5
  <2>7. calls[h].native => calls[h].frame.base = End(i)
    BY <2>1, <2>2 DEF AreasInOrder
  <2>8. LiveEnd(i) = IF ~calls[h].native THEN calls[h].frame.base ELSE End(i)
    BY <2>1, <2>2, CallTypes DEF LiveEnd, End, N
  <2> QED BY <2>3, <2>6, <2>7, <2>8
<1> QED BY <1>1, InvHolds, PTL

(* Until a call fails for lack of evaluation stack, the caller of a frame  *)
(* is in the slot below, where leave_frame goes on.                        *)
THEOREM CallerFound == Spec => []CallerBelow
<1>1. ASSUME IInv PROVE CallerBelow
  BY <1>1 DEF IInv, SlotsInOrder, CallerBelow, N
<1> QED BY <1>1, InvHolds, PTL
================================================================================
